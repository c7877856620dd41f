----------------------------- MODULE JobProofs -----------------------------
(***************************************************************************)
(* Scheduler: that the cron follows the task table, for any number of      *)
(* tasks and callers, whatever calls they make and however often the       *)
(* process crashes.  The property speaks of tasks without a call under     *)
(* way; the invariant adds what holds of a task in the middle of its one   *)
(* call, step by step.  Data migration: what a dump has read, a restore    *)
(* reports and a backup's metadata say, for any number of requests, table  *)
(* and page size, while rows come and go.  Audit log: that the index of    *)
(* the one store answers what the table of the other does.                 *)
(***************************************************************************)
EXTENDS Scheduler, DataMigration, AuditLog, SequenceTheorems, FiniteSetTheorems, TLAPS

RowType == [row : {"none", "here", "deleted"}, status : Status, cfg : Configs]

Places == {"idle", "create", "get", "remove", "store", "schedule", "delete"}

CallType ==
  [op : AllOps \cup {"none"}, at : Places, task : Tasks \cup {0}, status : Status, cfg : Configs,
   newStatus : Status \cup {Absent}, newCfg : {{}} \cup {{x} : x \in Configs}]

\* Where a call can be, and that a pause or a resume is remembered.
CallInPlace(r) ==
  /\ r.at = "idle" <=> r.op = "none"
  /\ r.op # "none" => r.task \in Tasks
  /\ r.at = "create" => r.op = "add"
  /\ r.at = "get" => r.op \in {"update", "pause", "resume", "run"}
  /\ r.at = "remove" => r.op \in {"update", "delete"}
  /\ r.at = "store" => r.op \in {"update", "pause", "resume"}
  /\ r.at = "schedule" => r.op \in {"add", "update", "resume"}
  /\ r.at = "delete" => r.op = "delete"

TypesOK ==
  /\ store \in [Tasks -> RowType]
  /\ call \in [Callers -> CallType]
  /\ DOMAIN cronJobs = Tasks
  /\ cron \in {"down", "running", "stopping", "stopped"}
  /\ \A c \in Callers : CallInPlace(call[c])

\* What Start needs: nothing is left of the process before.
NothingLeft ==
  cron = "down" => entries = {} /\ mixed = {} /\ call = [c \in Callers |-> NoCall]

\* The conclusion of CronFollowsStore for one task.
Follows(t) ==
  IF t \in Active /\ Repeats(store[t].cfg)
  THEN \E e \in entries : EntriesOf(t) = {e} /\ e.cfg = store[t].cfg /\ cronJobs[t] = e.n
  ELSE EntriesOf(t) = {}

\* The task has no entry but the one that cronJobs names.
Removable(t) == EntriesOf(t) = {} \/ \E e \in entries : EntriesOf(t) = {e} /\ cronJobs[t] = e.n

\* What holds of task t while c is its only call.
Underway(t, c) ==
  LET r == call[c] IN
  /\ r.op \notin {"pause", "resume"}
  /\ r.at \in {"get", "delete"} => Follows(t)
  /\ r.at = "create" => EntriesOf(t) = {} /\ store[t].row # "here"
  /\ r.at = "remove" => Removable(t) /\ (r.op = "update" <=> store[t].row = "here")
  /\ r.at = "store" => EntriesOf(t) = {} /\ store[t].row = "here"
  /\ r.at = "schedule" => /\ EntriesOf(t) = {} /\ store[t].row = "here"
                          /\ store[t].status = r.status /\ store[t].cfg = r.cfg

TaskInOrder(t) ==
  t \notin mixed =>
    /\ \A c, d \in CallsOn(t) : c = d
    /\ \A c \in CallsOn(t) : Underway(t, c)
    /\ CallsOn(t) = {} => Follows(t)

SchedulerIInv ==
  /\ TypesOK /\ NothingLeft
  /\ cron = "running" => \A t \in Tasks : TaskInOrder(t)

-----------------------------------------------------------------------------
LEMMA NoCallType == NoCall \in CallType /\ CallInPlace(NoCall)
<1>1. AnyConfig \in Configs
  BY SchedulerAssumption DEF AnyConfig
<1>. QED
  BY <1>1 DEF NoCall, CallType, CallInPlace, Places, Status

\* A task that a step leaves alone stays in order.
LEMMA LeftAlone ==
  ASSUME NEW t \in Tasks, TaskInOrder(t), t \in mixed => t \in mixed',
         store'[t] = store[t], cronJobs'[t] = cronJobs[t], EntriesOf(t)' = EntriesOf(t),
         CallsOn(t)' = CallsOn(t), \A c \in CallsOn(t) : call'[c] = call[c]
  PROVE  TaskInOrder(t)'
<1>1. Follows(t)' <=> Follows(t)
  <2>1. (t \in Active)' <=> t \in Active
    BY DEF Active
  <2>2. ASSUME NEW e PROVE (e \in entries' /\ EntriesOf(t)' = {e}) <=> (e \in entries /\ EntriesOf(t) = {e})
    BY DEF EntriesOf
  <2>. QED
    BY <2>1, <2>2 DEF Follows
<1>2. Removable(t)' <=> Removable(t)
  <2>2. ASSUME NEW e PROVE (e \in entries' /\ EntriesOf(t)' = {e}) <=> (e \in entries /\ EntriesOf(t) = {e})
    BY DEF EntriesOf
  <2>. QED
    BY <2>2 DEF Removable
<1>3. ASSUME NEW c \in CallsOn(t), Underway(t, c) PROVE Underway(t, c)'
  BY <1>1, <1>2, <1>3 DEF Underway
<1>. QED
  BY <1>1, <1>3 DEF TaskInOrder

\* A call that is under way, and its task.
LEMMA CallUnderway ==
  ASSUME SchedulerIInv, NEW c \in Callers, NEW t, t = call[c].task, call[c].op # "none"
  PROVE  /\ t \in Tasks /\ c \in CallsOn(t) /\ cron # "down"
         /\ call[c] \in CallType /\ CallInPlace(call[c])
         /\ cron = "running" /\ t \notin mixed => Underway(t, c)
<1>1. call[c] \in CallType /\ CallInPlace(call[c]) /\ t \in Tasks
  BY DEF SchedulerIInv, TypesOK, CallInPlace
<1>2. c \in CallsOn(t)
  BY DEF CallsOn
<1>3. cron # "down"
  BY DEF SchedulerIInv, NothingLeft, NoCall
<1>. QED
  BY <1>1, <1>2, <1>3 DEF SchedulerIInv, TaskInOrder

\* A step of call c on its task t, after which the call is n: the other tasks are
\* left alone, and what has to be shown is that t is in order after the step.
LEMMA OneStepIInv ==
  ASSUME SchedulerIInv, NEW c \in Callers, NEW t, t = call[c].task, call[c].op # "none",
         NEW n, n \in CallType, CallInPlace(n), call' = [call EXCEPT ![c] = n],
         n.op = "none" \/ (n.op = call[c].op /\ n.task = t),
         store' \in [Tasks -> RowType], DOMAIN cronJobs' = Tasks, cron' = cron, mixed \subseteq mixed',
         \A u \in Tasks \ {t} :
           store'[u] = store[u] /\ cronJobs'[u] = cronJobs[u] /\ EntriesOf(u)' = EntriesOf(u),
         cron = "running" /\ t \notin mixed' /\ n.op = "none" => Follows(t)',
         cron = "running" /\ t \notin mixed' /\ n.op # "none" => Underway(t, c)'
  PROVE  SchedulerIInv'
<1>1. /\ t \in Tasks /\ c \in CallsOn(t) /\ cron # "down"
      /\ call[c] \in CallType /\ CallInPlace(call[c])
  BY CallUnderway
<1>2. call' \in [Callers -> CallType] /\ \A d \in Callers : call'[d] = IF d = c THEN n ELSE call[d]
  BY DEF SchedulerIInv, TypesOK
<1>3. TypesOK'
  <2>1. ASSUME NEW d \in Callers PROVE CallInPlace(call[d])'
    <3>1. CallInPlace(call[d])
      BY DEF SchedulerIInv, TypesOK
    <3>. QED
      BY <1>2, <3>1 DEF CallInPlace
  <2>. QED
    BY <1>2, <2>1 DEF SchedulerIInv, TypesOK
<1>4. NothingLeft'
  BY <1>1 DEF NothingLeft
<1>5. ASSUME cron = "running", NEW u \in Tasks PROVE TaskInOrder(u)'
  <2>1. TaskInOrder(u)
    BY <1>5 DEF SchedulerIInv
  <2>2. CASE u # t
    <3>1. c \notin CallsOn(u) /\ c \notin CallsOn(u)'
      BY <1>2, <2>2 DEF CallsOn
    <3>2. CallsOn(u)' = CallsOn(u) /\ \A d \in CallsOn(u) : call'[d] = call[d]
      BY <1>2, <3>1 DEF CallsOn
    <3>. QED
      BY <2>1, <2>2, <3>2, LeftAlone
  <2>3. CASE u = t
    <3>. SUFFICES ASSUME t \notin mixed'
                  PROVE  /\ \A d, e \in CallsOn(t)' : d = e
                         /\ \A d \in CallsOn(t)' : Underway(t, d)'
                         /\ CallsOn(t)' = {} => Follows(t)'
      BY <2>3 DEF TaskInOrder
    <3>1. CallsOn(t) = {c}
      BY <1>1, <2>1, <2>3 DEF TaskInOrder
    <3>2. CallsOn(t)' = IF n.op = "none" THEN {} ELSE {c}
      <4>1. ASSUME NEW d \in Callers, d # c PROVE d \notin CallsOn(t)'
        BY <1>2, <3>1, <4>1 DEF CallsOn
      <4>2. c \in CallsOn(t)' <=> n.op # "none"
        BY <1>2 DEF CallsOn
      <4>3. CallsOn(t)' \subseteq Callers
        BY DEF CallsOn
      <4>. QED
        BY <4>1, <4>2, <4>3
    <3>. QED
      BY <1>5, <3>2
  <2>. QED
    BY <2>2, <2>3
<1>. QED
  BY <1>3, <1>4, <1>5 DEF SchedulerIInv

\* The entries and the map after scheduleTask.
LEMMA Scheduled ==
  ASSUME NEW cfgs, DOMAIN cfgs \subseteq Tasks, ScheduleTasks(cfgs), NEW t \in Tasks
  PROVE  /\ DOMAIN cronJobs' = Tasks
         /\ t \in DOMAIN cfgs /\ Repeats(cfgs[t]) =>
              \E e : /\ EntriesOf(t)' = EntriesOf(t) \cup {e} /\ e \in entries'
                     /\ e.cfg = cfgs[t] /\ e.n = cronJobs'[t]
         /\ ~(t \in DOMAIN cfgs /\ Repeats(cfgs[t])) =>
              EntriesOf(t)' = EntriesOf(t) /\ (t \in DOMAIN cronJobs => cronJobs'[t] = cronJobs[t])
<1>. DEFINE item(u) == [task |-> u, n |-> made[u] + 1, cfg |-> cfgs[u]]
            rep == {u \in DOMAIN cfgs : Repeats(cfgs[u])}
<1>1. /\ entries' = entries \cup {item(u) : u \in rep}
      /\ cronJobs' = [u \in Tasks |-> IF u \in rep THEN made[u] + 1 ELSE cronJobs[u]]
  BY DEF ScheduleTasks
<1>2. \A u : item(u).task = u /\ item(u).n = made[u] + 1 /\ item(u).cfg = cfgs[u]
  OBVIOUS
<1>. HIDE DEF item
<1>3. EntriesOf(t)' = EntriesOf(t) \cup {x \in {item(u) : u \in rep} : x.task = t}
  BY <1>1 DEF EntriesOf
<1>4. {x \in {item(u) : u \in rep} : x.task = t} = IF t \in rep THEN {item(t)} ELSE {}
  BY <1>2
<1>5. CASE t \in rep
  <2>1. /\ EntriesOf(t)' = EntriesOf(t) \cup {item(t)} /\ item(t) \in entries'
        /\ item(t).cfg = cfgs[t] /\ item(t).n = cronJobs'[t]
    BY <1>1, <1>2, <1>3, <1>4, <1>5
  <2>. QED
    BY <1>1, <1>5, <2>1
<1>6. CASE t \notin rep
  BY <1>1, <1>3, <1>4, <1>6
<1>. QED
  BY <1>5, <1>6

\* A step that leaves the table, the cron and its map alone.
LEMMA OnlyTheCall ==
  ASSUME SchedulerIInv, NEW c \in Callers, NEW t, t = call[c].task, call[c].op # "none",
         NEW n, n \in CallType, CallInPlace(n), call' = [call EXCEPT ![c] = n],
         n.op = "none" \/ (n.op = call[c].op /\ n.task = t),
         store' = store, entries' = entries, cronJobs' = cronJobs, cron' = cron, mixed \subseteq mixed',
         cron = "running" /\ t \notin mixed' /\ n.op = "none" => Follows(t),
         cron = "running" /\ t \notin mixed' /\ n.op # "none" => Underway(t, c)'
  PROVE  SchedulerIInv'
<1>1. store' \in [Tasks -> RowType] /\ DOMAIN cronJobs' = Tasks
  BY DEF SchedulerIInv, TypesOK
<1>2. \A u : EntriesOf(u)' = EntriesOf(u)
  BY DEF EntriesOf
<1>3. Follows(t) => Follows(t)'
  BY <1>2 DEF Follows, Active
<1>. QED
  BY <1>1, <1>2, <1>3, OneStepIInv

\* A step of something else: the tasks and the calls are left alone.
LEMMA NothingChanges ==
  ASSUME SchedulerIInv, UNCHANGED <<store, entries, cronJobs, call, mixed>>,
         cron' = cron \/ (cron' \in {"stopping", "stopped"})
  PROVE  SchedulerIInv'
<1>1. TypesOK'
  BY DEF SchedulerIInv, TypesOK, CallInPlace
<1>2. NothingLeft'
  BY DEF SchedulerIInv, NothingLeft
<1>3. ASSUME cron = "running", NEW u \in Tasks PROVE TaskInOrder(u)'
  <2>1. TaskInOrder(u)
    BY <1>3 DEF SchedulerIInv
  <2>2. EntriesOf(u)' = EntriesOf(u) /\ CallsOn(u)' = CallsOn(u)
    BY DEF EntriesOf, CallsOn
  <2>. QED
    BY <2>1, <2>2, LeftAlone
<1>. QED
  BY <1>1, <1>2, <1>3 DEF SchedulerIInv

\* The fields of a call after GoTo.
LEMMA AfterGoTo ==
  ASSUME NEW r \in CallType, NEW at \in Places, NEW n, n = [r EXCEPT !.at = at]
  PROVE  /\ n \in CallType /\ n.at = at /\ n.op = r.op /\ n.task = r.task
         /\ n.status = r.status /\ n.cfg = r.cfg
BY DEF CallType

\* The fields of the request in a row.
LEMMA PatchedType ==
  ASSUME NEW c, NEW r, r = call[c], r \in CallType, NEW row \in RowType
  PROVE  Patched(c, row) \in RowType /\ Patched(c, row).row = row.row
<1>1. r.newStatus \in Status \cup {Absent} /\ r.newCfg \in {{}} \cup {{x} : x \in Configs}
  BY DEF CallType
<1>2. (IF r.newStatus = Absent THEN row.status ELSE r.newStatus) \in Status
  BY <1>1 DEF RowType
<1>3. (IF r.newCfg = {} THEN row.cfg ELSE CHOOSE g \in r.newCfg : TRUE) \in Configs
  <2>1. CASE r.newCfg = {}
    BY <2>1 DEF RowType
  <2>2. CASE r.newCfg # {}
    <3>1. (CHOOSE g \in r.newCfg : TRUE) \in r.newCfg
      BY <2>2
    <3>2. r.newCfg \subseteq Configs
      BY <1>1
    <3>. QED
      BY <2>2, <3>1, <3>2
  <2>. QED
    BY <2>1, <2>2
<1>4. Patched(c, row) = [row EXCEPT !.status = IF r.newStatus = Absent THEN row.status ELSE r.newStatus,
                                    !.cfg = IF r.newCfg = {} THEN row.cfg ELSE CHOOSE g \in r.newCfg : TRUE]
  BY DEF Patched, RowType
<1>5. ASSUME NEW s \in Status, NEW g \in Configs, NEW m, m = [row EXCEPT !.status = s, !.cfg = g]
      PROVE  m \in RowType /\ m.row = row.row
  BY <1>5 DEF RowType
<1>6. PICK s \in Status : s = IF r.newStatus = Absent THEN row.status ELSE r.newStatus
  BY <1>2
<1>7. PICK g \in Configs : g = IF r.newCfg = {} THEN row.cfg ELSE CHOOSE x \in r.newCfg : TRUE
  BY <1>3
<1>8. Patched(c, row) = [row EXCEPT !.status = s, !.cfg = g]
  BY <1>4, <1>6, <1>7
<1>. QED
  BY <1>5, <1>8

LEMMA SchedulerNextIInv == SchedulerIInv /\ [Next]_vars => SchedulerIInv'
<1>. SUFFICES ASSUME SchedulerIInv, [Next]_vars PROVE SchedulerIInv'
  OBVIOUS
<1>1. ASSUME Start PROVE SchedulerIInv'
  <2>1. /\ cron = "down" /\ cron' = "running" /\ store' = store /\ call' = call /\ mixed' = mixed
        /\ ScheduleTasks([t \in Active |-> store[t].cfg])
    BY <1>1 DEF Start
  <2>2. entries = {} /\ mixed = {} /\ call = [c \in Callers |-> NoCall]
    BY <2>1 DEF SchedulerIInv, NothingLeft
  <2>3. PICK cfgs : cfgs = [t \in Active |-> store[t].cfg]
    OBVIOUS
  <2>4. DOMAIN cfgs = Active /\ Active \subseteq Tasks /\ \A t \in Active : cfgs[t] = store[t].cfg
    BY <2>3 DEF Active
  <2>5. ASSUME NEW t \in Tasks PROVE TaskInOrder(t)' /\ DOMAIN cronJobs' = Tasks
    <3>1. EntriesOf(t) = {}
      BY <2>2 DEF EntriesOf
    <3>2. CallsOn(t)' = {}
      BY <2>1, <2>2 DEF CallsOn, NoCall
    <3>3. /\ DOMAIN cronJobs' = Tasks
          /\ t \in DOMAIN cfgs /\ Repeats(cfgs[t]) =>
               \E e : /\ EntriesOf(t)' = EntriesOf(t) \cup {e} /\ e \in entries'
                      /\ e.cfg = cfgs[t] /\ e.n = cronJobs'[t]
          /\ ~(t \in DOMAIN cfgs /\ Repeats(cfgs[t])) => EntriesOf(t)' = EntriesOf(t)
      BY <2>1, <2>3, <2>4, Scheduled
    <3>4. Active' = Active
      BY <2>1 DEF Active
    <3>5. CASE t \in Active /\ Repeats(store[t].cfg)
      <4>1. PICK e : EntriesOf(t)' = EntriesOf(t) \cup {e} /\ e \in entries' /\ e.cfg = store[t].cfg /\ e.n = cronJobs'[t]
        BY <2>4, <3>3, <3>5
      <4>2. EntriesOf(t)' = {e}
        BY <3>1, <4>1
      <4>3. Follows(t)'
        BY <2>1, <3>4, <3>5, <4>1, <4>2 DEF Follows
      <4>. QED
        BY <3>2, <3>3, <4>3 DEF TaskInOrder
    <3>6. CASE ~(t \in Active /\ Repeats(store[t].cfg))
      <4>1. EntriesOf(t)' = {}
        BY <2>4, <3>1, <3>3, <3>6
      <4>2. Follows(t)'
        BY <2>1, <3>4, <3>6, <4>1 DEF Follows
      <4>. QED
        BY <3>2, <3>3, <4>2 DEF TaskInOrder
    <3>. QED
      BY <3>5, <3>6
  <2>6. DOMAIN cronJobs' = Tasks
    <3>1. cronJobs' \in [Tasks -> {cronJobs'[t] : t \in Tasks}]
      BY <2>1 DEF ScheduleTasks
    <3>. QED
      BY <3>1
  <2>7. TypesOK' /\ NothingLeft'
    BY <2>1, <2>6 DEF SchedulerIInv, TypesOK, NothingLeft, CallInPlace
  <2>. QED
    BY <2>1, <2>5, <2>7 DEF SchedulerIInv
<1>2. ASSUME Stop PROVE SchedulerIInv'
  BY <1>2, NothingChanges DEF Stop
<1>3. ASSUME StopReturns PROVE SchedulerIInv'
  BY <1>3 DEF StopReturns, SchedulerIInv, TypesOK, NothingLeft, CallInPlace
<1>4. ASSUME ProcessEnds PROVE SchedulerIInv'
  <2>1. /\ cron' = "down" /\ entries' = {} /\ mixed' = {} /\ store' = store
        /\ call' = [c \in Callers |-> NoCall] /\ cronJobs' = [t \in Tasks |-> 0]
    BY <1>4 DEF ProcessEnds
  <2>2. \A c \in Callers : call'[c] = NoCall
    BY <2>1
  <2>3. ASSUME NEW c \in Callers PROVE CallInPlace(call[c])'
    BY <2>2, NoCallType DEF CallInPlace
  <2>4. TypesOK'
    BY <2>1, <2>3, NoCallType DEF SchedulerIInv, TypesOK
  <2>5. NothingLeft'
    BY <2>1 DEF NothingLeft
  <2>. QED
    BY <2>1, <2>4, <2>5 DEF SchedulerIInv
<1>5. ASSUME NEW c \in Callers, NEW op \in Ops, NEW t \in Tasks, NEW s \in Status \cup {Absent},
             NEW g \in {{}} \cup {{x} : x \in Configs}, Begin(c, op, t, s, g)
      PROVE  SchedulerIInv'
  <2>1. /\ cron = "running" /\ cron' = cron /\ call[c] = NoCall
        /\ store' = store /\ entries' = entries /\ cronJobs' = cronJobs
        /\ mixed' = NowMixed(t, op) /\ (op = "add" => store[t].row = "none")
    BY <1>5 DEF Begin
  <2>2. PICK n : n = [NoCall EXCEPT !.op = op, !.task = t, !.at = FirstStep(op), !.newStatus = s, !.newCfg = g]
    OBVIOUS
  <2>3. /\ op \in AllOps
        /\ FirstStep(op) = IF op = "add" THEN "create" ELSE IF op = "delete" THEN "delete" ELSE "get"
    BY SchedulerAssumption DEF FirstStep, AllOps
  <2>4. FirstStep(op) \in Places
    BY <2>3 DEF Places
  <2>5. n \in CallType /\ n.op = op /\ n.task = t /\ n.at = FirstStep(op)
    BY <2>2, <2>3, <2>4, NoCallType DEF CallType
  <2>6. CallInPlace(n)
    BY <2>3, <2>5 DEF CallInPlace, AllOps
  <2>7. call' = [call EXCEPT ![c] = n]
    BY <1>5, <2>2 DEF Begin
  <2>8. call' \in [Callers -> CallType] /\ \A d \in Callers : call'[d] = IF d = c THEN n ELSE call[d]
    BY <2>5, <2>7 DEF SchedulerIInv, TypesOK
  <2>9. ASSUME NEW d \in Callers PROVE CallInPlace(call[d])'
    <3>1. CallInPlace(call[d])
      BY DEF SchedulerIInv, TypesOK
    <3>. QED
      BY <2>6, <2>8, <3>1 DEF CallInPlace
  <2>10. TypesOK' /\ NothingLeft'
    BY <2>1, <2>8, <2>9 DEF SchedulerIInv, TypesOK, NothingLeft
  <2>11. call[c].op = "none" /\ n.op # "none"
    BY <2>1, <2>3, <2>5 DEF NoCall, AllOps
  <2>12. \A u : EntriesOf(u)' = EntriesOf(u)
    BY <2>1 DEF EntriesOf
  <2>13. ASSUME NEW u \in Tasks PROVE TaskInOrder(u)'
    <3>1. TaskInOrder(u) /\ mixed \subseteq mixed'
      BY <2>1 DEF SchedulerIInv, NowMixed
    <3>2. CASE u # t
      <4>1. c \notin CallsOn(u) /\ c \notin CallsOn(u)'
        BY <2>5, <2>8, <2>11, <3>2 DEF CallsOn
      <4>2. CallsOn(u)' = CallsOn(u) /\ \A d \in CallsOn(u) : call'[d] = call[d]
        BY <2>8, <4>1 DEF CallsOn
      <4>. QED
        BY <2>1, <2>12, <3>1, <4>2, LeftAlone
    <3>3. CASE u = t
      <4>. SUFFICES ASSUME t \notin mixed'
                    PROVE  /\ \A d, e \in CallsOn(t)' : d = e
                           /\ \A d \in CallsOn(t)' : Underway(t, d)'
                           /\ CallsOn(t)' = {} => Follows(t)'
        BY <3>3 DEF TaskInOrder
      <4>1. CallsOn(t) = {} /\ op \notin {"pause", "resume"} /\ t \notin mixed
        BY <2>1 DEF NowMixed
      <4>2. CallsOn(t)' = {c}
        <5>1. ASSUME NEW d \in Callers, d # c PROVE d \notin CallsOn(t)'
          BY <2>8, <4>1, <5>1 DEF CallsOn
        <5>2. c \in CallsOn(t)' /\ CallsOn(t)' \subseteq Callers
          BY <2>5, <2>8, <2>11 DEF CallsOn
        <5>. QED
          BY <5>1, <5>2
      <4>3. Follows(t) /\ Follows(t)'
        BY <2>1, <2>12, <3>1, <3>3, <4>1 DEF TaskInOrder, Follows, Active
      <4>4. op = "add" => EntriesOf(t)' = {} /\ store'[t].row # "here"
        BY <2>1, <2>12, <4>3 DEF Follows, Active
      <4>5. Underway(t, c)'
        BY <2>3, <2>5, <2>8, <4>1, <4>3, <4>4 DEF Underway
      <4>. QED
        BY <4>2, <4>5
    <3>. QED
      BY <3>2, <3>3
  <2>. QED
    BY <2>10, <2>13 DEF SchedulerIInv
<1>6. ASSUME NEW c \in Callers, CreateTask(c) PROVE SchedulerIInv'
  <2>1. PICK r, t : r = call[c] /\ t = r.task
    OBVIOUS
  <2>2. r \in CallType /\ CallInPlace(r) /\ r.at = "create"
    BY <1>6, <2>1 DEF CreateTask, SchedulerIInv, TypesOK
  <2>3. r.op = "add" /\ t \in Tasks /\ (cron = "running" /\ t \notin mixed => Underway(t, c))
    BY <2>1, <2>2, CallUnderway DEF CallInPlace
  <2>4. PICK row0 : row0 = [NoTask EXCEPT !.row = "here"]
    OBVIOUS
  <2>5. row0 \in RowType /\ row0.row = "here"
    BY <2>4, SchedulerAssumption DEF RowType, NoTask, AnyConfig, Status
  <2>6. PICK row : row = Patched(c, row0)
    OBVIOUS
  <2>7. row \in RowType /\ row.row = "here" /\ row.status \in Status /\ row.cfg \in Configs
    BY <2>1, <2>2, <2>5, <2>6, PatchedType DEF RowType
  <2>8. PICK n : n = [NoCall EXCEPT !.op = r.op, !.task = r.task, !.at = "schedule", !.status = row.status, !.cfg = row.cfg]
    OBVIOUS
  <2>9. "schedule" \in Places
    BY DEF Places
  <2>10. /\ n \in CallType /\ n.at = "schedule" /\ n.op = r.op /\ n.task = r.task
         /\ n.status = row.status /\ n.cfg = row.cfg
    BY <2>2, <2>7, <2>8, <2>9, NoCallType DEF CallType
  <2>11. CallInPlace(n)
    BY <2>1, <2>3, <2>10 DEF CallInPlace
  <2>12. /\ call' = [call EXCEPT ![c] = n] /\ store' = [store EXCEPT ![t] = row]
         /\ entries' = entries /\ cronJobs' = cronJobs /\ cron' = cron /\ mixed' = mixed
    BY <1>6, <2>1, <2>4, <2>6, <2>8 DEF CreateTask, Copy
  <2>13. /\ store' \in [Tasks -> RowType] /\ store'[t] = row /\ \A u \in Tasks \ {t} : store'[u] = store[u]
         /\ DOMAIN cronJobs' = Tasks /\ call'[c] = n
    BY <2>3, <2>7, <2>12 DEF SchedulerIInv, TypesOK
  <2>14. \A u : EntriesOf(u)' = EntriesOf(u)
    BY <2>12 DEF EntriesOf
  <2>15. cron = "running" /\ t \notin mixed => Underway(t, c)'
    BY <2>1, <2>2, <2>3, <2>7, <2>10, <2>13, <2>14 DEF Underway
  <2>. QED
    BY <2>1, <2>3, <2>10, <2>11, <2>12, <2>13, <2>14, <2>15, OneStepIInv
<1>7. ASSUME NEW c \in Callers, GetTask(c) PROVE SchedulerIInv'
  <2>1. PICK r, t : r = call[c] /\ t = r.task
    OBVIOUS
  <2>2. r \in CallType /\ CallInPlace(r) /\ r.at = "get" /\ r.op # "run"
    BY <1>7, <2>1 DEF GetTask, SchedulerIInv, TypesOK
  <2>3. r.op \in {"update", "pause", "resume"} /\ t \in Tasks /\ (cron = "running" /\ t \notin mixed => Underway(t, c))
    BY <2>1, <2>2, CallUnderway DEF CallInPlace
  <2>4. store' = store /\ entries' = entries /\ cronJobs' = cronJobs /\ cron' = cron /\ mixed' = mixed
    BY <1>7 DEF GetTask
  <2>5. CASE Return(c)
    <3>1. cron = "running" /\ t \notin mixed => Follows(t)
      BY <2>1, <2>2, <2>3 DEF Underway
    <3>2. call' = [call EXCEPT ![c] = NoCall] /\ NoCall.op = "none"
      BY <2>5 DEF Return, NoCall
    <3>. QED
      BY <2>1, <2>3, <2>4, <3>1, <3>2, NoCallType, OnlyTheCall
  <2>6. CASE /\ store[t].row = "here"
             /\ Copy(c, IF r.op = "update" THEN "remove" ELSE "store",
                     CASE r.op = "update" -> Patched(c, store[t]).status
                       [] r.op = "pause" -> "paused"
                       [] r.op = "resume" -> "active",
                     Patched(c, store[t]).cfg)
    <3>1. PICK at \in {"remove", "store"} : at = IF r.op = "update" THEN "remove" ELSE "store"
      OBVIOUS
    <3>2. Patched(c, store[t]) \in RowType
      <4>1. PICK row \in RowType : row = store[t]
        BY <2>3 DEF SchedulerIInv, TypesOK
      <4>. QED
        BY <2>1, <2>2, <4>1, PatchedType
    <3>3. Patched(c, store[t]).status \in Status /\ Patched(c, store[t]).cfg \in Configs
      BY <3>2 DEF RowType
    <3>4. PICK s \in Status : s = CASE r.op = "update" -> Patched(c, store[t]).status
                                    [] r.op = "pause" -> "paused"
                                    [] r.op = "resume" -> "active"
      BY <2>3, <3>3 DEF Status
    <3>5. PICK g \in Configs : g = Patched(c, store[t]).cfg
      BY <3>3
    <3>6. PICK n : n = [NoCall EXCEPT !.op = r.op, !.task = r.task, !.at = at, !.status = s, !.cfg = g]
      OBVIOUS
    <3>7. at \in Places
      BY DEF Places
    <3>8. n \in CallType /\ n.at = at /\ n.op = r.op /\ n.task = r.task
      BY <2>2, <3>6, <3>7, NoCallType DEF CallType
    <3>9. CallInPlace(n)
      BY <2>1, <2>3, <3>1, <3>8 DEF CallInPlace
    <3>10. Copy(c, at, s, g)
      BY <2>6, <3>1, <3>4, <3>5
    <3>11. call' = [call EXCEPT ![c] = n]
      BY <2>1, <3>6, <3>10 DEF Copy
    <3>12. call'[c] = n
      BY <3>11 DEF SchedulerIInv, TypesOK
    <3>13. Follows(t) => Removable(t)'
      BY <2>4 DEF Follows, Removable, EntriesOf
    <3>14. cron = "running" /\ t \notin mixed => Underway(t, c)'
      <4>. SUFFICES ASSUME cron = "running", t \notin mixed PROVE Underway(t, c)'
        OBVIOUS
      <4>1. r.op = "update" /\ Follows(t)
        BY <2>1, <2>2, <2>3 DEF Underway
      <4>. QED
        BY <2>4, <2>6, <3>1, <3>8, <3>12, <3>13, <4>1 DEF Underway
    <3>. QED
      BY <2>1, <2>3, <2>4, <3>8, <3>9, <3>11, <3>14, OnlyTheCall
  <2>. QED
    BY <1>7, <2>1, <2>5, <2>6 DEF GetTask
<1>8. ASSUME NEW c \in Callers, RemoveEntry(c) PROVE SchedulerIInv'
  <2>1. PICK r, t : r = call[c] /\ t = r.task
    OBVIOUS
  <2>2. r \in CallType /\ CallInPlace(r) /\ r.at = "remove"
    BY <1>8, <2>1 DEF RemoveEntry, SchedulerIInv, TypesOK
  <2>3. r.op \in {"update", "delete"} /\ t \in Tasks /\ (cron = "running" /\ t \notin mixed => Underway(t, c))
    BY <2>1, <2>2, CallUnderway DEF CallInPlace
  <2>4. /\ store' = store /\ cron' = cron /\ mixed' = mixed
        /\ entries' = {e \in entries : ~(e.task = t /\ e.n = cronJobs[t])}
        /\ cronJobs' = [cronJobs EXCEPT ![t] = 0]
    BY <1>8, <2>1 DEF RemoveEntry
  <2>5. /\ store' \in [Tasks -> RowType] /\ DOMAIN cronJobs' = Tasks
        /\ \A u \in Tasks \ {t} : cronJobs'[u] = cronJobs[u]
    BY <2>4 DEF SchedulerIInv, TypesOK
  <2>10. \A u \in Tasks \ {t} : EntriesOf(u)' = EntriesOf(u)
    BY <2>4 DEF EntriesOf
  <2>6. \A u \in Tasks \ {t} :
          store'[u] = store[u] /\ cronJobs'[u] = cronJobs[u] /\ EntriesOf(u)' = EntriesOf(u)
    BY <2>4, <2>5, <2>10
  <2>7. cron = "running" /\ t \notin mixed =>
          EntriesOf(t)' = {} /\ (r.op = "update" <=> store'[t].row = "here")
    <3>. SUFFICES ASSUME cron = "running", t \notin mixed
                  PROVE  EntriesOf(t)' = {} /\ (r.op = "update" <=> store'[t].row = "here")
      OBVIOUS
    <3>1. Removable(t) /\ (r.op = "update" <=> store[t].row = "here")
      BY <2>1, <2>2, <2>3 DEF Underway
    <3>2. EntriesOf(t)' = {e \in EntriesOf(t) : e.n # cronJobs[t]}
      BY <2>4 DEF EntriesOf
    <3>. QED
      BY <2>4, <3>1, <3>2 DEF Removable
  <2>8. CASE r.op = "update"
    <3>1. PICK n : n = [r EXCEPT !.at = "store"]
      OBVIOUS
    <3>2. n \in CallType /\ n.at = "store" /\ n.op = r.op /\ n.task = r.task
      BY <2>2, <3>1 DEF CallType, Places
    <3>3. CallInPlace(n)
      BY <2>1, <2>3, <2>8, <3>2 DEF CallInPlace
    <3>4. call' = [call EXCEPT ![c] = n] /\ call'[c] = n
      BY <1>8, <2>1, <2>8, <3>1 DEF RemoveEntry, GoTo, SchedulerIInv, TypesOK
    <3>5. cron = "running" /\ t \notin mixed => Underway(t, c)'
      BY <2>7, <2>8, <3>2, <3>4 DEF Underway
    <3>. QED
      BY <2>1, <2>3, <2>4, <2>5, <2>6, <3>2, <3>3, <3>4, <3>5, OneStepIInv, ZenonT(40)
  <2>9. CASE r.op # "update"
    <3>1. call' = [call EXCEPT ![c] = NoCall] /\ NoCall.op = "none"
      BY <1>8, <2>1, <2>9 DEF RemoveEntry, Return, NoCall
    <3>2. cron = "running" /\ t \notin mixed => Follows(t)'
      BY <2>7, <2>9 DEF Follows, Active
    <3>. QED
      BY <2>1, <2>3, <2>4, <2>5, <2>6, <3>1, <3>2, NoCallType, OneStepIInv
  <2>. QED
    BY <2>8, <2>9
<1>9. ASSUME NEW c \in Callers, StoreTask(c) PROVE SchedulerIInv'
  <2>1. PICK r, t : r = call[c] /\ t = r.task
    OBVIOUS
  <2>2. r \in CallType /\ CallInPlace(r) /\ r.at = "store"
    BY <1>9, <2>1 DEF StoreTask, SchedulerIInv, TypesOK
  <2>3. /\ r.op \in {"update", "pause", "resume"} /\ t \in Tasks
        /\ cron = "running" /\ t \notin mixed => Underway(t, c)
        /\ r.status \in Status /\ r.cfg \in Configs
    BY <2>1, <2>2, CallUnderway DEF CallInPlace, CallType
  <2>4. /\ entries' = entries /\ cronJobs' = cronJobs /\ cron' = cron /\ mixed' = mixed
        /\ store' = IF store[t].row # "here" THEN store
                    ELSE [store EXCEPT ![t].status = r.status, ![t].cfg = r.cfg]
    BY <1>9, <2>1 DEF StoreTask
  <2>5. /\ store' \in [Tasks -> RowType] /\ \A u \in Tasks \ {t} : store'[u] = store[u]
        /\ store[t].row = "here" =>
             store'[t].row = "here" /\ store'[t].status = r.status /\ store'[t].cfg = r.cfg
    <3>1. store \in [Tasks -> RowType] /\ store[t] \in RowType
      BY <2>3 DEF SchedulerIInv, TypesOK
    <3>2. CASE store[t].row # "here"
      BY <2>4, <3>1, <3>2
    <3>3. CASE store[t].row = "here"
      <4>1. PICK m : m = [store[t] EXCEPT !.status = r.status, !.cfg = r.cfg]
        OBVIOUS
      <4>2. m \in RowType /\ m.row = "here" /\ m.status = r.status /\ m.cfg = r.cfg
        BY <2>3, <3>1, <3>3, <4>1 DEF RowType
      <4>3. store' = [store EXCEPT ![t] = m]
        BY <2>3, <2>4, <3>1, <3>3, <4>1 DEF RowType
      <4>. QED
        BY <2>3, <3>1, <4>2, <4>3
    <3>. QED
      BY <3>2, <3>3
  <2>6. DOMAIN cronJobs' = Tasks /\ \A u : EntriesOf(u)' = EntriesOf(u)
    BY <2>4 DEF SchedulerIInv, TypesOK, EntriesOf
  <2>7. cron = "running" /\ t \notin mixed =>
          r.op = "update" /\ EntriesOf(t)' = {} /\ store[t].row = "here"
    BY <2>1, <2>2, <2>3, <2>6 DEF Underway
  <2>8. CASE (r.op = "pause" \/ store[t].row # "here") /\ Return(c)
    <3>1. call' = [call EXCEPT ![c] = NoCall] /\ NoCall.op = "none"
      BY <2>8 DEF Return, NoCall
    <3>2. ~(cron = "running" /\ t \notin mixed)
      BY <2>7, <2>8
    <3>. QED
      BY <2>1, <2>3, <2>4, <2>5, <2>6, <3>1, <3>2, NoCallType, OneStepIInv
  <2>9. CASE r.op # "pause" /\ GoTo(c, "schedule")
    <3>1. PICK n : n = [r EXCEPT !.at = "schedule"]
      OBVIOUS
    <3>2. /\ n \in CallType /\ n.at = "schedule" /\ n.op = r.op /\ n.task = r.task
          /\ n.status = r.status /\ n.cfg = r.cfg
      BY <2>2, <3>1 DEF CallType, Places
    <3>3. CallInPlace(n)
      BY <2>1, <2>3, <2>9, <3>2 DEF CallInPlace
    <3>4. call' = [call EXCEPT ![c] = n] /\ call'[c] = n
      BY <2>1, <2>9, <3>1 DEF GoTo, SchedulerIInv, TypesOK
    <3>5. cron = "running" /\ t \notin mixed => Underway(t, c)'
      BY <2>5, <2>7, <3>2, <3>4 DEF Underway
    <3>. QED
      BY <2>1, <2>3, <2>4, <2>5, <2>6, <3>2, <3>3, <3>4, <3>5, OneStepIInv, ZenonT(40)
  <2>. QED
    BY <1>9, <2>1, <2>8, <2>9 DEF StoreTask
<1>10. ASSUME NEW c \in Callers, Reschedule(c) PROVE SchedulerIInv'
  <2>1. PICK r, t : r = call[c] /\ t = r.task
    OBVIOUS
  <2>2. r \in CallType /\ CallInPlace(r) /\ r.at = "schedule"
    BY <1>10, <2>1 DEF Reschedule, SchedulerIInv, TypesOK
  <2>3. /\ r.op # "none" /\ t \in Tasks
        /\ cron = "running" /\ t \notin mixed => Underway(t, c)
    BY <2>1, <2>2, CallUnderway DEF CallInPlace
  <2>4. PICK cfgs : cfgs = [u \in IF r.status = "active" THEN {t} ELSE {} |-> r.cfg]
    OBVIOUS
  <2>5. /\ store' = store /\ cron' = cron /\ mixed' = mixed /\ ScheduleTasks(cfgs)
        /\ call' = [call EXCEPT ![c] = NoCall] /\ NoCall.op = "none"
    BY <1>10, <2>1, <2>4 DEF Reschedule, Return, NoCall
  <2>6. /\ DOMAIN cfgs = (IF r.status = "active" THEN {t} ELSE {}) /\ DOMAIN cfgs \subseteq Tasks
        /\ r.status = "active" => cfgs[t] = r.cfg
    BY <2>3, <2>4
  <2>7. DOMAIN cronJobs' = Tasks /\ store' \in [Tasks -> RowType] /\ DOMAIN cronJobs = Tasks
    BY <2>3, <2>5, <2>6, Scheduled DEF SchedulerIInv, TypesOK
  <2>8. ASSUME NEW u \in Tasks \ {t} PROVE cronJobs'[u] = cronJobs[u] /\ EntriesOf(u)' = EntriesOf(u)
    <3>1. u \notin DOMAIN cfgs
      BY <2>6
    <3>. QED
      BY <2>5, <2>6, <2>7, <3>1, Scheduled
  <2>9. ASSUME cron = "running", t \notin mixed PROVE Follows(t)'
    <3>1. /\ EntriesOf(t) = {} /\ store[t].row = "here" /\ store[t].status = r.status
          /\ store[t].cfg = r.cfg
      BY <2>1, <2>2, <2>3, <2>9 DEF Underway
    <3>2. (t \in Active)' <=> r.status = "active"
      BY <2>3, <2>5, <3>1 DEF Active
    <3>3. CASE r.status = "active" /\ Repeats(r.cfg)
      <4>1. PICK e : EntriesOf(t)' = EntriesOf(t) \cup {e} /\ e \in entries' /\ e.cfg = r.cfg /\ e.n = cronJobs'[t]
        BY <2>3, <2>5, <2>6, <3>3, Scheduled
      <4>2. EntriesOf(t)' = {e}
        BY <3>1, <4>1
      <4>. QED
        BY <2>5, <3>1, <3>2, <3>3, <4>1, <4>2 DEF Follows
    <3>4. CASE ~(r.status = "active" /\ Repeats(r.cfg))
      <4>1. EntriesOf(t)' = EntriesOf(t)
        BY <2>3, <2>5, <2>6, <3>4, Scheduled
      <4>. QED
        BY <2>5, <3>1, <3>2, <3>4, <4>1 DEF Follows
    <3>. QED
      BY <3>3, <3>4
  <2>. QED
    BY <2>1, <2>3, <2>5, <2>7, <2>8, <2>9, NoCallType, OneStepIInv
<1>11. ASSUME NEW c \in Callers, DeleteTask(c) PROVE SchedulerIInv'
  <2>1. PICK r, t : r = call[c] /\ t = r.task
    OBVIOUS
  <2>2. r \in CallType /\ CallInPlace(r) /\ r.at = "delete"
    BY <1>11, <2>1 DEF DeleteTask, SchedulerIInv, TypesOK
  <2>3. r.op = "delete" /\ t \in Tasks /\ (cron = "running" /\ t \notin mixed => Underway(t, c))
    BY <2>1, <2>2, CallUnderway DEF CallInPlace
  <2>4. PICK row : row = [NoTask EXCEPT !.row = "deleted"]
    OBVIOUS
  <2>5. row \in RowType /\ row.row = "deleted"
    BY <2>4, SchedulerAssumption DEF RowType, NoTask, AnyConfig, Status
  <2>6. /\ entries' = entries /\ cronJobs' = cronJobs /\ cron' = cron /\ mixed' = mixed
        /\ store' = [store EXCEPT ![t] = row]
    BY <1>11, <2>1, <2>4 DEF DeleteTask
  <2>7. /\ store' \in [Tasks -> RowType] /\ store'[t] = row /\ \A u \in Tasks \ {t} : store'[u] = store[u]
        /\ DOMAIN cronJobs' = Tasks
    BY <2>3, <2>5, <2>6 DEF SchedulerIInv, TypesOK
  <2>8. \A u : EntriesOf(u)' = EntriesOf(u)
    BY <2>6 DEF EntriesOf
  <2>9. cron = "running" /\ t \notin mixed => Follows(t)
    BY <2>1, <2>2, <2>3 DEF Underway
  <2>10. CASE GoTo(c, "remove")
    <3>1. PICK n : n = [r EXCEPT !.at = "remove"]
      OBVIOUS
    <3>2. n \in CallType /\ n.at = "remove" /\ n.op = r.op /\ n.task = r.task
      BY <2>2, <3>1 DEF CallType, Places
    <3>3. CallInPlace(n)
      BY <2>1, <2>3, <3>2 DEF CallInPlace
    <3>4. call' = [call EXCEPT ![c] = n] /\ call'[c] = n
      BY <2>1, <2>10, <3>1 DEF GoTo, SchedulerIInv, TypesOK
    <3>5. Follows(t) => Removable(t)'
      BY <2>6, <2>8 DEF Follows, Removable
    <3>6. cron = "running" /\ t \notin mixed => Underway(t, c)'
      BY <2>3, <2>5, <2>7, <2>9, <3>2, <3>4, <3>5 DEF Underway
    <3>. QED
      BY <2>1, <2>3, <2>6, <2>7, <2>8, <3>2, <3>3, <3>4, <3>6, OneStepIInv
  <2>11. CASE store[t].row # "here" /\ Return(c)
    <3>1. call' = [call EXCEPT ![c] = NoCall] /\ NoCall.op = "none"
      BY <2>11 DEF Return, NoCall
    <3>2. cron = "running" /\ t \notin mixed => Follows(t)'
      BY <2>5, <2>7, <2>8, <2>9, <2>11 DEF Follows, Active
    <3>. QED
      BY <2>1, <2>3, <2>6, <2>7, <2>8, <3>1, <3>2, NoCallType, OneStepIInv
  <2>. QED
    BY <1>11, <2>1, <2>10, <2>11 DEF DeleteTask
<1>12. ASSUME NEW c \in Callers, RunTaskNow(c) PROVE SchedulerIInv'
  <2>1. PICK t : t = call[c].task
    OBVIOUS
  <2>2. /\ call[c].at = "get" /\ call[c].op = "run" /\ call' = [call EXCEPT ![c] = NoCall] /\ NoCall.op = "none"
        /\ store' = store /\ entries' = entries /\ cronJobs' = cronJobs /\ cron' = cron /\ mixed' = mixed
    BY <1>12 DEF RunTaskNow, Return, NoCall
  <2>3. cron = "running" /\ t \notin mixed => Follows(t)
    BY <2>1, <2>2, CallUnderway DEF Underway
  <2>. QED
    BY <2>1, <2>2, <2>3, NoCallType, OnlyTheCall
<1>13. ASSUME NEW c \in Callers, StoreFails(c) PROVE SchedulerIInv'
  <2>1. PICK r, t : r = call[c] /\ t = r.task
    OBVIOUS
  <2>2. r \in CallType /\ CallInPlace(r) /\ r.at \in {"create", "get", "store", "delete"}
    BY <1>13, <2>1 DEF StoreFails, SchedulerIInv, TypesOK
  <2>3. /\ r.op # "none" /\ t \in Tasks
        /\ cron = "running" /\ t \notin mixed => Underway(t, c)
    BY <2>1, <2>2, CallUnderway DEF CallInPlace
  <2>4. /\ store' = store /\ entries' = entries /\ cronJobs' = cronJobs /\ cron' = cron
        /\ call' = [call EXCEPT ![c] = NoCall] /\ NoCall.op = "none"
        /\ mixed' = IF r.op = "update" /\ r.at = "store" THEN mixed \cup {t} ELSE mixed
    BY <1>13, <2>1 DEF StoreFails, Return, NoCall
  <2>5. cron = "running" /\ t \notin mixed' => Follows(t)
    <3>. SUFFICES ASSUME cron = "running", t \notin mixed' PROVE Follows(t)
      OBVIOUS
    <3>1. Underway(t, c) /\ ~(r.op = "update" /\ r.at = "store")
      BY <2>3, <2>4
    <3>2. CASE r.at \in {"get", "delete"}
      BY <2>1, <3>1, <3>2 DEF Underway
    <3>3. CASE r.at = "create"
      BY <2>1, <3>1, <3>3 DEF Underway, Follows, Active
    <3>4. r.at # "store"
      BY <2>1, <2>2, <3>1 DEF Underway, CallInPlace
    <3>. QED
      BY <2>2, <3>2, <3>3, <3>4
  <2>. QED
    BY <2>1, <2>3, <2>4, <2>5, NoCallType, OnlyTheCall
<1>14. ASSUME NEW e \in entries, Fire(e) PROVE SchedulerIInv'
  BY <1>14, NothingChanges DEF Fire
<1>15. ASSUME NEW m \in timers, TimerFires(m) \/ TimerQuits(m) PROVE SchedulerIInv'
  BY <1>15, NothingChanges DEF TimerFires, TimerQuits
<1>16. ASSUME NEW t \in Tasks, JobEnds(t) \/ LooseEnds(t) PROVE SchedulerIInv'
  BY <1>16, NothingChanges DEF JobEnds, LooseEnds
<1>17. CASE UNCHANGED vars
  BY <1>17, NothingChanges DEF vars
<1>. QED
  BY <1>1, <1>2, <1>3, <1>4, <1>5, <1>6, <1>7, <1>8, <1>9, <1>10, <1>11, <1>12, <1>13, <1>14, <1>15,
     <1>16, <1>17 DEF Next, CallStep

\* The cron follows the task table, for any tasks, callers, configurations, API
\* calls and faults, crashes in the middle of a call included.
THEOREM CronFollowsStoreTheorem == Spec => []CronFollowsStore
<1>1. Init => SchedulerIInv
  <2>. SUFFICES ASSUME Init PROVE SchedulerIInv
    OBVIOUS
  <2>1. NoTask \in RowType
    BY SchedulerAssumption DEF NoTask, RowType, AnyConfig, Status
  <2>2. \A c \in Callers : call[c] = NoCall
    BY DEF Init
  <2>3. TypesOK
    BY <2>1, <2>2, NoCallType DEF Init, TypesOK
  <2>. QED
    BY <2>3 DEF Init, SchedulerIInv, NothingLeft
<1>2. SchedulerIInv => CronFollowsStore
  BY DEF SchedulerIInv, CronFollowsStore, TaskInOrder, Quiet, Follows
<1>. QED
  BY <1>1, <1>2, SchedulerNextIInv, PTL DEF Spec

-----------------------------------------------------------------------------
(* Sorting *)

\* A larger element has a larger rank, and the ranks are 1 .. Cardinality(S).
LEMMA RankProperties ==
  ASSUME NEW S, \A z \in S : z \in Int, IsFiniteSet(S)
  PROVE  /\ Cardinality(S) \in Nat
         /\ \A x \in S : Rank(S, x) \in 1 .. Cardinality(S)
         /\ \A x, y \in S : x < y => Rank(S, x) < Rank(S, y)
         /\ \A n \in 1 .. Cardinality(S) : \E x \in S : Rank(S, x) = n
<1>1. Cardinality(S) \in Nat
  BY FS_CardinalityType
<1>2. ASSUME NEW x \in S
      PROVE  Rank(S, x) \in 1 .. Cardinality(S)
  <2>1. {y \in S : y <= x} \in SUBSET S /\ x \in {y \in S : y <= x}
    OBVIOUS
  <2>2. IsFiniteSet({y \in S : y <= x}) /\ Cardinality({y \in S : y <= x}) <= Cardinality(S)
    BY <2>1, FS_Subset
  <2>3. Cardinality({y \in S : y <= x}) \in Nat /\ Cardinality({y \in S : y <= x}) # 0
    BY <2>1, <2>2, FS_CardinalityType, FS_EmptySet
  <2>. QED
    BY <1>1, <2>2, <2>3 DEF Rank
<1>3. ASSUME NEW x \in S, NEW y \in S, x < y
      PROVE  Rank(S, x) < Rank(S, y)
  <2>1. (\A z \in S : z <= x => z <= y) /\ y <= y /\ ~(y <= x)
    BY <1>3
  <2>2. /\ {z \in S : z <= y} \in SUBSET S
        /\ {z \in S : z <= x} \in SUBSET {z \in S : z <= y}
        /\ y \in {z \in S : z <= y} /\ y \notin {z \in S : z <= x}
    BY <2>1
  <2>3. IsFiniteSet({z \in S : z <= y})
    BY <2>2, FS_Subset
  <2>4. /\ Cardinality({z \in S : z <= x}) <= Cardinality({z \in S : z <= y})
        /\ Cardinality({z \in S : z <= x}) # Cardinality({z \in S : z <= y})
    BY <2>2, <2>3, FS_Subset
  <2>. QED
    BY <1>2, <2>4 DEF Rank
<1>4. ASSUME NEW n \in 1 .. Cardinality(S)
      PROVE  \E x \in S : Rank(S, x) = n
  <2>. DEFINE f == [x \in S |-> Rank(S, x)]
  <2>1. f \in [S -> 1 .. Cardinality(S)]
    BY <1>2
  <2>2. \A x, y \in S : f[x] = f[y] => x = y
    BY <1>2, <1>3
  <2>3. f \in Injection(S, 1 .. Cardinality(S))
    BY <2>1, <2>2 DEF Injection, IsInjective
  <2>4. IsFiniteSet(1 .. Cardinality(S)) /\ Cardinality(1 .. Cardinality(S)) = Cardinality(S)
    BY <1>1, FS_Interval
  <2>5. f \in Surjection(S, 1 .. Cardinality(S))
    BY <2>3, <2>4, FS_Injection
  <2>. QED
    BY <2>5 DEF Surjection
<1>. QED
  BY <1>1, <1>2, <1>3, <1>4

\* Ascending lists every element once, the smaller ones first.
LEMMA AscendingProperties ==
  ASSUME NEW S, \A z \in S : z \in Int, IsFiniteSet(S)
  PROVE  /\ Cardinality(S) \in Nat
         /\ Ascending(S) \in [1 .. Cardinality(S) -> S]
         /\ Ascending(S) \in Seq(S) /\ Len(Ascending(S)) = Cardinality(S)
         /\ \A n \in 1 .. Cardinality(S) : Rank(S, Ascending(S)[n]) = n
         /\ IsInjective(Ascending(S)) /\ ToSet(Ascending(S)) = S
<1>1. Cardinality(S) \in Nat
  BY RankProperties
<1>2. \A n \in 1 .. Cardinality(S) : Ascending(S)[n] \in S /\ Rank(S, Ascending(S)[n]) = n
  BY RankProperties DEF Ascending
<1>3. Ascending(S) \in [1 .. Cardinality(S) -> S]
  BY <1>2 DEF Ascending
<1>4. Ascending(S) \in Seq(S) /\ Len(Ascending(S)) = Cardinality(S)
  BY <1>1, <1>3, SeqDef
<1>5. \A m, n \in 1 .. Cardinality(S) : Ascending(S)[m] = Ascending(S)[n] => m = n
  BY <1>2
<1>6. IsInjective(Ascending(S))
  BY <1>3, <1>5 DEF IsInjective
<1>7. ASSUME NEW x \in S
      PROVE  \E n \in 1 .. Cardinality(S) : Ascending(S)[n] = x
  <2>. DEFINE n == Rank(S, x)
  <2>1. n \in 1 .. Cardinality(S) /\ Ascending(S)[n] \in S /\ Rank(S, Ascending(S)[n]) = Rank(S, x)
    BY <1>2, RankProperties
  <2>2. \A y \in S, z \in S : y < z => Rank(S, y) < Rank(S, z)
    BY RankProperties
  <2>3. Ascending(S)[n] \in Int /\ x \in Int /\ Rank(S, x) \in Int
    BY <2>1
  <2>4. ~(Ascending(S)[n] < x) /\ ~(x < Ascending(S)[n])
    BY <2>1, <2>2, <2>3
  <2>. QED
    BY <2>1, <2>3, <2>4
<1>8. ToSet(Ascending(S)) = S
  BY <1>3, <1>7 DEF ToSet
<1>. QED
  BY <1>1, <1>2, <1>3, <1>4, <1>6, <1>8

\* Elements added above all the others come last.
LEMMA AscendingGrows ==
  ASSUME NEW S, NEW T, \A z \in T : z \in Int, IsFiniteSet(T), S \subseteq T,
         \A k \in T \ S, i \in S : i < k
  PROVE  /\ Cardinality(S) <= Cardinality(T)
         /\ \A n \in 1 .. Cardinality(S) : Ascending(T)[n] = Ascending(S)[n]
<1>1. IsFiniteSet(S) /\ Cardinality(S) <= Cardinality(T) /\ \A z \in S : z \in Int
  BY FS_Subset
<1>2. Cardinality(S) \in Nat /\ Cardinality(T) \in Nat
  BY <1>1, RankProperties
<1>3. \A x \in S : {y \in S : y <= x} = {y \in T : y <= x}
  OBVIOUS
<1>4. \A x \in S : Rank(S, x) = Rank(T, x)
  BY <1>3 DEF Rank
<1>5. ASSUME NEW n \in 1 .. Cardinality(S)
      PROVE  Ascending(T)[n] = Ascending(S)[n]
  <2>1. n \in 1 .. Cardinality(T)
    BY <1>1, <1>2
  <2>2. Ascending(S)[n] \in S /\ Rank(S, Ascending(S)[n]) = n
    BY <1>1, AscendingProperties
  <2>3. Ascending(T)[n] \in T /\ Rank(T, Ascending(T)[n]) = n
    BY <2>1, AscendingProperties
  <2>4. Ascending(S)[n] \in T /\ Rank(T, Ascending(S)[n]) = n
    BY <1>4, <2>2
  <2>5. \A x, y \in T : x < y => Rank(T, x) < Rank(T, y)
    BY RankProperties
  <2>6. ~(Ascending(S)[n] < Ascending(T)[n]) /\ ~(Ascending(T)[n] < Ascending(S)[n])
    BY <2>3, <2>4, <2>5
  <2>. QED
    BY <2>3, <2>4, <2>6
<1>. QED
  BY <1>1, <1>5

LEMMA MinOfTwo ==
  ASSUME NEW a \in Int, NEW b \in Int
  PROVE  Min({a, b}) = IF a <= b THEN a ELSE b
BY DEF Min

LEMMA MaxOfTwo ==
  ASSUME NEW a \in Int, NEW b \in Int
  PROVE  Max({a, b}) = IF a >= b THEN a ELSE b
BY DEF Max

-----------------------------------------------------------------------------
(* Dump, restore and backup *)

Key == 1 .. MaxKey

Algos == Algorithms \cup {""}

\* What a request is, step by step.
Reading ==
  [pc : {"read", "name", "done", "failed"}, use : {"dump", "transfer", "backup"}, offset : Nat,
   got : Seq(Key), algo : Algos, sealed : BOOLEAN, first : SUBSET Key,
   moved : BOOLEAN, put : Seq(Key), count : Nat, errors : BOOLEAN]

Restoring ==
  [pc : {"insert", "done"}, use : {"restore"}, format : {"json", "sql"}, todo : Seq(Key),
   got : Seq(Key), put : Seq(Key), count : Nat, errors : BOOLEAN]

Writing ==
  [pc : {"meta", "data"}, name : Nat \X (Algos), rows : Seq(Key),
   algo : Algos, sealed : BOOLEAN]

\* The count c is of rows that were put in, on MySQL of all of them.
Told(r, c, d) == c <= Len(r.put) /\ (d = "mysql" => c = Len(r.put))

Restores(r, d) ==
  /\ ~r.errors => r.got = r.put \o r.todo
  /\ r.pc = "done" => r.todo = <<>>
  /\ Told(r, r.count - DDL(r.format), d)

\* A transfer goes on as long as every page was put in.
Transfers(r, d) ==
  r.use = "transfer" =>
    /\ r.pc \in {"read", "done"} /\ (r.pc = "read" => ~r.errors)
    /\ ~r.errors => r.put = r.got
    /\ Told(r, r.count, d)

\* While the keys K only grow at the end, a dump of Postgres has the first of them;
\* one of MySQL that is not at its first page has a full page.
Reads(r, K, d) ==
  r.use # "transfer" /\ r.pc = "read" /\ ~r.moved =>
    /\ r.first \subseteq K
    /\ d = "postgres" => r.offset <= Cardinality(K) /\ r.got = SubSeq(Ascending(K), 1, r.offset)
    /\ d = "mysql" => (r.offset = 0 /\ r.got = <<>>) \/ Len(r.got) >= PageSize

HasRead(r, d) ==
  r.use # "transfer" /\ r.pc \in {"name", "done"} /\ ~r.moved
    /\ (d = "postgres" \/ Len(r.got) < PageSize) =>
      IsInjective(r.got) /\ r.first \subseteq ToSet(r.got)

JobOK(r, K, d) ==
  \/ r = NoJob \/ r = [pc |-> "failed"] \/ r \in Writing
  \/ r \in Restoring /\ Restores(r, d)
  \/ r \in Reading /\ Transfers(r, d) /\ Reads(r, K, d) /\ HasRead(r, d)

JobsOK ==
  /\ dbms \in {"mysql", "postgres"} /\ DOMAIN table \subseteq Key
  /\ DOMAIN job = Jobs /\ \A j \in Jobs : JobOK(job[j], DOMAIN table, dbms)
  /\ \A n \in DOMAIN files : files[n].rows \in Seq(Key)

\* A name that only one backup has is in nobody's way: there is no data of that
\* name while it is written, and the metadata are the writer's own.
Writes(j) == job[j].pc \in {"meta", "data"}

OneWriter ==
  /\ second \in Nat
  /\ DOMAIN metas \cup DOMAIN files \subseteq given
  /\ \A j \in Jobs : Writes(j) => job[j].name \in given
  /\ \A i, j \in Jobs : Writes(i) /\ Writes(j) /\ job[i].name = job[j].name =>
       i = j \/ job[i].name \in twice
  /\ \A j \in Jobs : Writes(j) /\ job[j].name \notin twice =>
       /\ job[j].name \notin DOMAIN files
       /\ job[j].pc = "data" /\ job[j].name \in DOMAIN metas =>
            metas[job[j].name] = [rows |-> job[j].rows, sealed |-> job[j].sealed]

DataIInv == JobsOK /\ OneWriter /\ MetaDescribesBackup

LEMMA KeysFinite ==
  ASSUME NEW K, K \subseteq Key
  PROVE  /\ IsFiniteSet(K) /\ \A z \in K : z \in Int
         /\ Cardinality(K) \in Nat
<1>1. MaxKey \in Nat
  BY DataAssumption
<1>2. MaxKey \in Int
  BY <1>1
<1>3. IsFiniteSet(Key)
  BY <1>2, FS_Interval DEF Key
<1>4. IsFiniteSet(K)
  BY <1>3, FS_Subset
<1>5. \A z \in K : z \in Int
  BY DEF Key
<1>. QED
  BY <1>4, <1>5, FS_CardinalityType

\* A page of Postgres is the part of the sorted keys that it is asked for.
LEMMA PostgresPage ==
  ASSUME NEW K, K \subseteq Key, NEW offset \in Nat, NEW rows \in PostgresSelectAll(K, offset)
  PROVE  /\ rows \in Seq(Key)
         /\ offset <= Cardinality(K) =>
              /\ SubSeq(Ascending(K), 1, offset) \o rows =
                   SubSeq(Ascending(K), 1,
                          IF Len(rows) = PageSize THEN offset + PageSize ELSE Cardinality(K))
              /\ Len(rows) = PageSize => offset + PageSize <= Cardinality(K)
<1>. DEFINE c == Cardinality(K)
            s == Ascending(K)
            e == IF offset + PageSize <= c THEN offset + PageSize ELSE c
<1>1. c \in Nat /\ s \in [1 .. c -> K] /\ s \in Seq(K) /\ Len(s) = c
  BY KeysFinite, AscendingProperties
<1>2. PageSize \in Nat /\ PageSize # 0
  BY DataAssumption
<1>3. e \in Nat /\ rows = SubSeq(s, offset + 1, e)
  <2>1. offset + PageSize \in Int /\ c \in Int
    BY <1>1, <1>2
  <2>2. Min({offset + PageSize, c}) = e
    BY <2>1, MinOfTwo
  <2>3. e \in Nat
    BY <1>1, <1>2
  <2>. QED
    BY <2>2, <2>3 DEF PostgresSelectAll
<1>4. \A i \in offset + 1 .. e : s[i] \in K
  BY <1>1, <1>2
<1>5. rows \in Seq(K) /\ Len(rows) = IF offset + 1 <= e THEN e - offset ELSE 0
  <2>1. offset + 1 \in Int /\ e \in Int
    BY <1>3
  <2>. QED
    BY <1>3, <1>4, <2>1, SubSeqProperties
<1>6. rows \in Seq(Key)
  BY <1>5, SeqMonotonic
<1>7. ASSUME offset <= c
      PROVE  /\ SubSeq(s, 1, offset) \o rows = SubSeq(s, 1, e)
             /\ e = IF Len(rows) = PageSize THEN offset + PageSize ELSE c
             /\ Len(rows) = PageSize => offset + PageSize <= c
  <2>1. 1 \in 1 .. Len(s) + 1 /\ offset \in 1 - 1 .. Len(s) /\ e \in offset .. Len(s)
    BY <1>1, <1>2, <1>7
  <2>2. SubSeq(s, 1, offset) \o SubSeq(s, offset + 1, e) = SubSeq(s, 1, e)
    BY <1>1, <2>1, ConcatAdjacentSubSeq
  <2>. QED
    BY <1>1, <1>2, <1>3, <1>5, <1>7, <2>2
<1>. QED
  BY <1>6, <1>7

\* A page of MySQL has distinct rows, all of them if it is the first and not full.
LEMMA MySQLPage ==
  ASSUME NEW K, K \subseteq Key, NEW offset \in Nat, NEW rows \in MySQLSelectAll(K, offset)
  PROVE  /\ rows \in Seq(Key) /\ IsInjective(rows)
         /\ offset = 0 /\ Len(rows) < PageSize => ToSet(rows) = K
<1>. DEFINE c == Cardinality(K)
            m == Max({0, c - offset})
<1>1. c \in Nat /\ IsFiniteSet(K)
  BY KeysFinite
<1>2. PageSize \in Nat /\ PageSize # 0
  BY DataAssumption
<1>3. m \in Nat /\ (offset = 0 => m = c)
  <2>1. 0 \in Int /\ c - offset \in Int
    BY <1>1
  <2>2. m = IF 0 >= c - offset THEN 0 ELSE c - offset
    BY <2>1, MaxOfTwo
  <2>. QED
    BY <1>1, <2>2
<1>4. Min({PageSize, m}) = IF PageSize <= m THEN PageSize ELSE m
  BY <1>2, <1>3, MinOfTwo
<1>5. PICK P \in kSubset(Min({PageSize, m}), K) : rows = Ascending(P)
  BY DEF MySQLSelectAll
<1>6. P \subseteq K /\ Cardinality(P) = Min({PageSize, m})
  BY <1>5 DEF kSubset
<1>7. IsFiniteSet(P) /\ (\A z \in P : z \in Int)
  BY <1>6, KeysFinite
<1>8. rows \in Seq(P) /\ Len(rows) = Cardinality(P) /\ IsInjective(rows) /\ ToSet(rows) = P
  BY <1>5, <1>7, AscendingProperties
<1>9. rows \in Seq(Key)
  BY <1>6, <1>8, SeqMonotonic
<1>10. ASSUME offset = 0, Len(rows) < PageSize
       PROVE  P = K
  <2>1. Cardinality(P) = Cardinality(K)
    BY <1>2, <1>3, <1>4, <1>6, <1>8, <1>10
  <2>. QED
    BY <1>1, <1>6, <2>1, FS_Subset
<1>. QED
  BY <1>8, <1>9, <1>10

\* A batch that is not refused is put in; on MySQL one that is leaves nothing.
LEMMA InsertedRows ==
  ASSUME dbms \in {"mysql", "postgres"}, NEW tab, NEW rows \in Seq(Key)
  PROVE  /\ Inserted(tab, rows) \in Seq(Key)
         /\ InsertOK(tab, rows) => Inserted(tab, rows) = rows
         /\ ~InsertOK(tab, rows) /\ dbms = "mysql" => Inserted(tab, rows) = <<>>
<1>. DEFINE before == {i \in DOMAIN rows : \A h \in Refused(tab, rows) : i < h}
            c == Cardinality(before)
<1>1. Len(rows) \in Nat /\ DOMAIN rows = 1 .. Len(rows) /\ rows \in [1 .. Len(rows) -> Key]
  BY LenProperties
<1>2. IsFiniteSet(DOMAIN rows) /\ Cardinality(DOMAIN rows) = Len(rows)
  BY <1>1, FS_Interval
<1>3. c \in Nat /\ c <= Len(rows)
  <2>1. before \in SUBSET DOMAIN rows
    OBVIOUS
  <2>2. IsFiniteSet(before) /\ c <= Len(rows)
    BY <1>2, <2>1, FS_Subset
  <2>. QED
    BY <2>2, FS_CardinalityType
<1>4. SubSeq(rows, 1, c) \in Seq(Key)
  <2>. HIDE DEF c
  <2>1. c \in Int /\ \A i \in 1 .. c : i \in 1 .. Len(rows)
    BY <1>1, <1>3
  <2>2. \A i \in 1 .. c : rows[i] \in Key
    BY <1>1, <2>1
  <2>. QED
    BY <2>1, <2>2, SubSeqProperties
<1>5. InsertOK(tab, rows) => SubSeq(rows, 1, c) = rows
  <2>1. InsertOK(tab, rows) => before = DOMAIN rows
    BY DEF InsertOK
  <2>. QED
    BY <1>2, <2>1, SubSeqFull
<1>6. <<>> \in Seq(Key)
  BY EmptySeq
<1>. QED
  BY <1>4, <1>5, <1>6 DEF Inserted, MySQLInsertBatch, PostgresInsertBatch, Accepted, InsertOK

LEMMA IsReading ==
  ASSUME NEW r, NEW K, NEW d, JobOK(r, K, d), r.pc = "read"
  PROVE  r \in Reading /\ Transfers(r, d) /\ Reads(r, K, d)
<1>1. r # NoJob /\ r # [pc |-> "failed"]
  BY DEF NoJob
<1>2. r \notin Writing
  BY DEF Writing
<1>3. r \notin Restoring
  BY DEF Restoring
<1>. QED
  BY <1>1, <1>2, <1>3 DEF JobOK

\* What the keys becoming K2 makes of the request r.
OnceKeysAre(r, K, K2) ==
  IF r.pc = "read" /\ ~(K \subseteq K2 /\ \A k \in K2 \ K, i \in K : i < k)
  THEN [r EXCEPT !.moved = TRUE] ELSE r

\* The keys become K2: what a request that reads knows of them is kept if they
\* only grow at the end, else nothing is said of it any more.
LEMMA ShiftKeeps ==
  ASSUME NEW r, NEW K, NEW K2, K \subseteq Key, K2 \subseteq Key, NEW d, JobOK(r, K, d)
  PROVE  JobOK(OnceKeysAre(r, K, K2), K2, d)
<1>1. CASE r.pc # "read"
  <2>1. Reads(r, K2, d)
    BY <1>1 DEF Reads
  <2>. QED
    BY <1>1, <2>1 DEF JobOK, OnceKeysAre
<1>2. CASE r.pc = "read" /\ ~(K \subseteq K2 /\ \A k \in K2 \ K, i \in K : i < k)
  <2>. DEFINE q == [r EXCEPT !.moved = TRUE]
  <2>1. r \in Reading /\ Transfers(r, d)
    BY <1>2, IsReading
  <2>2. q \in Reading /\ q.moved /\ q.pc = "read"
    BY <1>2, <2>1 DEF Reading
  <2>3. q.use = r.use /\ q.errors = r.errors /\ q.put = r.put /\ q.got = r.got /\ q.count = r.count
    BY <2>1 DEF Reading
  <2>4. Transfers(q, d)
    BY <1>2, <2>1, <2>2, <2>3 DEF Transfers, Told
  <2>5. Reads(q, K2, d) /\ HasRead(q, d)
    BY <2>2 DEF Reads, HasRead
  <2>. QED
    BY <1>2, <2>2, <2>4, <2>5 DEF JobOK, OnceKeysAre
<1>3. CASE r.pc = "read" /\ K \subseteq K2 /\ \A k \in K2 \ K, i \in K : i < k
  <2>1. r \in Reading /\ Transfers(r, d) /\ Reads(r, K, d) /\ HasRead(r, d)
    BY <1>3, IsReading DEF HasRead
  <2>2. /\ IsFiniteSet(K2) /\ (\A z \in K2 : z \in Int)
        /\ Cardinality(K) \in Nat /\ Cardinality(K2) \in Nat
    BY KeysFinite
  <2>3. /\ Cardinality(K) <= Cardinality(K2)
        /\ \A n \in 1 .. Cardinality(K) : Ascending(K2)[n] = Ascending(K)[n]
    BY <1>3, <2>2, AscendingGrows
  <2>4. ASSUME NEW n \in Nat, n <= Cardinality(K)
        PROVE  SubSeq(Ascending(K2), 1, n) = SubSeq(Ascending(K), 1, n)
    <3>1. /\ Ascending(K) \in [1 .. Cardinality(K) -> K]
          /\ Ascending(K2) \in [1 .. Cardinality(K2) -> K2]
      BY KeysFinite, AscendingProperties
    <3>2. \A i \in 1 .. n : i \in 1 .. Cardinality(K) /\ i \in 1 .. Cardinality(K2)
      BY <2>2, <2>3, <2>4
    <3>3. 1 \in Int /\ n \in Int /\ \A i \in 1 .. n : Ascending(K)[i] \in K2 /\ Ascending(K2)[i] \in K2
      BY <1>3, <3>1, <3>2
    <3>4. /\ SubSeq(Ascending(K), 1, n) \in Seq(K2)
          /\ Len(SubSeq(Ascending(K), 1, n)) = n
          /\ \A i \in 1 .. n : SubSeq(Ascending(K), 1, n)[i] = Ascending(K)[i]
      <4>1. /\ SubSeq(Ascending(K), 1, n) \in Seq(K2)
            /\ Len(SubSeq(Ascending(K), 1, n)) = IF 1 <= n THEN n - 1 + 1 ELSE 0
            /\ \A i \in 1 .. n - 1 + 1 : SubSeq(Ascending(K), 1, n)[i] = Ascending(K)[1 + i - 1]
        BY <3>3, SubSeqProperties
      <4>. QED
        BY <4>1
    <3>5. /\ SubSeq(Ascending(K2), 1, n) \in Seq(K2)
          /\ Len(SubSeq(Ascending(K2), 1, n)) = n
          /\ \A i \in 1 .. n : SubSeq(Ascending(K2), 1, n)[i] = Ascending(K2)[i]
      <4>1. /\ SubSeq(Ascending(K2), 1, n) \in Seq(K2)
            /\ Len(SubSeq(Ascending(K2), 1, n)) = IF 1 <= n THEN n - 1 + 1 ELSE 0
            /\ \A i \in 1 .. n - 1 + 1 : SubSeq(Ascending(K2), 1, n)[i] = Ascending(K2)[1 + i - 1]
        BY <3>3, SubSeqProperties
      <4>. QED
        BY <4>1
    <3>6. \A i \in 1 .. n : SubSeq(Ascending(K2), 1, n)[i] = SubSeq(Ascending(K), 1, n)[i]
      BY <2>3, <3>2, <3>4, <3>5
    <3>. QED
      BY <3>4, <3>5, <3>6, SeqEqual
  <2>5. r.offset \in Nat
    BY <2>1 DEF Reading
  <2>6. r.offset <= Cardinality(K) =>
          /\ r.offset <= Cardinality(K2)
          /\ SubSeq(Ascending(K2), 1, r.offset) = SubSeq(Ascending(K), 1, r.offset)
    BY <2>2, <2>3, <2>4, <2>5
  <2>7. Reads(r, K2, d)
    BY <1>3, <2>1, <2>6 DEF Reads
  <2>. QED
    BY <1>3, <2>1, <2>7 DEF JobOK, OnceKeysAre
<1>. QED
  BY <1>1, <1>2, <1>3

\* A new request that reads.
LEMMA StartKeeps ==
  ASSUME NEW K, K \subseteq Key, NEW d, NEW use \in {"dump", "transfer", "backup"},
         NEW algo \in Algos, NEW sealed
  PROVE  sealed \in BOOLEAN =>
         JobOK([pc |-> "read", use |-> use, offset |-> 0, got |-> <<>>, algo |-> algo,
                sealed |-> sealed, first |-> K, moved |-> FALSE, put |-> <<>>, count |-> 0,
                errors |-> FALSE], K, d)
<1>. DEFINE r == [pc |-> "read", use |-> use, offset |-> 0, got |-> <<>>, algo |-> algo,
                  sealed |-> sealed, first |-> K, moved |-> FALSE, put |-> <<>>, count |-> 0,
                  errors |-> FALSE]
<1>1. <<>> \in Seq(Key) /\ Len(<<>>) = 0
  BY EmptySeq
<1>2. sealed \in BOOLEAN => r \in Reading
  BY <1>1 DEF Reading
<1>3. /\ r.pc = "read" /\ r.got = <<>> /\ r.put = <<>> /\ r.first = K
      /\ r.offset = 0 /\ r.count = 0 /\ r.errors = FALSE
  OBVIOUS
<1>. HIDE DEF r
<1>4. Transfers(r, d)
  BY <1>1, <1>3 DEF Transfers, Told
<1>5. SubSeq(Ascending(K), 1, 0) = <<>>
  <2>1. 1 \in Int /\ 0 \in Int /\ 0 < 1
    OBVIOUS
  <2>. QED
    BY <2>1, SubSeqEmpty
<1>6. Cardinality(K) \in Nat
  BY KeysFinite
<1>7. Reads(r, K, d) /\ HasRead(r, d)
  BY <1>5, <1>6, <1>3 DEF Reads, HasRead
<1>8. sealed \in BOOLEAN => JobOK(r, K, d)
  BY <1>2, <1>4, <1>7 DEF JobOK
<1>. QED
  BY <1>8 DEF r

\* A page of a dump.
LEMMA DumpPageKeeps ==
  ASSUME NEW r \in Reading, NEW K, K \subseteq Key, dbms \in {"mysql", "postgres"},
         Reads(r, K, dbms), r.pc = "read", r.use # "transfer",
         NEW rows \in SelectAll(K, r.offset), NEW pc \in {"read", "name", "done", "failed"},
         pc = "read" <=> Len(rows) = PageSize
  PROVE  JobOK([r EXCEPT !.got = @ \o rows, !.offset = @ + PageSize, !.pc = pc], K, dbms)
<1>. DEFINE q == [r EXCEPT !.got = @ \o rows, !.offset = @ + PageSize, !.pc = pc]
            c == Cardinality(K)
<1>1. PageSize \in Nat /\ PageSize # 0
  BY DataAssumption
<1>2. r.offset \in Nat /\ r.got \in Seq(Key) /\ r.first \in SUBSET Key
  BY DEF Reading
<1>3. CASE dbms = "postgres"
  <2>1. rows \in PostgresSelectAll(K, r.offset)
    BY <1>3 DEF SelectAll
  <2>2. rows \in Seq(Key)
    BY <1>2, <2>1, PostgresPage
  <2>3. /\ q \in Reading /\ q.use # "transfer" /\ q.pc = pc /\ q.moved = r.moved
        /\ q.got = r.got \o rows /\ q.offset = r.offset + PageSize /\ q.first = r.first
    <3>1. r.got \o rows \in Seq(Key) /\ r.offset + PageSize \in Nat
      BY <1>1, <1>2, <2>2, ConcatProperties
    <3>. QED
      BY <3>1 DEF Reading
  <2>4. Transfers(q, dbms)
    BY <2>3 DEF Transfers
  <2>5. ASSUME ~r.moved
        PROVE  /\ r.first \subseteq K
               /\ q.got = SubSeq(Ascending(K), 1, IF pc = "read" THEN r.offset + PageSize ELSE c)
               /\ pc = "read" => r.offset + PageSize <= c
    <3>1. /\ r.first \subseteq K /\ r.offset <= c
          /\ r.got = SubSeq(Ascending(K), 1, r.offset)
      BY <1>3, <2>5 DEF Reads
    <3>2. /\ SubSeq(Ascending(K), 1, r.offset) \o rows =
               SubSeq(Ascending(K), 1, IF Len(rows) = PageSize THEN r.offset + PageSize ELSE c)
          /\ Len(rows) = PageSize => r.offset + PageSize <= c
      BY <1>2, <2>1, <3>1, PostgresPage
    <3>. QED
      BY <2>3, <3>1, <3>2
  <2>6. SubSeq(Ascending(K), 1, c) = Ascending(K) /\ IsInjective(Ascending(K)) /\ ToSet(Ascending(K)) = K
    <3>1. /\ Ascending(K) \in Seq(K) /\ Len(Ascending(K)) = c
          /\ IsInjective(Ascending(K)) /\ ToSet(Ascending(K)) = K
      BY KeysFinite, AscendingProperties
    <3>. QED
      BY <3>1, SubSeqFull
  <2>7. Reads(q, K, dbms)
    BY <1>3, <2>3, <2>5 DEF Reads
  <2>8. HasRead(q, dbms)
    BY <2>3, <2>5, <2>6 DEF HasRead
  <2>. QED
    BY <2>3, <2>4, <2>7, <2>8 DEF JobOK
<1>4. CASE dbms = "mysql"
  <2>1. rows \in MySQLSelectAll(K, r.offset)
    BY <1>4 DEF SelectAll
  <2>2. /\ rows \in Seq(Key) /\ IsInjective(rows)
        /\ r.offset = 0 /\ Len(rows) < PageSize => ToSet(rows) = K
    BY <1>2, <2>1, MySQLPage
  <2>3. /\ q \in Reading /\ q.use # "transfer" /\ q.pc = pc /\ q.moved = r.moved
        /\ q.got = r.got \o rows /\ q.offset = r.offset + PageSize /\ q.first = r.first
    <3>1. r.got \o rows \in Seq(Key) /\ r.offset + PageSize \in Nat
      BY <1>1, <1>2, <2>2, ConcatProperties
    <3>. QED
      BY <3>1 DEF Reading
  <2>4. Transfers(q, dbms)
    BY <2>3 DEF Transfers
  <2>5. Len(q.got) = Len(r.got) + Len(rows) /\ Len(r.got) \in Nat /\ Len(rows) \in Nat
    BY <1>2, <2>2, <2>3, ConcatProperties, LenProperties
  <2>6. r.got = <<>> => q.got = rows
    BY <2>2, <2>3, ConcatEmptySeq
  <2>7. ~r.moved => r.first \subseteq K /\ ((r.offset = 0 /\ r.got = <<>>) \/ Len(r.got) >= PageSize)
    BY <1>4 DEF Reads
  <2>8. pc = "read" => Len(q.got) >= PageSize
    BY <1>1, <2>5
  <2>9. Reads(q, K, dbms)
    BY <1>4, <2>3, <2>7, <2>8 DEF Reads
  <2>10. ~r.moved /\ Len(q.got) < PageSize => r.first \subseteq K /\ q.got = rows /\ ToSet(rows) = K
    <3>1. Len(q.got) < PageSize => ~(Len(r.got) >= PageSize) /\ Len(rows) < PageSize
      BY <1>1, <2>5
    <3>. QED
      BY <2>2, <2>6, <2>7, <3>1
  <2>11. HasRead(q, dbms)
    BY <1>4, <2>2, <2>3, <2>10 DEF HasRead
  <2>. QED
    BY <2>3, <2>4, <2>9, <2>11 DEF JobOK
<1>. QED
  BY <1>3, <1>4

LEMMA ReadingExcept ==
  ASSUME NEW r \in Reading, NEW got \in Seq(Key), NEW offset \in Nat, NEW put \in Seq(Key),
         NEW e, NEW count \in Nat, NEW pc \in {"read", "done"}
  PROVE  e \in BOOLEAN =>
           [r EXCEPT !.got = got, !.offset = offset, !.put = put, !.errors = e,
              !.count = count, !.pc = pc] \in Reading
BY DEF Reading

LEMMA RestoringExcept ==
  ASSUME NEW r \in Restoring, NEW todo \in Seq(Key), NEW put \in Seq(Key),
         NEW e, NEW count \in Nat, NEW pc \in {"insert", "done"}
  PROVE  e \in BOOLEAN =>
           [r EXCEPT !.todo = todo, !.put = put, !.errors = e, !.count = count, !.pc = pc]
             \in Restoring
BY DEF Restoring

\* A page of a transfer.
LEMMA TransferPageKeeps ==
  ASSUME NEW r \in Reading, NEW K, K \subseteq Key, dbms \in {"mysql", "postgres"},
         Transfers(r, dbms), r.pc = "read", r.use = "transfer",
         NEW rows \in SelectAll(K, r.offset), NEW tab
  PROVE  JobOK([r EXCEPT !.got = @ \o rows, !.offset = @ + PageSize,
                  !.put = @ \o Inserted(tab, rows), !.errors = ~InsertOK(tab, rows),
                  !.count = IF InsertOK(tab, rows) THEN @ + Len(rows) ELSE @,
                  !.pc = IF InsertOK(tab, rows) /\ Len(rows) = PageSize THEN "read" ELSE "done"],
               K, dbms)
<1>. DEFINE put == Inserted(tab, rows)
            ok == InsertOK(tab, rows)
            q == [r EXCEPT !.got = @ \o rows, !.offset = @ + PageSize, !.put = @ \o put,
                    !.errors = ~ok, !.count = IF ok THEN @ + Len(rows) ELSE @,
                    !.pc = IF ok /\ Len(rows) = PageSize THEN "read" ELSE "done"]
<1>1. PageSize \in Nat
  BY DataAssumption
<1>2. /\ r.offset \in Nat /\ r.count \in Nat /\ r.got \in Seq(Key) /\ r.put \in Seq(Key)
      /\ r.put = r.got /\ r.count <= Len(r.put) /\ (dbms = "mysql" => r.count = Len(r.put))
  BY DEF Reading, Transfers, Told
<1>3. rows \in Seq(Key)
  BY <1>2, PostgresPage, MySQLPage DEF SelectAll
<1>4. /\ put \in Seq(Key) /\ ok \in BOOLEAN
      /\ (ok => put = rows) /\ (~ok /\ dbms = "mysql" => put = <<>>)
  BY <1>3, InsertedRows DEF InsertOK
<1>. HIDE DEF put, ok
<1>5. /\ Len(r.put) \in Nat /\ Len(put) \in Nat /\ Len(rows) \in Nat
      /\ r.put \o put \in Seq(Key) /\ Len(r.put \o put) = Len(r.put) + Len(put)
      /\ r.got \o rows \in Seq(Key)
  BY <1>2, <1>3, <1>4, LenProperties, ConcatProperties
<1>6. /\ q.use = "transfer" /\ q.got = r.got \o rows /\ q.put = r.put \o put
      /\ q.pc \in {"read", "done"}
  BY DEF Reading
<1>7. q \in Reading
  <2>. DEFINE got == r.got \o rows
              offset == r.offset + PageSize
              all == r.put \o put
              e == ~ok
              count == IF ok THEN r.count + Len(rows) ELSE r.count
              pc == IF ok /\ Len(rows) = PageSize THEN "read" ELSE "done"
  <2>1. got \in Seq(Key) /\ offset \in Nat /\ all \in Seq(Key) /\ count \in Nat
    BY <1>1, <1>2, <1>5
  <2>2. pc \in {"read", "done"}
    OBVIOUS
  <2>3. e \in BOOLEAN
    BY Zenon
  <2>4. q = [r EXCEPT !.got = got, !.offset = offset, !.put = all, !.errors = e,
              !.count = count, !.pc = pc]
    BY Zenon
  <2>. HIDE DEF got, offset, all, e, count, pc, q
  <2>. QED
    BY <2>1, <2>2, <2>3, <2>4, ReadingExcept
<1>8. CASE ok
  <2>1. /\ q.errors = FALSE /\ q.count = r.count + Len(rows)
    BY <1>8 DEF Reading
  <2>2. Transfers(q, dbms)
    BY <1>2, <1>4, <1>5, <1>6, <1>8, <2>1 DEF Transfers, Told
  <2>. QED
    BY <1>6, <1>7, <2>2 DEF JobOK, Reads, HasRead, put, ok
<1>9. CASE ~ok
  <2>1. /\ q.errors = TRUE /\ q.count = r.count /\ q.pc = "done"
    BY <1>9 DEF Reading
  <2>2. dbms = "mysql" => Len(put) = 0
    BY <1>4, <1>9, EmptySeq
  <2>3. Transfers(q, dbms)
    BY <1>2, <1>5, <1>6, <2>1, <2>2 DEF Transfers, Told
  <2>. QED
    BY <1>6, <1>7, <2>3 DEF JobOK, Reads, HasRead, put, ok
<1>. QED
  BY <1>8, <1>9

\* A new restore.
LEMMA RestoreStarts ==
  ASSUME NEW K, NEW d, NEW format \in {"json", "sql"}, NEW rows \in Seq(Key)
  PROVE  JobOK([pc |-> "insert", use |-> "restore", format |-> format, todo |-> rows,
                got |-> rows, put |-> <<>>, count |-> DDL(format), errors |-> FALSE], K, d)
<1>. DEFINE r == [pc |-> "insert", use |-> "restore", format |-> format, todo |-> rows,
                  got |-> rows, put |-> <<>>, count |-> DDL(format), errors |-> FALSE]
<1>1. <<>> \in Seq(Key) /\ Len(<<>>) = 0 /\ <<>> \o rows = rows
  BY EmptySeq, ConcatEmptySeq
<1>2. DDL(format) \in Nat
  BY DEF DDL
<1>3. r \in Restoring
  BY <1>1, <1>2 DEF Restoring
<1>4. /\ r.pc = "insert" /\ r.got = rows /\ r.put = <<>> /\ r.todo = rows
      /\ r.count = DDL(r.format) /\ r.count - DDL(r.format) = 0
  BY <1>2
<1>. HIDE DEF r
<1>5. Restores(r, d)
  BY <1>1, <1>4 DEF Restores, Told
<1>6. JobOK(r, K, d)
  BY <1>3, <1>5 DEF JobOK
<1>. QED
  BY <1>6 DEF r

\* A batch is taken from the front of what is left to do.
LEMMA Batch ==
  ASSUME NEW s \in Seq(Key), NEW size \in Nat
  PROVE  LET rows == SubSeq(s, 1, Min({size, Len(s)}))
             todo == SubSeq(s, Len(rows) + 1, Len(s))
         IN /\ rows \in Seq(Key) /\ todo \in Seq(Key) /\ rows \o todo = s
            /\ Len(s) <= size => todo = <<>>
<1>. DEFINE n == IF size <= Len(s) THEN size ELSE Len(s)
            rows == SubSeq(s, 1, n)
            todo == SubSeq(s, n + 1, Len(s))
<1>1. Len(s) \in Nat
  BY LenProperties
<1>2. \A i \in 1 .. Len(s) : s[i] \in Key
  BY LenProperties
<1>3. Min({size, Len(s)}) = n
  BY <1>1, MinOfTwo
<1>4. n \in Nat /\ n <= Len(s) /\ (Len(s) <= size => n = Len(s))
  BY <1>1
<1>. HIDE DEF n
<1>5. rows \in Seq(Key) /\ Len(rows) = n
  <2>1. 1 \in Int /\ n \in Int /\ \A i \in 1 .. n : i \in 1 .. Len(s)
    BY <1>1, <1>4
  <2>2. 1 \in Int /\ n \in Int /\ \A i \in 1 .. n : s[i] \in Key
    BY <1>2, <2>1
  <2>3. rows \in Seq(Key) /\ Len(rows) = IF 1 <= n THEN n - 1 + 1 ELSE 0
    BY <2>2, SubSeqProperties
  <2>. QED
    BY <1>4, <2>3
<1>6. todo \in Seq(Key)
  <2>1. n + 1 \in Int /\ Len(s) \in Int /\ \A i \in n + 1 .. Len(s) : i \in 1 .. Len(s)
    BY <1>1, <1>4
  <2>2. n + 1 \in Int /\ Len(s) \in Int /\ \A i \in n + 1 .. Len(s) : s[i] \in Key
    BY <1>2, <2>1
  <2>. QED
    BY <2>2, SubSeqProperties
<1>7. rows \o todo = s
  <2>1. 1 \in 1 .. Len(s) + 1 /\ n \in 1 - 1 .. Len(s) /\ Len(s) \in n .. Len(s)
    BY <1>1, <1>4
  <2>2. SubSeq(s, 1, n) \o SubSeq(s, n + 1, Len(s)) = SubSeq(s, 1, Len(s))
    BY <2>1, ConcatAdjacentSubSeq
  <2>. QED
    BY <2>2, SubSeqFull
<1>8. Len(s) <= size => todo = <<>>
  <2>1. Len(s) <= size => Len(s) \in Int /\ n + 1 \in Int /\ Len(s) < n + 1
    BY <1>1, <1>4
  <2>. QED
    BY <2>1, SubSeqEmpty
<1>. QED
  BY <1>3, <1>5, <1>6, <1>7, <1>8

\* The restore r after a batch of which put went in.
AfterBatch(r, size, rows, todo, put, ok) ==
  [r EXCEPT !.todo = todo, !.put = @ \o put, !.errors = @ \/ ~ok,
     !.count = IF ok THEN @ + Len(rows) ELSE @,
     !.pc = IF Len(r.todo) <= size THEN "done" ELSE "insert"]

LEMMA RestoreBatchKeeps ==
  ASSUME NEW r \in Restoring, NEW K, NEW d, Restores(r, d), r.pc = "insert", NEW size \in Nat,
         NEW rows \in Seq(Key), NEW todo \in Seq(Key), NEW put \in Seq(Key), NEW ok
  PROVE  /\ rows \o todo = r.todo /\ (Len(r.todo) <= size => todo = <<>>)
         /\ (ok => put = rows) /\ (~ok /\ d = "mysql" => put = <<>>)
         => JobOK(AfterBatch(r, size, rows, todo, put, ok), K, d)
<1>. DEFINE q == [r EXCEPT !.todo = todo, !.put = @ \o put,
                     !.errors = @ \/ ~ok, !.count = IF ok THEN @ + Len(rows) ELSE @,
                     !.pc = IF Len(r.todo) <= size THEN "done" ELSE "insert"]
<1>1. r.todo \in Seq(Key) /\ r.got \in Seq(Key) /\ r.put \in Seq(Key) /\ r.count \in Nat
  BY DEF Restoring
<1>2. r.format \in {"json", "sql"} /\ r.errors \in BOOLEAN
  BY DEF Restoring
<1>3. /\ Len(r.todo) \in Nat /\ Len(r.put) \in Nat /\ Len(put) \in Nat /\ Len(rows) \in Nat
  BY <1>1, LenProperties
<1>4. r.put \o put \in Seq(Key) /\ Len(r.put \o put) = Len(r.put) + Len(put)
  BY <1>1, ConcatProperties
<1>5. /\ q.got = r.got /\ q.put = r.put \o put /\ q.todo = todo /\ q.format = r.format
      /\ q.pc = IF Len(r.todo) <= size THEN "done" ELSE "insert"
  BY DEF Restoring
<1>6. q \in Restoring
  <2>. DEFINE all == r.put \o put
              e == r.errors \/ ~ok
              count == IF ok THEN r.count + Len(rows) ELSE r.count
              pc == IF Len(r.todo) <= size THEN "done" ELSE "insert"
  <2>1. all \in Seq(Key)
    BY <1>4
  <2>2. count \in Nat
    BY <1>1, <1>3
  <2>3. pc \in {"insert", "done"}
    OBVIOUS
  <2>4. e \in BOOLEAN
    BY Zenon
  <2>5. q = [r EXCEPT !.todo = todo, !.put = all, !.errors = e, !.count = count, !.pc = pc]
    BY Zenon
  <2>. HIDE DEF all, e, count, pc, q
  <2>. QED
    BY <2>1, <2>3, <2>4, <2>5, <2>2, RestoringExcept
<1>7. ~r.errors => r.got = r.put \o r.todo
  BY DEF Restores
<1>8. /\ DDL(r.format) \in Nat
      /\ r.count - DDL(r.format) <= Len(r.put)
      /\ d = "mysql" => r.count - DDL(r.format) = Len(r.put)
  BY DEF Restores, Told, DDL
<1>9. ASSUME NEW x \in Seq(Key) PROVE (x \o rows) \o todo = x \o (rows \o todo)
  BY ConcatAssociative
<1>10. (r.put \o rows) \o todo = r.put \o (rows \o todo)
  BY <1>1, <1>9
<1>11. /\ (r.count + Len(rows)) - DDL(r.format) <= Len(r.put) + Len(rows)
       /\ d = "mysql" => (r.count + Len(rows)) - DDL(r.format) = Len(r.put) + Len(rows)
       /\ r.count - DDL(r.format) <= Len(r.put) + Len(put)
       /\ d = "mysql" /\ Len(put) = 0 => r.count - DDL(r.format) = Len(r.put) + Len(put)
  <2>. DEFINE ddl == DDL(r.format)
              c == r.count
              p == Len(r.put)
              x == Len(rows)
              y == Len(put)
  <2>1. c \in Nat /\ p \in Nat /\ x \in Nat /\ y \in Nat
    BY <1>1, <1>3
  <2>2. ddl \in Nat /\ c - ddl <= p /\ (d = "mysql" => c - ddl = p)
    BY <1>8
  <2>. HIDE DEF ddl, c, p, x, y
  <2>3. /\ (c + x) - ddl <= p + x /\ (d = "mysql" => (c + x) - ddl = p + x)
        /\ c - ddl <= p + y /\ (d = "mysql" /\ y = 0 => c - ddl = p + y)
    BY <2>1, <2>2
  <2>. QED
    BY <2>3 DEF ddl, c, p, x, y
<1>12. ASSUME ok, put = rows, rows \o todo = r.todo, Len(r.todo) <= size => todo = <<>>
       PROVE  JobOK(q, K, d)
  <2>1. q.count = r.count + Len(rows) /\ q.errors = r.errors
    BY <1>12, <1>2 DEF Restoring
  <2>. HIDE DEF q
  <2>2. ~q.errors => q.got = q.put \o q.todo
    BY <1>5, <1>7, <1>12, <1>10, <2>1
  <2>3. Told(q, q.count - DDL(q.format), d)
    BY <1>4, <1>5, <1>12, <1>11, <2>1 DEF Told
  <2>4. Restores(q, d)
    BY <1>5, <1>12, <2>2, <2>3 DEF Restores
  <2>. QED
    BY <1>6, <2>4 DEF JobOK
<1>13. ASSUME ~ok, d = "mysql" => put = <<>>, Len(r.todo) <= size => todo = <<>>
       PROVE  JobOK(q, K, d)
  <2>1. q.count = r.count /\ q.errors
    BY <1>13, <1>2 DEF Restoring
  <2>. HIDE DEF q
  <2>2. d = "mysql" => Len(put) = 0
    BY <1>13, EmptySeq
  <2>3. Told(q, q.count - DDL(q.format), d)
    BY <1>4, <1>5, <1>11, <2>1, <2>2 DEF Told
  <2>4. Restores(q, d)
    BY <1>5, <1>13, <2>1, <2>3 DEF Restores
  <2>. QED
    BY <1>6, <2>4 DEF JobOK
<1>. QED
  BY <1>12, <1>13 DEF AfterBatch

LEMMA OneJobChanges ==
  ASSUME JobsOK, NEW j \in Jobs, NEW r, JobOK(r, DOMAIN table, dbms),
         job' = [job EXCEPT ![j] = r], UNCHANGED <<dbms, table>>,
         \A n \in DOMAIN files' : files'[n].rows \in Seq(Key)
  PROVE  JobsOK'
<1>1. DOMAIN job' = Jobs /\ \A i \in Jobs : job'[i] = IF i = j THEN r ELSE job[i]
  BY DEF JobsOK
<1>2. \A i \in Jobs : JobOK(job'[i], DOMAIN table, dbms)
  BY <1>1 DEF JobsOK
<1>. QED
  BY <1>1, <1>2 DEF JobsOK

LEMMA TableChanges ==
  ASSUME JobsOK, NEW reqs, \A i \in Jobs : JobOK(reqs[i], DOMAIN table, dbms),
         NEW keys, DOMAIN table' = keys, keys \subseteq Key, job' = Shifted(reqs, keys),
         UNCHANGED <<dbms, files>>
  PROVE  JobsOK' /\ \A i \in Jobs : Writes(i)' => job'[i] = reqs[i]
<1>1. DOMAIN table \subseteq Key
  BY DEF JobsOK
<1>2. ASSUME NEW i \in Jobs
      PROVE  JobOK(job'[i], keys, dbms)
  <2>1. JobOK(reqs[i], DOMAIN table, dbms)
    OBVIOUS
  <2>2. JobOK(OnceKeysAre(reqs[i], DOMAIN table, keys), keys, dbms)
    BY <1>1, <2>1, ShiftKeeps
  <2>3. job'[i] = OnceKeysAre(reqs[i], DOMAIN table, keys)
    BY DEF Shifted, OnlyAppends, OnceKeysAre
  <2>. QED
    BY <2>2, <2>3
<1>3. DOMAIN job' = Jobs
  BY DEF Shifted
<1>4. ASSUME NEW i \in Jobs, Writes(i)'
      PROVE  job'[i] = reqs[i]
  <2>1. CASE reqs[i].pc = "read"
    <3>1. reqs[i] \in Reading
      BY <2>1, IsReading
    <3>2. [reqs[i] EXCEPT !.moved = TRUE].pc = "read"
      BY <2>1, <3>1 DEF Reading
    <3>3. job'[i].pc = "read"
      BY <2>1, <3>2 DEF Shifted
    <3>. QED
      BY <1>4, <3>3 DEF Writes
  <2>2. CASE reqs[i].pc # "read"
    BY <2>2 DEF Shifted
  <2>. QED
    BY <2>1, <2>2
<1>. QED
  BY <1>2, <1>3, <1>4 DEF JobsOK

\* Steps that write neither metadata nor data.
LEMMA NobodyWrites ==
  ASSUME OneWriter, MetaDescribesBackup, second' \in Nat, UNCHANGED <<metas, files, given, twice>>,
         \A i \in Jobs : Writes(i)' => job'[i] = job[i]
  PROVE  OneWriter' /\ MetaDescribesBackup'
<1>1. \A i \in Jobs : Writes(i)' => Writes(i)
  BY DEF Writes
<1>2. MetaDescribesBackup'
  BY DEF MetaDescribesBackup, ListBackups
<1>3. OneWriter'
  BY <1>1 DEF OneWriter
<1>. QED
  BY <1>2, <1>3

LEMMA StartReadKeeps ==
  ASSUME DataIInv, NEW j \in Jobs, NEW use \in {"dump", "transfer", "backup"}, NEW algo \in Algos,
         NEW sealed, StartRead(j, use, algo, sealed)
  PROVE  sealed \in BOOLEAN => DataIInv'
<1>. DEFINE r == [pc |-> "read", use |-> use, offset |-> 0, got |-> <<>>, algo |-> algo,
                  sealed |-> sealed, first |-> DOMAIN table, moved |-> FALSE, put |-> <<>>,
                  count |-> 0, errors |-> FALSE]
<1>1. job' = [job EXCEPT ![j] = r]
  BY DEF StartRead
<1>2. sealed \in BOOLEAN => JobOK(r, DOMAIN table, dbms)
  BY StartKeeps DEF DataIInv, JobsOK
<1>3. r.pc = "read"
  OBVIOUS
<1>. HIDE DEF r
<1>4. sealed \in BOOLEAN => JobsOK'
  BY <1>1, <1>2, OneJobChanges DEF DataIInv, JobsOK, StartRead
<1>5. OneWriter' /\ MetaDescribesBackup'
  <2>1. \A i \in Jobs : Writes(i)' => job'[i] = job[i]
    BY <1>1, <1>3 DEF DataIInv, JobsOK, Writes
  <2>. QED
    BY <2>1, NobodyWrites DEF DataIInv, OneWriter, StartRead
<1>. QED
  BY <1>4, <1>5 DEF DataIInv

LEMMA DumpPageStep ==
  ASSUME DataIInv, NEW j \in Jobs, DumpPage(j)
  PROVE  DataIInv'
<1>1. PICK rows \in SelectAll(DOMAIN table, job[j].offset) :
         job' = [job EXCEPT ![j].got = @ \o rows, ![j].offset = @ + PageSize,
                   ![j].pc = IF Len(rows) = PageSize THEN "read"
                             ELSE IF job[j].use = "dump" THEN "done"
                             ELSE IF Compresses(job[j].algo) THEN "name" ELSE "failed"]
  BY DEF DumpPage
<1>. DEFINE pc == IF Len(rows) = PageSize THEN "read"
                  ELSE IF job[j].use = "dump" THEN "done"
                  ELSE IF Compresses(job[j].algo) THEN "name" ELSE "failed"
            r == [job[j] EXCEPT !.got = @ \o rows, !.offset = @ + PageSize, !.pc = pc]
<1>2. pc \in {"read", "name", "done", "failed"} /\ (pc = "read" <=> Len(rows) = PageSize)
  OBVIOUS
<1>3. job' = [job EXCEPT ![j] = r]
  BY <1>1
<1>. HIDE DEF pc
<1>4. /\ job[j] \in Reading /\ Reads(job[j], DOMAIN table, dbms)
      /\ job[j].pc = "read" /\ job[j].use # "transfer"
  BY IsReading DEF DataIInv, JobsOK, DumpPage
<1>5. JobOK(r, DOMAIN table, dbms)
  BY <1>2, <1>4, DumpPageKeeps DEF DataIInv, JobsOK
<1>6. r.pc = pc
  BY <1>4 DEF Reading
<1>. HIDE DEF r
<1>7. JobsOK'
  BY <1>3, <1>5, OneJobChanges DEF DataIInv, JobsOK, DumpPage
<1>8. OneWriter' /\ MetaDescribesBackup'
  <2>1. \A i \in Jobs : Writes(i)' => job'[i] = job[i]
    BY <1>2, <1>3, <1>6 DEF DataIInv, JobsOK, Writes
  <2>. QED
    BY <2>1, NobodyWrites DEF DataIInv, OneWriter, DumpPage
<1>. QED
  BY <1>7, <1>8 DEF DataIInv

LEMMA TransferPageStep ==
  ASSUME DataIInv, NEW j \in Jobs, TransferPage(j)
  PROVE  DataIInv'
<1>1. PICK rows \in SelectAll(DOMAIN table, job[j].offset) :
         job' = [job EXCEPT ![j].got = @ \o rows, ![j].offset = @ + PageSize,
                   ![j].put = @ \o Inserted(other, rows), ![j].errors = ~InsertOK(other, rows),
                   ![j].count = IF InsertOK(other, rows) THEN @ + Len(rows) ELSE @,
                   ![j].pc = IF InsertOK(other, rows) /\ Len(rows) = PageSize THEN "read" ELSE "done"]
  BY DEF TransferPage
<1>. DEFINE r == [job[j] EXCEPT !.got = @ \o rows, !.offset = @ + PageSize,
                    !.put = @ \o Inserted(other, rows), !.errors = ~InsertOK(other, rows),
                    !.count = IF InsertOK(other, rows) THEN @ + Len(rows) ELSE @,
                    !.pc = IF InsertOK(other, rows) /\ Len(rows) = PageSize THEN "read" ELSE "done"]
<1>2. job' = [job EXCEPT ![j] = r]
  BY <1>1
<1>3. /\ job[j] \in Reading /\ Transfers(job[j], dbms)
      /\ job[j].pc = "read" /\ job[j].use = "transfer"
  BY IsReading DEF DataIInv, JobsOK, TransferPage
<1>4. JobOK(r, DOMAIN table, dbms)
  BY <1>3, TransferPageKeeps DEF DataIInv, JobsOK
<1>5. r.pc \in {"read", "done"}
  BY <1>3 DEF Reading
<1>. HIDE DEF r
<1>6. JobsOK'
  BY <1>2, <1>4, OneJobChanges DEF DataIInv, JobsOK, TransferPage
<1>7. OneWriter' /\ MetaDescribesBackup'
  <2>1. \A i \in Jobs : Writes(i)' => job'[i] = job[i]
    BY <1>2, <1>5 DEF DataIInv, JobsOK, Writes
  <2>. QED
    BY <2>1, NobodyWrites DEF DataIInv, OneWriter, TransferPage
<1>. QED
  BY <1>6, <1>7 DEF DataIInv

LEMMA RestoreBackupStep ==
  ASSUME DataIInv, NEW j \in Jobs, NEW n \in DOMAIN files, NEW password, RestoreBackup(j, n, password)
  PROVE  DataIInv'
<1>. DEFINE r == IF Opens(files[n], password)
                 THEN [pc |-> "insert", use |-> "restore", format |-> "json", todo |-> files[n].rows,
                       got |-> files[n].rows, put |-> <<>>, count |-> 0, errors |-> FALSE]
                 ELSE [pc |-> "failed"]
<1>1. job' = [job EXCEPT ![j] = r]
  BY DEF RestoreBackup
<1>2. DDL("json") = 0 /\ files[n].rows \in Seq(Key)
  BY DEF DDL, DataIInv, JobsOK
<1>3. JobOK(r, DOMAIN table, dbms)
  <2>1. JobOK([pc |-> "insert", use |-> "restore", format |-> "json", todo |-> files[n].rows,
               got |-> files[n].rows, put |-> <<>>, count |-> DDL("json"), errors |-> FALSE],
              DOMAIN table, dbms)
    BY <1>2, RestoreStarts
  <2>2. JobOK([pc |-> "failed"], DOMAIN table, dbms)
    BY DEF JobOK
  <2>. QED
    BY <1>2, <2>1, <2>2
<1>4. r.pc \in {"insert", "failed"}
  OBVIOUS
<1>. HIDE DEF r
<1>5. JobsOK'
  BY <1>1, <1>3, OneJobChanges DEF DataIInv, JobsOK, RestoreBackup
<1>6. OneWriter' /\ MetaDescribesBackup'
  <2>1. \A i \in Jobs : Writes(i)' => job'[i] = job[i]
    BY <1>1, <1>4 DEF DataIInv, JobsOK, Writes
  <2>. QED
    BY <2>1, NobodyWrites DEF DataIInv, OneWriter, RestoreBackup
<1>. QED
  BY <1>5, <1>6 DEF DataIInv

\* A request that is done or writes rows is what its step says.
LEMMA IsDone ==
  ASSUME NEW r, NEW K, NEW d, JobOK(r, K, d)
  PROVE  /\ r.pc = "done" /\ r.use = "dump" => r \in Reading
         /\ r.pc = "insert" => r \in Restoring /\ Restores(r, d)
         /\ r.pc = "name" => r \in Reading
         /\ r.pc \in {"meta", "data"} => r \in Writing
<1>1. r.pc \in {"done", "insert", "name", "meta", "data"} => r # NoJob /\ r # [pc |-> "failed"]
  BY DEF NoJob
<1>2. r \in Writing => r.pc \in {"meta", "data"}
  BY DEF Writing
<1>3. r \in Restoring => r.pc \in {"insert", "done"} /\ r.use = "restore"
  BY DEF Restoring
<1>4. r \in Reading => r.pc \notin {"insert", "meta", "data"}
  BY DEF Reading
<1>. QED
  BY <1>1, <1>2, <1>3, <1>4 DEF JobOK

LEMMA UploadStep ==
  ASSUME DataIInv, NEW j \in Jobs, NEW format \in {"json", "sql", "csv"}, NEW truncate,
         Upload(j, format, truncate)
  PROVE  DataIInv'
<1>. DEFINE rows == job[j].got
            r == IF format = "csv" THEN [pc |-> "failed"]
                 ELSE [pc |-> "insert", use |-> "restore", format |-> format, todo |-> rows,
                       got |-> rows, put |-> <<>>, count |-> DDL(format), errors |-> FALSE]
            reqs == [job EXCEPT ![j] = r]
<1>1. PICK keys : keys = DOMAIN table'
  OBVIOUS
<1>2. job' = Shifted(reqs, keys)
  BY <1>1 DEF Upload
<1>3. keys \subseteq Key
  <2>1. table' = <<>> \/ table' = table
    BY DEF Upload
  <2>. QED
    BY <1>1, <2>1 DEF DataIInv, JobsOK
<1>4. rows \in Seq(Key)
  BY IsDone DEF DataIInv, JobsOK, Upload, Reading
<1>5. JobOK(r, DOMAIN table, dbms)
  <2>1. format # "csv" => format \in {"json", "sql"}
    OBVIOUS
  <2>2. JobOK([pc |-> "failed"], DOMAIN table, dbms)
    BY DEF JobOK
  <2>. QED
    BY <1>4, <2>1, <2>2, RestoreStarts
<1>6. r.pc \in {"insert", "failed"}
  OBVIOUS
<1>. HIDE DEF r
<1>7. /\ \A i \in Jobs : JobOK(reqs[i], DOMAIN table, dbms)
      /\ \A i \in Jobs : reqs[i] = IF i = j THEN r ELSE job[i]
  BY <1>5 DEF DataIInv, JobsOK
<1>. HIDE DEF reqs
<1>8. JobsOK' /\ \A i \in Jobs : Writes(i)' => job'[i] = reqs[i]
  BY <1>1, <1>2, <1>3, <1>7, TableChanges DEF DataIInv, Upload
<1>9. OneWriter' /\ MetaDescribesBackup'
  <2>1. \A i \in Jobs : Writes(i)' => job'[i] = job[i]
    BY <1>6, <1>7, <1>8 DEF Writes
  <2>. QED
    BY <2>1, NobodyWrites DEF DataIInv, OneWriter, Upload
<1>. QED
  BY <1>8, <1>9 DEF DataIInv

LEMMA RestoreBatchStep ==
  ASSUME DataIInv, NEW j \in Jobs, RestoreBatch(j)
  PROVE  DataIInv'
<1>. DEFINE size == IF job[j].format = "sql" THEN 1 ELSE InsertSize
            rows == SubSeq(job[j].todo, 1, Min({size, Len(job[j].todo)}))
            todo == SubSeq(job[j].todo, Len(rows) + 1, Len(job[j].todo))
            legible == \A i \in DOMAIN rows : Through(job[j].format, TypeOfRow[rows[i]]) # "refused"
            ok == legible /\ InsertOK(table, rows)
            put == IF legible THEN Inserted(table, rows) ELSE <<>>
            r == AfterBatch(job[j], size, rows, todo, put, ok)
            reqs == [job EXCEPT ![j] = r]
<1>1. PICK keys : keys = DOMAIN table'
  OBVIOUS
<1>2. table' = Put(table, ToSet(put), job[j].format) /\ job' = Shifted(reqs, keys)
  <2>1. /\ table' = Put(table, ToSet(put), job[j].format)
        /\ job' = Shifted([job EXCEPT ![j].todo = todo, ![j].put = @ \o put, ![j].errors = @ \/ ~ok,
                     ![j].count = IF ok THEN @ + Len(rows) ELSE @,
                     ![j].pc = IF Len(job[j].todo) <= size THEN "done" ELSE "insert"], DOMAIN table')
    BY DEF RestoreBatch
  <2>2. DOMAIN job = Jobs
    BY DEF DataIInv, JobsOK
  <2>. HIDE DEF size, rows, todo, legible, ok, put
  <2>3. [job EXCEPT ![j].todo = todo, ![j].put = @ \o put, ![j].errors = @ \/ ~ok,
           ![j].count = IF ok THEN @ + Len(rows) ELSE @,
           ![j].pc = IF Len(job[j].todo) <= size THEN "done" ELSE "insert"] = reqs
    BY <2>2 DEF AfterBatch
  <2>. QED
    BY <1>1, <2>1, <2>3
<1>3. job[j] \in Restoring /\ Restores(job[j], dbms) /\ job[j].pc = "insert"
  BY IsDone DEF DataIInv, JobsOK, RestoreBatch
<1>4. job[j].todo \in Seq(Key) /\ size \in Nat
  BY <1>3, DataAssumption DEF Restoring
<1>. HIDE DEF size
<1>5. /\ rows \in Seq(Key) /\ todo \in Seq(Key) /\ rows \o todo = job[j].todo
      /\ Len(job[j].todo) <= size => todo = <<>>
  BY <1>4, Batch
<1>. HIDE DEF rows, todo, legible
<1>6. /\ put \in Seq(Key) /\ (ok => put = rows) /\ (~ok /\ dbms = "mysql" => put = <<>>)
  <2>1. <<>> \in Seq(Key)
    BY EmptySeq
  <2>. QED
    BY <1>5, <2>1, InsertedRows DEF DataIInv, JobsOK
<1>7. keys \subseteq Key
  <2>1. ToSet(put) \subseteq Key
    BY <1>6, LenProperties DEF ToSet
  <2>2. keys = DOMAIN table \cup ToSet(put)
    BY <1>1, <1>2 DEF Put
  <2>. QED
    BY <2>1, <2>2 DEF DataIInv, JobsOK
<1>. HIDE DEF put, ok
<1>8. JobOK(r, DOMAIN table, dbms)
  BY <1>3, <1>4, <1>5, <1>6, RestoreBatchKeeps
<1>9. r.pc \in {"insert", "done"}
  BY <1>3 DEF Restoring, AfterBatch
<1>. HIDE DEF r
<1>10. /\ \A i \in Jobs : JobOK(reqs[i], DOMAIN table, dbms)
       /\ \A i \in Jobs : reqs[i] = IF i = j THEN r ELSE job[i]
  BY <1>8 DEF DataIInv, JobsOK
<1>. HIDE DEF reqs
<1>11. JobsOK' /\ \A i \in Jobs : Writes(i)' => job'[i] = reqs[i]
  BY <1>1, <1>2, <1>7, <1>10, TableChanges DEF DataIInv, RestoreBatch
<1>12. OneWriter' /\ MetaDescribesBackup'
  <2>1. \A i \in Jobs : Writes(i)' => job'[i] = job[i]
    BY <1>9, <1>10, <1>11 DEF Writes
  <2>. QED
    BY <2>1, NobodyWrites DEF DataIInv, OneWriter, RestoreBatch
<1>. QED
  BY <1>11, <1>12 DEF DataIInv

\* Other requests to the database.
LEMMA OthersStep ==
  ASSUME DataIInv, NEW k \in 1 .. MaxKey, InsertRow(k) \/ DeleteRow(k)
  PROVE  DataIInv'
<1>1. PICK keys \in {DOMAIN table \cup {k}, DOMAIN table \ {k}} :
         DOMAIN table' = keys /\ job' = Shifted(job, keys)
  <2>1. CASE InsertRow(k)
    <3>1. DOMAIN table' = DOMAIN table \cup {k} /\ job' = Shifted(job, DOMAIN table \cup {k})
      BY <2>1 DEF InsertRow
    <3>. QED
      BY <3>1
  <2>2. CASE DeleteRow(k)
    <3>1. DOMAIN table' = DOMAIN table \ {k} /\ job' = Shifted(job, DOMAIN table \ {k})
      BY <2>2 DEF DeleteRow, Restrict
    <3>. QED
      BY <3>1
  <2>. QED
    BY <2>1, <2>2
<1>2. UNCHANGED <<dbms, metas, files, second, given, twice>>
  BY DEF InsertRow, DeleteRow
<1>3. keys \subseteq Key
  BY <1>1 DEF DataIInv, JobsOK, Key
<1>4. JobsOK' /\ \A i \in Jobs : Writes(i)' => job'[i] = job[i]
  <2>1. \A i \in Jobs : JobOK(job[i], DOMAIN table, dbms)
    BY DEF DataIInv, JobsOK
  <2>. QED
    BY <1>1, <1>2, <1>3, <2>1, TableChanges DEF DataIInv
<1>5. OneWriter' /\ MetaDescribesBackup'
  BY <1>2, <1>4, NobodyWrites DEF DataIInv, OneWriter
<1>. QED
  BY <1>4, <1>5 DEF DataIInv

\* A request ends.
LEMMA EndStep ==
  ASSUME DataIInv, NEW j \in Jobs, JobDies(j) \/ Answer(j)
  PROVE  DataIInv'
<1>1. job' = [job EXCEPT ![j] = NoJob] /\ UNCHANGED <<dbms, table, metas, files, second, given, twice>>
  BY DEF JobDies, Answer
<1>2. JobOK(NoJob, DOMAIN table, dbms) /\ NoJob.pc = "off"
  BY DEF JobOK, NoJob
<1>3. JobsOK'
  BY <1>1, <1>2, OneJobChanges DEF DataIInv, JobsOK
<1>4. OneWriter' /\ MetaDescribesBackup'
  <2>1. \A i \in Jobs : Writes(i)' => job'[i] = job[i]
    BY <1>1, <1>2 DEF DataIInv, JobsOK, Writes
  <2>. QED
    BY <1>1, <2>1, NobodyWrites DEF DataIInv, OneWriter
<1>. QED
  BY <1>3, <1>4 DEF DataIInv

LEMMA SecondStep ==
  ASSUME DataIInv, NextSecond
  PROVE  DataIInv'
<1>1. JobsOK'
  BY DEF DataIInv, JobsOK, NextSecond
<1>2. second' \in Nat
  BY DEF DataIInv, OneWriter, NextSecond
<1>3. OneWriter' /\ MetaDescribesBackup'
  BY <1>2, NobodyWrites DEF DataIInv, NextSecond
<1>. QED
  BY <1>1, <1>3 DEF DataIInv

LEMMA NameBackupStep ==
  ASSUME DataIInv, NEW j \in Jobs, NameBackup(j)
  PROVE  DataIInv'
<1>. DEFINE name == <<second, job[j].algo>>
            r == [pc |-> "meta", name |-> name, rows |-> job[j].got,
                  algo |-> job[j].algo, sealed |-> job[j].sealed]
<1>1. /\ job' = [job EXCEPT ![j] = r]
      /\ given' = given \cup {name} /\ twice' = twice \cup ({name} \cap given)
      /\ UNCHANGED <<dbms, table, metas, files, second>>
  BY DEF NameBackup
<1>2. job[j] \in Reading
  BY IsDone DEF DataIInv, JobsOK, NameBackup
<1>3. second \in Nat
  BY DEF DataIInv, OneWriter
<1>4. r \in Writing
  BY <1>2, <1>3 DEF Reading, Writing
<1>5. r.pc = "meta" /\ r.name = name
  OBVIOUS
<1>. HIDE DEF r, name
<1>6. JobsOK'
  <2>1. JobOK(r, DOMAIN table, dbms)
    BY <1>4 DEF JobOK
  <2>. QED
    BY <1>1, <2>1, OneJobChanges DEF DataIInv, JobsOK
<1>7. \A i \in Jobs : job'[i] = IF i = j THEN r ELSE job[i]
  BY <1>1 DEF DataIInv, JobsOK
<1>8. /\ \A i \in Jobs \ {j} : Writes(i)' <=> Writes(i)
      /\ Writes(j)'
  BY <1>5, <1>7 DEF Writes
<1>9. MetaDescribesBackup'
  BY <1>1 DEF DataIInv, MetaDescribesBackup, ListBackups
<1>10. OneWriter'
  <2>1. second' \in Nat /\ DOMAIN metas' \cup DOMAIN files' \subseteq given'
    BY <1>1 DEF DataIInv, OneWriter
  <2>2. \A i \in Jobs : Writes(i)' => job'[i].name \in given'
    BY <1>1, <1>5, <1>7, <1>8 DEF DataIInv, OneWriter
  <2>3. ASSUME NEW i \in Jobs, NEW k \in Jobs, Writes(i)', Writes(k)', job'[i].name = job'[k].name, i # k
        PROVE  job'[i].name \in twice'
    <3>1. CASE i = j
      <4>1. job[k].name \in given /\ job[k].name = name
        BY <1>5, <1>7, <1>8, <2>3, <3>1 DEF DataIInv, OneWriter
      <4>. QED
        BY <1>1, <1>7, <2>3, <3>1, <4>1
    <3>2. CASE k = j
      <4>1. job[i].name \in given /\ job[i].name = name
        BY <1>5, <1>7, <1>8, <2>3, <3>2 DEF DataIInv, OneWriter
      <4>. QED
        BY <1>1, <1>7, <2>3, <3>2, <4>1
    <3>3. CASE i # j /\ k # j
      BY <1>1, <1>7, <1>8, <2>3, <3>3 DEF DataIInv, OneWriter
    <3>. QED
      BY <3>1, <3>2, <3>3
  <2>4. ASSUME NEW i \in Jobs, Writes(i)', job'[i].name \notin twice'
        PROVE  /\ job'[i].name \notin DOMAIN files'
               /\ job'[i].pc = "data" /\ job'[i].name \in DOMAIN metas' =>
                    metas'[job'[i].name] = [rows |-> job'[i].rows, sealed |-> job'[i].sealed]
    <3>1. CASE i = j
      <4>1. name \notin given
        BY <1>1, <1>5, <1>7, <2>4, <3>1
      <4>. QED
        BY <1>1, <1>5, <1>7, <3>1, <4>1 DEF DataIInv, OneWriter
    <3>2. CASE i # j
      BY <1>1, <1>7, <1>8, <2>4, <3>2 DEF DataIInv, OneWriter
    <3>. QED
      BY <3>1, <3>2
  <2>. QED
    BY <2>1, <2>2, <2>3, <2>4 DEF OneWriter
<1>. QED
  BY <1>6, <1>9, <1>10 DEF DataIInv

LEMMA WriteMetaStep ==
  ASSUME DataIInv, NEW j \in Jobs, WriteMeta(j)
  PROVE  DataIInv'
<1>. DEFINE r == [job[j] EXCEPT !.pc = "data"]
            name == job[j].name
            meta == [rows |-> job[j].rows, sealed |-> job[j].sealed]
<1>1. /\ job' = [job EXCEPT ![j] = r]
      /\ DOMAIN metas' = DOMAIN metas \cup {name}
      /\ \A n \in DOMAIN metas \cup {name} : metas'[n] = IF n = name THEN meta ELSE metas[n]
      /\ UNCHANGED <<dbms, table, files, second, given, twice>>
  BY DEF WriteMeta
<1>2. job[j] \in Writing /\ Writes(j)
  BY IsDone DEF DataIInv, JobsOK, WriteMeta, Writes
<1>3. r \in Writing /\ r.pc = "data" /\ r.name = name /\ r.rows = job[j].rows /\ r.sealed = job[j].sealed
  BY <1>2 DEF Writing
<1>. HIDE DEF r
<1>4. JobsOK'
  <2>1. JobOK(r, DOMAIN table, dbms)
    BY <1>3 DEF JobOK
  <2>. QED
    BY <1>1, <2>1, OneJobChanges DEF DataIInv, JobsOK
<1>5. \A i \in Jobs : job'[i] = IF i = j THEN r ELSE job[i]
  BY <1>1 DEF DataIInv, JobsOK
<1>6. \A i \in Jobs : (Writes(i)' <=> Writes(i)) /\ (Writes(i) => job'[i].name = job[i].name)
  BY <1>2, <1>3, <1>5 DEF Writes
<1>7. name \notin twice => name \notin DOMAIN files
  BY <1>2 DEF DataIInv, OneWriter
<1>8. MetaDescribesBackup'
  BY <1>1, <1>7 DEF DataIInv, MetaDescribesBackup, ListBackups
<1>9. OneWriter'
  <2>1. /\ second' \in Nat /\ DOMAIN metas' \cup DOMAIN files' \subseteq given'
        /\ \A i \in Jobs : Writes(i)' => job'[i].name \in given'
    BY <1>1, <1>2, <1>6 DEF DataIInv, OneWriter
  <2>2. \A i, k \in Jobs : Writes(i)' /\ Writes(k)' /\ job'[i].name = job'[k].name =>
          i = k \/ job'[i].name \in twice'
    BY <1>1, <1>6 DEF DataIInv, OneWriter
  <2>3. ASSUME NEW i \in Jobs, Writes(i)', job'[i].name \notin twice'
        PROVE  /\ job'[i].name \notin DOMAIN files'
               /\ job'[i].pc = "data" /\ job'[i].name \in DOMAIN metas' =>
                    metas'[job'[i].name] = [rows |-> job'[i].rows, sealed |-> job'[i].sealed]
    <3>1. CASE i = j
      BY <1>1, <1>3, <1>5, <1>7, <2>3, <3>1
    <3>2. CASE i # j
      <4>1. job'[i] = job[i] /\ Writes(i) /\ job[i].name \notin twice
        BY <1>1, <1>5, <1>6, <2>3, <3>2
      <4>2. job[i].name # name
        BY <1>2, <3>2, <4>1 DEF DataIInv, OneWriter
      <4>. QED
        BY <1>1, <4>1, <4>2 DEF DataIInv, OneWriter
    <3>. QED
      BY <3>1, <3>2
  <2>. QED
    BY <2>1, <2>2, <2>3 DEF OneWriter
<1>. QED
  BY <1>4, <1>8, <1>9 DEF DataIInv

LEMMA WriteDataStep ==
  ASSUME DataIInv, NEW j \in Jobs, WriteData(j)
  PROVE  DataIInv'
<1>. DEFINE name == job[j].name
            data == [rows |-> job[j].rows, sealed |-> job[j].sealed, algo |-> job[j].algo]
<1>1. /\ job' = [job EXCEPT ![j] = NoJob]
      /\ DOMAIN files' = DOMAIN files \cup {name}
      /\ \A n \in DOMAIN files \cup {name} : files'[n] = IF n = name THEN data ELSE files[n]
      /\ UNCHANGED <<dbms, table, metas, second, given, twice>>
  BY DEF WriteData
<1>2. job[j] \in Writing /\ Writes(j) /\ job[j].pc = "data"
  BY IsDone DEF DataIInv, JobsOK, WriteData, Writes
<1>3. data.rows = job[j].rows /\ data.sealed = job[j].sealed /\ data.rows \in Seq(Key)
  BY <1>2 DEF Writing
<1>. HIDE DEF data
<1>4. JobsOK'
  <2>1. JobOK(NoJob, DOMAIN table, dbms)
    BY DEF JobOK
  <2>2. \A n \in DOMAIN files' : files'[n].rows \in Seq(Key)
    BY <1>1, <1>3 DEF DataIInv, JobsOK
  <2>. QED
    BY <1>1, <2>1, <2>2, OneJobChanges DEF DataIInv
<1>5. \A i \in Jobs : Writes(i)' => i # j /\ job'[i] = job[i] /\ Writes(i)
  BY <1>1 DEF DataIInv, JobsOK, Writes, NoJob
<1>6. name \notin twice /\ name \in DOMAIN metas =>
        metas[name].rows = data.rows /\ metas[name].sealed = data.sealed
  <2>1. name \notin twice /\ name \in DOMAIN metas =>
          metas[name] = [rows |-> job[j].rows, sealed |-> job[j].sealed]
    BY <1>2 DEF DataIInv, OneWriter
  <2>. QED
    BY <1>3, <2>1
<1>7. MetaDescribesBackup'
  BY <1>1, <1>6 DEF DataIInv, MetaDescribesBackup, ListBackups
<1>8. OneWriter'
  <2>1. /\ second' \in Nat /\ DOMAIN metas' \cup DOMAIN files' \subseteq given'
        /\ \A i \in Jobs : Writes(i)' => job'[i].name \in given'
    BY <1>1, <1>2, <1>5 DEF DataIInv, OneWriter
  <2>2. \A i, k \in Jobs : Writes(i)' /\ Writes(k)' /\ job'[i].name = job'[k].name =>
          i = k \/ job'[i].name \in twice'
    BY <1>1, <1>5 DEF DataIInv, OneWriter
  <2>3. ASSUME NEW i \in Jobs, Writes(i)', job'[i].name \notin twice'
        PROVE  /\ job'[i].name \notin DOMAIN files'
               /\ job'[i].pc = "data" /\ job'[i].name \in DOMAIN metas' =>
                    metas'[job'[i].name] = [rows |-> job'[i].rows, sealed |-> job'[i].sealed]
    <3>1. job'[i] = job[i] /\ Writes(i) /\ job[i].name \notin twice /\ i # j
      BY <1>1, <1>5, <2>3
    <3>2. job[i].name # name
      BY <1>2, <3>1 DEF DataIInv, OneWriter
    <3>. QED
      BY <1>1, <3>1, <3>2 DEF DataIInv, OneWriter
  <2>. QED
    BY <2>1, <2>2, <2>3 DEF OneWriter
<1>. QED
  BY <1>4, <1>7, <1>8 DEF DataIInv

LEMMA DeleteBackupStep ==
  ASSUME DataIInv, NEW n, DeleteBackup(n)
  PROVE  DataIInv'
<1>1. /\ DOMAIN metas' = DOMAIN metas \ {n} /\ \A m \in DOMAIN metas' : metas'[m] = metas[m]
      /\ DOMAIN files' = DOMAIN files \ {n} /\ \A m \in DOMAIN files' : files'[m] = files[m]
      /\ UNCHANGED <<dbms, table, job, second, given, twice>>
  BY DEF DeleteBackup, Restrict
<1>2. JobsOK'
  BY <1>1 DEF DataIInv, JobsOK
<1>3. MetaDescribesBackup'
  BY <1>1 DEF DataIInv, MetaDescribesBackup, ListBackups
<1>4. \A i \in Jobs : Writes(i)' <=> Writes(i)
  BY <1>1 DEF Writes
<1>5. OneWriter'
  BY <1>1, <1>4 DEF DataIInv, OneWriter
<1>. QED
  BY <1>2, <1>3, <1>5 DEF DataIInv

LEMMA DataInitOK == DataInit => DataIInv
<1>. SUFFICES ASSUME DataInit PROVE DataIInv
  OBVIOUS
<1>1. dbms \in {"mysql", "postgres"} /\ DOMAIN files = {} /\ DOMAIN metas = {}
  BY DEF DataInit
<1>2. DOMAIN table \subseteq Key
  <2>1. PICK n \in 0 .. MaxKey : table = [k \in 1 .. n |-> Same]
    BY DEF DataInit
  <2>2. MaxKey \in Nat
    BY DataAssumption
  <2>3. DOMAIN table = 1 .. n /\ 1 .. n \subseteq 1 .. MaxKey
    BY <2>1, <2>2
  <2>. QED
    BY <2>3 DEF Key
<1>3. DOMAIN job = Jobs /\ \A j \in Jobs : job[j] = NoJob
  BY DEF DataInit
<1>4. JobsOK
  BY <1>1, <1>2, <1>3 DEF JobsOK, JobOK
<1>5. \A j \in Jobs : ~Writes(j)
  BY <1>3 DEF Writes, NoJob
<1>6. OneWriter
  <2>1. second \in Nat
    BY DEF DataInit
  <2>. QED
    BY <1>1, <1>5, <2>1 DEF OneWriter
<1>7. MetaDescribesBackup
  BY <1>1 DEF MetaDescribesBackup
<1>. QED
  BY <1>4, <1>6, <1>7 DEF DataIInv

LEMMA DataStep == DataIInv /\ [DataNext]_dataVars => DataIInv'
<1>. SUFFICES ASSUME DataIInv, [DataNext]_dataVars PROVE DataIInv'
  OBVIOUS
<1>1. CASE NextSecond
  BY <1>1, SecondStep
<1>2. ASSUME NEW k \in 1 .. MaxKey, InsertRow(k) \/ DeleteRow(k) PROVE DataIInv'
  BY <1>2, OthersStep
<1>3. ASSUME NEW n, DeleteBackup(n) PROVE DataIInv'
  BY <1>3, DeleteBackupStep
<1>4. ASSUME NEW j \in Jobs, Dump(j) \/ Transfer(j) PROVE DataIInv'
  <2>1. "" \in Algos /\ FALSE \in BOOLEAN
    BY DEF Algos
  <2>. QED
    BY <1>4, <2>1, StartReadKeeps DEF Dump, Transfer
<1>5. ASSUME NEW j \in Jobs, NEW algo \in Algorithms, NEW sealed \in BOOLEAN, CreateBackup(j, algo, sealed)
      PROVE  DataIInv'
  <2>1. algo \in Algos
    BY DEF Algos
  <2>. QED
    BY <1>5, <2>1, StartReadKeeps DEF CreateBackup
<1>6. ASSUME NEW j \in Jobs, DumpPage(j) \/ TransferPage(j) PROVE DataIInv'
  BY <1>6, DumpPageStep, TransferPageStep
<1>7. ASSUME NEW j \in Jobs, NameBackup(j) \/ WriteMeta(j) \/ WriteData(j) PROVE DataIInv'
  BY <1>7, NameBackupStep, WriteMetaStep, WriteDataStep
<1>8. ASSUME NEW j \in Jobs, NEW n \in DOMAIN files, NEW password, RestoreBackup(j, n, password)
      PROVE  DataIInv'
  BY <1>8, RestoreBackupStep
<1>9. ASSUME NEW j \in Jobs, NEW format \in {"json", "sql", "csv"}, NEW truncate, Upload(j, format, truncate)
      PROVE  DataIInv'
  BY <1>9, UploadStep
<1>10. ASSUME NEW j \in Jobs, RestoreBatch(j) PROVE DataIInv'
  BY <1>10, RestoreBatchStep
<1>11. ASSUME NEW j \in Jobs, JobDies(j) \/ Answer(j) PROVE DataIInv'
  BY <1>11, EndStep
<1>12. CASE UNCHANGED dataVars
  <2>1. JobsOK'
    BY <1>12 DEF DataIInv, JobsOK, dataVars
  <2>2. second' \in Nat /\ UNCHANGED <<metas, files, given, twice, job>>
    BY <1>12 DEF DataIInv, OneWriter, dataVars
  <2>3. OneWriter' /\ MetaDescribesBackup'
    BY <2>2, NobodyWrites DEF DataIInv
  <2>. QED
    BY <2>1, <2>3 DEF DataIInv
<1>. QED
  BY <1>1, <1>2, <1>3, <1>4, <1>5, <1>6, <1>7, <1>8, <1>9, <1>10, <1>11, <1>12 DEF DataNext

\* The invariant says of a request that has read or reported what the properties say.
LEMMA DataIInvImplies == DataIInv => PagedReadIsComplete /\ ReportIsTrue
<1>. SUFFICES ASSUME DataIInv PROVE PagedReadIsComplete /\ ReportIsTrue
  OBVIOUS
<1>1. ASSUME NEW j \in Jobs, job[j].pc \in {"name", "done"}, job[j].use \in {"dump", "backup"}
      PROVE  HasRead(job[j], dbms)
  <2>1. job[j] # NoJob /\ job[j] # [pc |-> "failed"]
    BY <1>1 DEF NoJob
  <2>2. job[j] \notin Writing
    BY <1>1 DEF Writing
  <2>3. job[j] \notin Restoring
    BY <1>1 DEF Restoring
  <2>. QED
    BY <2>1, <2>2, <2>3 DEF DataIInv, JobsOK, JobOK
<1>2. PagedReadIsComplete
  BY <1>1 DEF PagedReadIsComplete, HasRead
<1>3. ASSUME NEW j \in Jobs, job[j].pc = "done", job[j].use \in {"restore", "transfer"}
      PROVE  \/ job[j] \in Restoring /\ Restores(job[j], dbms) /\ job[j].use = "restore"
             \/ job[j] \in Reading /\ Transfers(job[j], dbms) /\ job[j].use = "transfer"
  <2>1. job[j] # NoJob /\ job[j] # [pc |-> "failed"]
    BY <1>3 DEF NoJob
  <2>2. job[j] \notin Writing
    BY <1>3 DEF Writing
  <2>3. job[j] \in Restoring => job[j].use = "restore"
    BY DEF Restoring
  <2>4. job[j] \in Reading => job[j].use # "restore"
    BY DEF Reading
  <2>. QED
    BY <1>3, <2>1, <2>2, <2>3, <2>4 DEF DataIInv, JobsOK, JobOK
<1>4. ReportIsTrue
  <2>. SUFFICES ASSUME NEW j \in Jobs, job[j].pc = "done", job[j].use \in {"restore", "transfer"}
       PROVE  LET count == job[j].count - (IF job[j].use = "restore" THEN DDL(job[j].format) ELSE 0)
              IN /\ ~job[j].errors => job[j].put = job[j].got
                 /\ count <= Len(job[j].put)
                 /\ dbms = "mysql" => count = Len(job[j].put)
    BY DEF ReportIsTrue
  <2>1. CASE job[j] \in Restoring /\ Restores(job[j], dbms) /\ job[j].use = "restore"
    <3>1. job[j].put \in Seq(Key) /\ job[j].put \o <<>> = job[j].put
      BY <2>1, ConcatEmptySeq DEF Restoring
    <3>. QED
      BY <2>1, <3>1 DEF Restores, Told
  <2>2. CASE job[j] \in Reading /\ Transfers(job[j], dbms) /\ job[j].use = "transfer"
    <3>1. job[j].count \in Nat /\ job[j].count - 0 = job[j].count
      BY <2>2 DEF Reading
    <3>. QED
      BY <2>2, <3>1 DEF Transfers, Told
  <2>. QED
    BY <1>3, <2>1, <2>2
<1>. QED
  BY <1>2, <1>4

LEMMA DataInvariant == DataSpec => []DataIInv
BY DataInitOK, DataStep, PTL DEF DataSpec

\* A dump of Postgres, and one of MySQL that fits a page, has every row that was
\* there throughout, once, whatever is appended meanwhile (Dump, SelectAll).
THEOREM PagedReadTheorem == DataSpec => []PagedReadIsComplete
BY DataInvariant, DataIInvImplies, PTL

\* What Restore and Transfer report of their rows is what they did.
THEOREM ReportTheorem == DataSpec => []ReportIsTrue
BY DataInvariant, DataIInvImplies, PTL

\* The metadata of a backup whose name was given once describes its data
\* (CreateBackup, DeleteBackup).
THEOREM MetaTheorem == DataSpec => []MetaDescribesBackup
<1>1. DataIInv => MetaDescribesBackup
  BY DEF DataIInv
<1>. QED
  BY <1>1, DataInvariant, PTL

-----------------------------------------------------------------------------
(* Audit log *)

Entry == [id : Nat, action : Actions, user : AuditUsers \cup {None}, status : Statuses, at : Nat]

\* Every filter, whatever its times and its page.
AnyFilter ==
  [action : Actions \cup {None}, user : AuditUsers \cup {None}, status : Statuses \cup {None},
   from : Nat, until : Nat, offset : Nat, limit : Nat]

\* Ids count the entries, and the index has those of every value.
AuditIInv ==
  /\ nextID \in Nat /\ auditRows \in Seq(Entry) /\ Len(auditRows) = nextID
  /\ \A i \in 1 .. nextID : auditRows[i].id = i
  /\ ~storeShut =>
       /\ log = auditRows
       /\ \A x \in Fields : \A v \in Values[x] :
            auditIndex[x][v] = {i \in 1 .. nextID : Value(auditRows[i], x) = v}

LEMMA ElementsAtProperties ==
  ASSUME NEW S, NEW s \in Seq(S), NEW P, P \subseteq DOMAIN s
  PROVE  /\ Cardinality(P) \in Nat /\ IsFiniteSet(P)
         /\ ElementsAt(s, P) \in Seq(S) /\ Len(ElementsAt(s, P)) = Cardinality(P)
         /\ ToSet(ElementsAt(s, P)) = {s[i] : i \in P}
<1>. DEFINE c == Cardinality(P)
<1>1. Len(s) \in Nat /\ DOMAIN s = 1 .. Len(s) /\ \A i \in DOMAIN s : s[i] \in S
  BY LenProperties
<1>2. IsFiniteSet(P)
  <2>1. IsFiniteSet(1 .. Len(s))
    BY <1>1, FS_Interval
  <2>. QED
    BY <1>1, <2>1, FS_Subset
<1>3. \A z \in P : z \in Int
  BY <1>1
<1>4. /\ c \in Nat /\ Ascending(P) \in [1 .. c -> P] /\ ToSet(Ascending(P)) = P
  BY <1>2, <1>3, AscendingProperties
<1>. HIDE DEF c
<1>5. \A n \in 1 .. c : s[Ascending(P)[n]] \in S
  BY <1>1, <1>4
<1>6. ElementsAt(s, P) \in [1 .. c -> S]
  BY <1>5 DEF ElementsAt, c
<1>7. ElementsAt(s, P) \in Seq(S) /\ Len(ElementsAt(s, P)) = c
  BY <1>4, <1>6, SeqDef
<1>8. DOMAIN ElementsAt(s, P) = 1 .. c /\ \A n \in 1 .. c : ElementsAt(s, P)[n] = s[Ascending(P)[n]]
  BY DEF ElementsAt, c
<1>9. \A i \in P : \E n \in 1 .. c : Ascending(P)[n] = i
  BY <1>4 DEF ToSet
<1>10. ToSet(ElementsAt(s, P)) = {s[i] : i \in P}
  BY <1>4, <1>8, <1>9 DEF ToSet
<1>. QED
  BY <1>2, <1>4, <1>7, <1>10 DEF c

LEMMA ReverseProperties ==
  ASSUME NEW S, NEW s \in Seq(S)
  PROVE  Reverse(s) \in Seq(S) /\ Len(Reverse(s)) = Len(s)
<1>1. Len(s) \in Nat /\ \A i \in 1 .. Len(s) : s[i] \in S
  BY LenProperties
<1>2. \A i \in 1 .. Len(s) : (Len(s) - i) + 1 \in 1 .. Len(s)
  BY <1>1
<1>3. Reverse(s) \in [1 .. Len(s) -> S]
  BY <1>1, <1>2 DEF Reverse
<1>. QED
  BY <1>1, <1>3, SeqDef

\* A page of s has elements of s, as many as there are between its two bounds.
LEMMA PagedProperties ==
  ASSUME NEW S, NEW s \in Seq(S), NEW f \in AnyFilter
  PROVE  /\ ToSet(Paged(s, f)) \subseteq ToSet(s)
         /\ f.offset = 0 /\ f.limit = 0 => Paged(s, f) = s
         /\ f.offset < Len(s) =>
              Len(Paged(s, f)) = IF f.limit > 0 /\ f.limit < Len(s) - f.offset
                                 THEN f.limit ELSE Len(s) - f.offset
<1>. DEFINE o == f.offset
            l == f.limit
            from == IF o > 0 /\ o < Len(s) THEN SubSeq(s, o + 1, Len(s)) ELSE s
            page == IF l > 0 /\ l < Len(from) THEN SubSeq(from, 1, l) ELSE from
<1>1. o \in Nat /\ l \in Nat
  BY DEF AnyFilter
<1>. HIDE DEF o, l
<1>2. Len(s) \in Nat /\ DOMAIN s = 1 .. Len(s)
  BY LenProperties
<1>3. \A i \in 1 .. Len(s) : s[i] \in ToSet(s)
  BY <1>2 DEF ToSet
<1>4. s \in Seq(ToSet(s))
  <2>1. s \in [1 .. Len(s) -> ToSet(s)]
    BY <1>3, LenProperties
  <2>. QED
    BY <1>2, <2>1, SeqDef
<1>5. from \in Seq(ToSet(s)) /\ (o < Len(s) => Len(from) = Len(s) - o)
  <2>1. CASE o > 0 /\ o < Len(s)
    <3>1. \A i \in o + 1 .. Len(s) : i \in 1 .. Len(s)
      BY <1>1
    <3>2. o + 1 \in Int /\ Len(s) \in Int /\ \A i \in o + 1 .. Len(s) : s[i] \in ToSet(s)
      BY <1>1, <1>2, <1>3, <3>1
    <3>3. /\ SubSeq(s, o + 1, Len(s)) \in Seq(ToSet(s))
          /\ Len(SubSeq(s, o + 1, Len(s))) = IF o + 1 <= Len(s) THEN Len(s) - (o + 1) + 1 ELSE 0
      BY <3>2, SubSeqProperties
    <3>4. from = SubSeq(s, o + 1, Len(s))
      BY <2>1
    <3>5. Len(from) = IF o + 1 <= Len(s) THEN Len(s) - (o + 1) + 1 ELSE 0
      BY <3>3, <3>4
    <3>. HIDE DEF from
    <3>6. \A a, b \in Nat : a < b => (IF a + 1 <= b THEN b - (a + 1) + 1 ELSE 0) = b - a
      OBVIOUS
    <3>7. Len(from) = Len(s) - o
      BY <1>1, <1>2, <2>1, <3>5, <3>6
    <3>. QED
      BY <3>3, <3>4, <3>7
  <2>2. CASE ~(o > 0 /\ o < Len(s))
    <3>1. from = s
      BY <2>2
    <3>. HIDE DEF from
    <3>2. \A a, b \in Nat : a < b /\ ~(a > 0 /\ a < b) => b = b - a
      OBVIOUS
    <3>3. o < Len(s) => Len(s) = Len(s) - o
      BY <1>1, <1>2, <2>2, <3>2
    <3>. QED
      BY <1>4, <3>1, <3>3
  <2>. QED
    BY <2>1, <2>2
<1>. HIDE DEF from
<1>6. Len(from) \in Nat /\ \A i \in 1 .. Len(from) : from[i] \in ToSet(s)
  BY <1>5, LenProperties
<1>7. /\ page \in Seq(ToSet(s))
      /\ Len(page) = IF l > 0 /\ l < Len(from) THEN l ELSE Len(from)
  <2>1. CASE l > 0 /\ l < Len(from)
    <3>1. \A i \in 1 .. l : i \in 1 .. Len(from)
      BY <1>1, <1>6, <2>1
    <3>2. 1 \in Int /\ l \in Int /\ \A i \in 1 .. l : from[i] \in ToSet(s)
      BY <1>1, <1>6, <3>1
    <3>3. /\ SubSeq(from, 1, l) \in Seq(ToSet(s))
          /\ Len(SubSeq(from, 1, l)) = IF 1 <= l THEN l - 1 + 1 ELSE 0
      BY <3>2, SubSeqProperties
    <3>. QED
      BY <1>1, <2>1, <3>3
  <2>2. CASE ~(l > 0 /\ l < Len(from))
    BY <1>5, <2>2
  <2>. QED
    BY <2>1, <2>2
<1>8. ToSet(page) \subseteq ToSet(s)
  BY <1>7, LenProperties DEF ToSet
<1>9. o = 0 /\ l = 0 => page = s
  BY DEF from
<1>10. Paged(s, f) = page
  BY DEF Paged, from, o, l
<1>. HIDE DEF page
<1>11. o < Len(s) => Len(page) = IF l > 0 /\ l < Len(s) - o THEN l ELSE Len(s) - o
  BY <1>5, <1>7
<1>. QED
  BY <1>8, <1>9, <1>10, <1>11 DEF o, l

\* What the index holds after an entry was added.
LEMMA IndexAddProperties ==
  ASSUME NEW idx, NEW e, NEW x \in Fields, NEW v \in Values[x]
  PROVE  indexAdd(idx, e)[x][v] = IF Value(e, x) = v THEN idx[x][v] \cup {e.id} ELSE idx[x][v]
BY DEF indexAdd

LEMMA AuditInitType == AuditInit => AuditIInv
<1>. SUFFICES ASSUME AuditInit PROVE AuditIInv
  OBVIOUS
<1>1. log = <<>> /\ nextID = 0 /\ auditRows = <<>> /\ auditIndex = EmptyIndex
  BY DEF AuditInit
<1>2. <<>> \in Seq(Entry) /\ Len(<<>>) = 0
  BY EmptySeq
<1>3. \A x \in Fields : \A v \in Values[x] : auditIndex[x][v] = {}
  BY <1>1 DEF EmptyIndex
<1>4. {i \in 1 .. 0 : TRUE} = {} /\ \A i \in 1 .. 0 : FALSE
  OBVIOUS
<1>5. \A x \in Fields : \A v \in Values[x] : {i \in 1 .. nextID : Value(auditRows[i], x) = v} = {}
  BY <1>1, <1>4
<1>. QED
  BY <1>1, <1>2, <1>3, <1>4, <1>5 DEF AuditIInv

LEMMA RecordKeepsIndex ==
  ASSUME AuditIInv, NEW a \in Actions, NEW u \in AuditUsers \cup {None}, NEW s \in Statuses,
         RecordEntry(a, u, s)
  PROVE  AuditIInv'
<1>. DEFINE e == [id |-> nextID + 1, action |-> a, user |-> u, status |-> s, at |-> nextID + 1]
<1>1. /\ nextID \in Nat /\ auditRows \in Seq(Entry) /\ Len(auditRows) = nextID
      /\ \A i \in 1 .. nextID : auditRows[i].id = i
  BY DEF AuditIInv
<1>2. /\ nextID' = nextID + 1 /\ log' = Append(log, e) /\ auditRows' = Append(auditRows, e)
      /\ auditIndex' = IF storeShut THEN auditIndex ELSE indexAdd(auditIndex, e)
      /\ storeShut' = storeShut
  BY DEF RecordEntry
<1>3. nextID + 1 \in Nat
  BY <1>1
<1>4. e \in Entry /\ e.id = nextID + 1
  BY <1>3 DEF Entry
<1>. HIDE DEF e
<1>5. /\ auditRows' \in Seq(Entry) /\ Len(auditRows') = nextID + 1
      /\ \A i \in 1 .. Len(auditRows) : auditRows'[i] = auditRows[i]
      /\ auditRows'[Len(auditRows) + 1] = e
  BY <1>1, <1>2, <1>4, AppendProperties
<1>6. \A i \in 1 .. nextID + 1 : i \in 1 .. nextID \/ i = nextID + 1
  BY <1>1
<1>7. nextID + 1 \in 1 .. nextID + 1 /\ \A i \in 1 .. nextID : i \in 1 .. nextID + 1
  BY <1>1
<1>8. (\A i \in 1 .. nextID : auditRows'[i] = auditRows[i]) /\ auditRows'[nextID + 1] = e
  BY <1>1, <1>5
<1>9. \A i \in 1 .. nextID' : auditRows'[i].id = i
  BY <1>1, <1>2, <1>4, <1>6, <1>8
<1>10. ASSUME ~storeShut
       PROVE  /\ log' = auditRows'
              /\ \A x \in Fields : \A v \in Values[x] :
                   auditIndex'[x][v] = {i \in 1 .. nextID' : Value(auditRows'[i], x) = v}
  <2>1. log' = auditRows'
    BY <1>2, <1>10 DEF AuditIInv
  <2>2. auditIndex' = indexAdd(auditIndex, e)
    BY <1>2, <1>10
  <2>3. ASSUME NEW x \in Fields, NEW v \in Values[x]
        PROVE  auditIndex'[x][v] = {i \in 1 .. nextID' : Value(auditRows'[i], x) = v}
    <3>1. auditIndex[x][v] = {i \in 1 .. nextID : Value(auditRows[i], x) = v}
      BY <1>10, <2>3 DEF AuditIInv
    <3>2. auditIndex'[x][v] = IF Value(e, x) = v THEN auditIndex[x][v] \cup {e.id}
                              ELSE auditIndex[x][v]
      BY <2>2, <2>3, IndexAddProperties
    <3>3. ASSUME NEW i PROVE i \in auditIndex'[x][v]
                             <=> i \in 1 .. nextID' /\ Value(auditRows'[i], x) = v
      BY <1>2, <1>4, <1>6, <1>7, <1>8, <3>1, <3>2
    <3>. QED
      BY <3>3
  <2>. QED
    BY <2>1, <2>3
<1>. QED
  BY <1>2, <1>3, <1>5, <1>9, <1>10 DEF AuditIInv

LEMMA AuditInvariance == AuditSpec => []AuditIInv
<1>1. ASSUME AuditIInv, [AuditNext]_auditVars PROVE AuditIInv'
  <2>1. ASSUME NEW a \in Actions, NEW u \in AuditUsers \cup {None}, NEW s \in Statuses,
               RecordEntry(a, u, s)
        PROVE  AuditIInv'
    BY <1>1, <2>1, RecordKeepsIndex
  <2>2. CASE CloseStore
    BY <1>1, <2>2 DEF AuditIInv, CloseStore
  <2>3. CASE UNCHANGED auditVars
    BY <1>1, <2>3 DEF AuditIInv, auditVars
  <2>. QED
    BY <1>1, <2>1, <2>2, <2>3 DEF AuditNext
<1>. QED
  BY <1>1, AuditInitType, PTL DEF AuditSpec

\* The positions of the entries a filter asks for.
FitAt(f) == {i \in 1 .. nextID : Fits(auditRows[i], f)}

\* What a filter asks for in a field is a value the index has.
LEMMA AskedProperties ==
  ASSUME NEW f \in AnyFilter, NEW x \in Asked(f)
  PROVE  x \in Fields /\ FilterOn(f)[x] \in Values[x]
<1>1. /\ f.action \in Actions \cup {None} /\ f.user \in AuditUsers \cup {None}
      /\ f.status \in Statuses \cup {None}
  BY DEF AnyFilter
<1>2. x \in Fields /\ FilterOn(f)[x] # None
  BY DEF Asked
<1>3. /\ FilterOn(f)["action"] = f.action /\ FilterOn(f)["user"] = f.user
      /\ FilterOn(f)["status"] = f.status
  BY DEF FilterOn
<1>4. Values["action"] = Actions /\ Values["user"] = AuditUsers /\ Values["status"] = Statuses
  BY DEF Values
<1>5. x = "action" \/ x = "user" \/ x = "status"
  BY <1>2 DEF Fields
<1>. QED
  BY <1>1, <1>2, <1>3, <1>4, <1>5

LEMMA MemoryQueryIsAPage ==
  ASSUME AuditIInv, ~storeShut, NEW f \in AnyFilter
  PROVE  MemoryQuery(f) = Paged(ElementsAt(auditRows, FitAt(f)), f)
<1>. DEFINE hits == intersectSets(f)
            at == {i \in DOMAIN log : (Asked(f) # {} => log[i].id \in hits) /\ matchTime(log[i], f)}
<1>1. /\ nextID \in Nat /\ auditRows \in Seq(Entry) /\ Len(auditRows) = nextID
      /\ \A i \in 1 .. nextID : auditRows[i].id = i
      /\ log = auditRows
  BY DEF AuditIInv
<1>2. DOMAIN log = 1 .. nextID
  BY <1>1, LenProperties
<1>3. \A x \in Asked(f) : auditIndex[x][FilterOn(f)[x]]
                          = {i \in 1 .. nextID : Value(auditRows[i], x) = FilterOn(f)[x]}
  BY AskedProperties DEF AuditIInv
<1>4. ASSUME NEW i \in 1 .. nextID
      PROVE  i \in hits <=> \A x \in Asked(f) : Value(auditRows[i], x) = FilterOn(f)[x]
  BY <1>3, <1>4 DEF intersectSets
<1>. HIDE DEF hits
<1>5. at = FitAt(f)
  <2>1. ASSUME NEW i \in 1 .. nextID
        PROVE  (Asked(f) # {} => log[i].id \in hits) <=> \A x \in Asked(f) : Value(auditRows[i], x) = FilterOn(f)[x]
    BY <1>1, <1>4
  <2>. QED
    BY <1>1, <1>2, <2>1 DEF FitAt, Fits
<1>6. ASSUME NEW x \in Asked(f), auditIndex[x][FilterOn(f)[x]] = {}
      PROVE  MemoryQuery(f) = Paged(ElementsAt(auditRows, FitAt(f)), f)
  <2>1. \A i \in 1 .. nextID : Value(auditRows[i], x) # FilterOn(f)[x]
    BY <1>3, <1>6
  <2>2. FitAt(f) = {}
    BY <1>6, <2>1 DEF FitAt, Fits
  <2>3. ElementsAt(auditRows, {}) \in Seq(Entry) /\ Len(ElementsAt(auditRows, {})) = 0
    BY <1>1, ElementsAtProperties, FS_EmptySet
  <2>4. ElementsAt(auditRows, {}) = <<>>
    BY <2>3, EmptySeq
  <2>5. Len(<<>>) = 0
    BY EmptySeq
  <2>6. f.offset \in Nat /\ f.limit \in Nat
    BY DEF AnyFilter
  <2>7. Paged(<<>>, f) = <<>>
    BY <2>5, <2>6 DEF Paged
  <2>8. MemoryQuery(f) = <<>>
    BY <1>6 DEF MemoryQuery
  <2>. QED
    BY <2>2, <2>4, <2>7, <2>8
<1>7. ASSUME ~\E x \in Asked(f) : auditIndex[x][FilterOn(f)[x]] = {}
      PROVE  MemoryQuery(f) = Paged(ElementsAt(log, at), f)
  BY <1>7 DEF MemoryQuery, hits
<1>. QED
  BY <1>1, <1>5, <1>6, <1>7

LEMMA MatchingProperties ==
  ASSUME AuditIInv, NEW f
  PROVE  /\ FitAt(f) \subseteq DOMAIN auditRows
         /\ Matching(f) = {auditRows[i] : i \in FitAt(f)}
         /\ Cardinality(Matching(f)) = Cardinality(FitAt(f))
<1>. DEFINE P == FitAt(f)
            M == Matching(f)
            h == [i \in P |-> auditRows[i]]
<1>1. /\ nextID \in Nat /\ auditRows \in Seq(Entry) /\ Len(auditRows) = nextID
      /\ \A i \in 1 .. nextID : auditRows[i].id = i
  BY DEF AuditIInv
<1>2. DOMAIN auditRows = 1 .. nextID
  BY <1>1, LenProperties
<1>3. P \subseteq 1 .. nextID /\ \A i \in P : Fits(auditRows[i], f)
  BY DEF FitAt
<1>4. M = {auditRows[i] : i \in P}
  <2>1. ToSet(auditRows) = {auditRows[i] : i \in 1 .. nextID}
    BY <1>2 DEF ToSet
  <2>. QED
    BY <1>3, <2>1 DEF Matching, FitAt
<1>5. IsFiniteSet(P)
  <2>1. IsFiniteSet(1 .. nextID)
    BY <1>1, FS_Interval
  <2>. QED
    BY <1>3, <2>1, FS_Subset
<1>. HIDE DEF P, M
<1>6. h \in [P -> M] /\ \A m \in M : \E i \in P : h[i] = m
  BY <1>4
<1>7. \A i, j \in P : h[i] = h[j] => i = j
  BY <1>1, <1>3
<1>8. h \in Surjection(P, M)
  BY <1>6 DEF Surjection
<1>9. h \in Injection(P, M)
  BY <1>6, <1>7 DEF Injection, IsInjective
<1>10. Cardinality(M) = Cardinality(P)
  BY <1>5, <1>8, <1>9, FS_Surjection
<1>. QED
  BY <1>2, <1>3, <1>4, <1>10 DEF P, M

\* As many entries as there are between the bounds of the page.
LEMMA MySQLQueryLength ==
  ASSUME AuditIInv, NEW f \in AnyFilter, ~MySQLRefuses(f),
         f.offset < Cardinality(FitAt(f))
  PROVE  LET n == Cardinality(FitAt(f)) IN
         Len(MySQLQuery(f)) = IF f.limit > 0 /\ f.limit < n - f.offset THEN f.limit ELSE n - f.offset
<1>. DEFINE rows == ElementsAt(auditRows, FitAt(f))
            hits == Reverse(rows)
            n == Cardinality(FitAt(f))
            o == f.offset
            l == f.limit
            last == IF l = 0 THEN Len(hits) ELSE Min({o + l, Len(hits)})
<1>1. o \in Nat /\ l \in Nat
  BY DEF AnyFilter
<1>2. auditRows \in Seq(Entry) /\ DOMAIN auditRows = 1 .. nextID
  BY LenProperties DEF AuditIInv
<1>3. FitAt(f) \subseteq DOMAIN auditRows
  BY MatchingProperties
<1>4. n \in Nat /\ rows \in Seq(Entry) /\ Len(rows) = n
  BY <1>2, <1>3, ElementsAtProperties
<1>. HIDE DEF rows
<1>5. hits \in Seq(Entry) /\ Len(hits) = n
  BY <1>4, ReverseProperties
<1>6. MySQLQuery(f) = SubSeq(hits, o + 1, last)
  BY <1>2 DEF MySQLQuery, FitAt, rows
<1>7. o < n /\ (l = 0 => o = 0)
  BY <1>1 DEF MySQLRefuses
<1>. HIDE DEF hits, n, o, l
<1>8. last = IF l = 0 THEN n ELSE IF o + l <= n THEN o + l ELSE n
  BY <1>1, <1>4, <1>5, MinOfTwo
<1>. HIDE DEF last
<1>9. last \in Nat /\ last <= n
  BY <1>1, <1>4, <1>8
<1>10. \A i \in o + 1 .. last : i \in 1 .. n
  BY <1>1, <1>4, <1>9
<1>11. \A i \in 1 .. n : hits[i] \in Entry
  BY <1>5, LenProperties
<1>12. Len(MySQLQuery(f)) = IF o + 1 <= last THEN last - (o + 1) + 1 ELSE 0
  <2>1. o + 1 \in Int /\ last \in Int /\ \A i \in o + 1 .. last : hits[i] \in Entry
    BY <1>1, <1>9, <1>10, <1>11
  <2>. QED
    BY <1>6, <2>1, SubSeqProperties
<1>13. (IF o + 1 <= last THEN last - (o + 1) + 1 ELSE 0) = IF l > 0 /\ l < n - o THEN l ELSE n - o
  BY <1>1, <1>4, <1>7, <1>8
<1>. QED
  BY <1>12, <1>13 DEF n, o, l

\* What QueriesAgree says of one filter, whatever its times and its page.
LEMMA QueriesAgreeOn ==
  ASSUME AuditIInv, ~storeShut, NEW f \in AnyFilter
  PROVE  /\ ToSet(MemoryQuery(f)) \subseteq Matching(f)
         /\ f.offset = 0 /\ f.limit = 0 =>
              ToSet(MemoryQuery(f)) = Matching(f) /\ MySQLQuery(f) = Reverse(MemoryQuery(f))
         /\ ~MySQLRefuses(f) /\ f.offset < Cardinality(Matching(f)) =>
              Len(MemoryQuery(f)) = Len(MySQLQuery(f))
<1>. DEFINE P == FitAt(f)
            S == ElementsAt(auditRows, P)
<1>1. auditRows \in Seq(Entry) /\ DOMAIN auditRows = 1 .. nextID
  BY LenProperties DEF AuditIInv
<1>2. /\ P \subseteq DOMAIN auditRows /\ Matching(f) = {auditRows[i] : i \in P}
      /\ Cardinality(Matching(f)) = Cardinality(P)
  BY MatchingProperties
<1>3. /\ Cardinality(P) \in Nat /\ S \in Seq(Entry) /\ Len(S) = Cardinality(P)
      /\ ToSet(S) = Matching(f)
  BY <1>1, <1>2, ElementsAtProperties
<1>4. MemoryQuery(f) = Paged(S, f)
  BY MemoryQueryIsAPage
<1>5. /\ ToSet(Paged(S, f)) \subseteq ToSet(S)
      /\ f.offset = 0 /\ f.limit = 0 => Paged(S, f) = S
      /\ f.offset < Len(S) =>
           Len(Paged(S, f)) = IF f.limit > 0 /\ f.limit < Len(S) - f.offset
                              THEN f.limit ELSE Len(S) - f.offset
  BY <1>3, PagedProperties
<1>6. ASSUME f.offset = 0, f.limit = 0 PROVE MySQLQuery(f) = Reverse(S)
  <2>1. Reverse(S) \in Seq(Entry) /\ Len(Reverse(S)) = Len(S)
    BY <1>3, ReverseProperties
  <2>2. MySQLQuery(f) = SubSeq(Reverse(S), 1, Len(Reverse(S)))
    BY <1>1, <1>6 DEF MySQLQuery, FitAt
  <2>. QED
    BY <2>1, <2>2, SubSeqFull
<1>7. ASSUME ~MySQLRefuses(f), f.offset < Cardinality(P)
      PROVE  Len(MemoryQuery(f)) = Len(MySQLQuery(f))
  <2>. HIDE DEF S, P
  <2>1. Len(MySQLQuery(f)) = IF f.limit > 0 /\ f.limit < Len(S) - f.offset
                             THEN f.limit ELSE Len(S) - f.offset
    BY <1>3, <1>7, MySQLQueryLength DEF P
  <2>. QED
    BY <1>3, <1>4, <1>5, <1>7, <2>1
<1>. HIDE DEF S, P
<1>. QED
  BY <1>2, <1>3, <1>4, <1>5, <1>6, <1>7

\* The two stores of the audit log answer alike until the memory store is closed,
\* to whatever was recorded: from the index, which has every id under the values
\* of its entry, and a filter's page, which is as long from either end.
THEOREM QueriesAgreeTheorem == AuditSpec => []QueriesAgree
<1>1. ASSUME AuditIInv PROVE QueriesAgree
  <2>1. MaxEntries - 1 \in Nat
    BY AuditAssumption
  <2>2. Filters \subseteq AnyFilter
    BY <2>1 DEF Filters, AnyFilter
  <2>. QED
    BY <1>1, <2>2, QueriesAgreeOn DEF QueriesAgree
<1>. QED
  BY <1>1, AuditInvariance, PTL
=============================================================================
