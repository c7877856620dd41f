----------------------------- MODULE Scheduler -----------------------------
(***************************************************************************)
(* internal/services/scheduler: API calls change the task table and the    *)
(* entries of the in-process cron in separate steps; only the steps on the *)
(* cron and on cronJobs run under Scheduler.mu.  Executions run in         *)
(* goroutines of their own (no Redis, so nothing is queued in asynq).      *)
(***************************************************************************)
EXTENDS Integers, FiniteSets

CONSTANTS
  Tasks,   \* task ids; an auto-increment id is used once
  Callers, \* concurrent API calls
  Configs, \* type, expression, handler: [type, valid, version]
  Ops,     \* API calls in use
  Faults,  \* "crash", "stop": how the process may end; "store": the table fails
  MaxMade, \* bound: entries and timers made for one task
  MaxRuns  \* bound: executions of one task at a time

AllOps == {"add", "update", "delete", "pause", "resume", "run"}
Status == {"active", "paused"}

ASSUME SchedulerAssumption ==
  /\ Configs \subseteq [type : {"cron", "interval", "once"}, valid : BOOLEAN, version : Nat]
  /\ Configs # {}
  /\ Ops \subseteq AllOps /\ Faults \subseteq {"crash", "stop", "store"}
  /\ MaxMade \in Nat /\ MaxRuns \in Nat

VARIABLES
  store,     \* task table: row is "none" (id unused), "here" or "deleted"
  cron,      \* "down" (no process), "running", "stopping", "stopped"
  entries,   \* cron entries: [task, n, cfg], n numbers the entries of a task
  cronJobs,  \* Scheduler.cronJobs: n of the task's entry, 0 if absent
  timers,    \* goroutines of once tasks that still wait: [task, n, cfg]
  made,      \* entries and timers this process made for a task
  call,      \* the API call of every caller
  jobs,      \* executions started by the cron
  loose,     \* executions in goroutines of once tasks and of RunTaskNow
  mixed      \* history: tasks that since the last Start had two calls at once, a
             \* pause or resume, or an update the table refused

vars == <<store, cron, entries, cronJobs, timers, made, call, jobs, loose, mixed>>

AnyConfig == CHOOSE c \in Configs : TRUE
NoTask == [row |-> "none", status |-> "active", cfg |-> AnyConfig]

Absent == ""             \* the status of a request that has none

\* task, newStatus, newCfg: the request, where Absent and {} stand for fields that are
\* absent; status, cfg: the call's copy of the task row.
NoCall == [op |-> "none", at |-> "idle", task |-> 0, status |-> "active", cfg |-> AnyConfig,
           newStatus |-> Absent, newCfg |-> {}]

Init ==
  /\ store = [t \in Tasks |-> NoTask]
  /\ cron = "down"
  /\ entries = {} /\ timers = {}
  /\ cronJobs = [t \in Tasks |-> 0]
  /\ made = [t \in Tasks |-> 0]
  /\ call = [c \in Callers |-> NoCall]
  /\ jobs = [t \in Tasks |-> 0] /\ loose = [t \in Tasks |-> 0]
  /\ mixed = {}

-----------------------------------------------------------------------------
(* scheduleTask, for a function cfgs from the tasks to schedule to configs. *)

Repeats(cfg) == cfg.valid /\ cfg.type \in {"cron", "interval"}
Once(cfg) == cfg.valid /\ cfg.type = "once"

\* An invalid expression, type or handler is an error and schedules nothing; a
\* once task gets a goroutine and no entry; an entry replaces the task's number
\* in cronJobs, whether or not another entry of the task is still in the cron.
ScheduleTasks(cfgs) ==
  LET item(t) == [task |-> t, n |-> made[t] + 1, cfg |-> cfgs[t]]
      rep == {t \in DOMAIN cfgs : Repeats(cfgs[t])}
      one == {t \in DOMAIN cfgs : Once(cfgs[t])}
  IN /\ \A t \in DOMAIN cfgs : made[t] < MaxMade
     /\ entries' = entries \cup {item(t) : t \in rep}
     /\ cronJobs' = [t \in Tasks |-> IF t \in rep THEN made[t] + 1 ELSE cronJobs[t]]
     /\ timers' = timers \cup {item(t) : t \in one}
     /\ made' = [t \in Tasks |-> IF t \in rep \cup one THEN made[t] + 1 ELSE made[t]]

\* ListActiveTasks.
Active == {t \in Tasks : store[t].row = "here" /\ store[t].status = "active"}

\* Start: a new cron, filled from the task table before the routes are served.
Start ==
  /\ cron = "down"
  /\ cron' = "running"
  /\ ScheduleTasks([t \in Active |-> store[t].cfg])
  /\ UNCHANGED <<store, call, jobs, loose, mixed>>

-----------------------------------------------------------------------------
(* API calls. *)

\* Calls for a task that overlap, and pause and resume, are remembered.
CallsOn(t) == {c \in Callers : call[c].op # "none" /\ call[c].task = t}
NowMixed(t, op) ==
  IF op \in {"pause", "resume"} \/ CallsOn(t) # {} THEN mixed \cup {t} ELSE mixed

FirstStep(op) == CASE op = "add" -> "create" [] op = "delete" -> "delete" [] OTHER -> "get"

Begin(c, op, t, newStatus, newCfg) ==
  /\ cron = "running"
  /\ call[c] = NoCall /\ op \in Ops
  /\ IF op = "add" THEN store[t].row = "none" /\ \A d \in Callers : call[d].op = "add" => call[d].task # t
                   ELSE store[t].row # "none"
  /\ op \in {"add", "update", "resume"} => made[t] + Cardinality(CallsOn(t)) < MaxMade
  /\ op = "add" => newCfg # {}
  /\ op \notin {"add", "update"} => newStatus = Absent /\ newCfg = {}
  /\ call' = [call EXCEPT ![c] = [NoCall EXCEPT !.op = op, !.task = t, !.at = FirstStep(op),
                                   !.newStatus = newStatus, !.newCfg = newCfg]]
  /\ mixed' = NowMixed(t, op)
  /\ UNCHANGED <<store, cron, entries, cronJobs, timers, made, jobs, loose>>

Return(c) == call' = [call EXCEPT ![c] = NoCall]
GoTo(c, at) == call' = [call EXCEPT ![c].at = at]

\* The call's copy of the row, with the request's fields in it.
Copy(c, at, status, cfg) ==
  call' = [call EXCEPT ![c] = [NoCall EXCEPT !.op = call[c].op, !.task = call[c].task,
                                             !.at = at, !.status = status, !.cfg = cfg]]

\* The fields of the request that are present replace those of a row.
Patched(c, row) ==
  [row EXCEPT !.status = IF call[c].newStatus = Absent THEN @ ELSE call[c].newStatus,
              !.cfg = IF call[c].newCfg = {} THEN @ ELSE CHOOSE g \in call[c].newCfg : TRUE]

\* store.CreateTask; a task is active unless the request says otherwise.
CreateTask(c) ==
  LET row == Patched(c, [NoTask EXCEPT !.row = "here"])
  IN /\ call[c].at = "create"
     /\ store' = [store EXCEPT ![call[c].task] = row]
     /\ Copy(c, "schedule", row.status, row.cfg)
     /\ UNCHANGED <<cron, entries, cronJobs, timers, made, jobs, loose, mixed>>

\* store.GetTask, and the changes the call makes to its copy of the row.
GetTask(c) ==
  LET t == call[c].task
      op == call[c].op
  IN /\ call[c].at = "get" /\ op # "run"
     /\ \/ /\ store[t].row # "here"
           /\ Return(c)
        \/ /\ store[t].row = "here"
           /\ Copy(c, IF op = "update" THEN "remove" ELSE "store",
                   CASE op = "update" -> Patched(c, store[t]).status
                     [] op = "pause" -> "paused"
                     [] op = "resume" -> "active",
                   Patched(c, store[t]).cfg)
     /\ UNCHANGED <<store, cron, entries, cronJobs, timers, made, jobs, loose, mixed>>

\* Mutated RemoveEntry: the entry leaves the map and stays in the cron.
RemoveEntryFromMap(c) ==
  /\ call[c].at = "remove"
  /\ cronJobs' = [cronJobs EXCEPT ![call[c].task] = 0]
  /\ IF call[c].op = "update" THEN GoTo(c, "store") ELSE Return(c)
  /\ UNCHANGED <<store, cron, entries, timers, made, jobs, loose, mixed>>

\* UpdateTask and DeleteTask under mu: cron.Remove of the entry in cronJobs.
RemoveEntry(c) ==
  LET t == call[c].task
  IN /\ call[c].at = "remove"
     /\ entries' = {e \in entries : ~(e.task = t /\ e.n = cronJobs[t])}
     /\ cronJobs' = [cronJobs EXCEPT ![t] = 0]
     /\ IF call[c].op = "update" THEN GoTo(c, "store") ELSE Return(c)
     /\ UNCHANGED <<store, cron, timers, made, jobs, loose, mixed>>

\* store.UpdateTask: every column from the copy.  For a row that is gone the
\* InMemoryStore returns an error and the MySQLStore does not.
StoreTask(c) ==
  LET t == call[c].task
      lost == store[t].row # "here"
  IN /\ call[c].at = "store"
     /\ store' = IF lost THEN store
                 ELSE [store EXCEPT ![t].status = call[c].status, ![t].cfg = call[c].cfg]
     /\ \/ (call[c].op = "pause" \/ lost) /\ Return(c)
        \/ call[c].op # "pause" /\ GoTo(c, "schedule")
     /\ UNCHANGED <<cron, entries, cronJobs, timers, made, jobs, loose, mixed>>

\* The last part of AddTask, UpdateTask and ResumeTask, under mu.
Reschedule(c) ==
  LET due == IF call[c].status = "active" THEN {call[c].task} ELSE {}
  IN /\ call[c].at = "schedule"
     /\ ScheduleTasks([t \in due |-> call[c].cfg])
     /\ Return(c)
     /\ UNCHANGED <<store, cron, jobs, loose, mixed>>

\* store.DeleteTask; a missing row is an error as for StoreTask.
DeleteTask(c) ==
  LET t == call[c].task
  IN /\ call[c].at = "delete"
     /\ store' = [store EXCEPT ![t] = [NoTask EXCEPT !.row = "deleted"]]
     /\ \/ GoTo(c, "remove")
        \/ store[t].row # "here" /\ Return(c)
     /\ UNCHANGED <<cron, entries, cronJobs, timers, made, jobs, loose, mixed>>

\* RunTaskNow: a goroutine, whatever the task's status and expression; an error
\* if the row is missing or its handler is not registered.
RunTaskNow(c) ==
  LET t == call[c].task
  IN /\ call[c].at = "get" /\ call[c].op = "run"
     /\ \/ (store[t].row # "here" \/ ~store[t].cfg.valid) /\ UNCHANGED loose
        \/ store[t].row = "here" /\ loose[t] < MaxRuns /\ loose' = [loose EXCEPT ![t] = @ + 1]
     /\ Return(c)
     /\ UNCHANGED <<store, cron, entries, cronJobs, timers, made, jobs, mixed>>

\* The table returns an error (a name that is taken, no connection) and so does
\* the call; UpdateTask has removed the cron entry by then.
StoreFails(c) ==
  LET late == call[c].op = "update" /\ call[c].at = "store"
  IN /\ "store" \in Faults
     /\ call[c].at \in {"create", "get", "store", "delete"}
     /\ mixed' = IF late THEN mixed \cup {call[c].task} ELSE mixed
     /\ Return(c)
     /\ UNCHANGED <<store, cron, entries, cronJobs, timers, made, jobs, loose>>

-----------------------------------------------------------------------------
(* Executions. *)

\* Mutated Fire: entries fire until the process ends.
FireAfterStop(e) ==
  /\ cron # "down"
  /\ jobs[e.task] < MaxRuns
  /\ jobs' = [jobs EXCEPT ![e.task] = @ + 1]
  /\ UNCHANGED <<store, cron, entries, cronJobs, timers, made, call, loose, mixed>>

\* The cron runs an entry's job in a goroutine it counts; nothing prevents two
\* executions of one task at a time.
Fire(e) ==
  /\ cron = "running"
  /\ jobs[e.task] < MaxRuns
  /\ jobs' = [jobs EXCEPT ![e.task] = @ + 1]
  /\ UNCHANGED <<store, cron, entries, cronJobs, timers, made, call, loose, mixed>>

\* A once task's delay is over.
TimerFires(m) ==
  /\ loose[m.task] < MaxRuns
  /\ timers' = timers \ {m}
  /\ loose' = [loose EXCEPT ![m.task] = @ + 1]
  /\ UNCHANGED <<store, cron, entries, cronJobs, made, call, jobs, mixed>>

\* case <-s.close.
TimerQuits(m) ==
  /\ cron \in {"stopping", "stopped"}
  /\ timers' = timers \ {m}
  /\ UNCHANGED <<store, cron, entries, cronJobs, made, call, jobs, loose, mixed>>

\* handler.Execute returns, at the latest when its context times out.
JobEnds(t) ==
  /\ jobs[t] > 0
  /\ jobs' = [jobs EXCEPT ![t] = @ - 1]
  /\ UNCHANGED <<store, cron, entries, cronJobs, timers, made, call, loose, mixed>>

LooseEnds(t) ==
  /\ loose[t] > 0
  /\ loose' = [loose EXCEPT ![t] = @ - 1]
  /\ UNCHANGED <<store, cron, entries, cronJobs, timers, made, call, jobs, mixed>>

-----------------------------------------------------------------------------
(* The end of the process. *)

\* Stop: close(s.close) and cron.Stop(), which fires nothing any more ...
Stop ==
  /\ "stop" \in Faults
  /\ cron = "running"
  /\ cron' = "stopping"
  /\ UNCHANGED <<store, entries, cronJobs, timers, made, call, jobs, loose, mixed>>

\* ... then <-ctx.Done(), which waits for the jobs the cron started.
StopReturns ==
  /\ cron = "stopping"
  /\ \A t \in Tasks : jobs[t] = 0
  /\ cron' = "stopped"
  /\ cronJobs' = [t \in Tasks |-> 0]
  /\ UNCHANGED <<store, entries, timers, made, call, jobs, loose, mixed>>

\* The process dies, after Stop or without it: only the task table survives.
ProcessEnds ==
  /\ cron = "stopped" \/ ("crash" \in Faults /\ cron # "down")
  /\ cron' = "down"
  /\ entries' = {} /\ timers' = {}
  /\ cronJobs' = [t \in Tasks |-> 0] /\ made' = [t \in Tasks |-> 0]
  /\ call' = [c \in Callers |-> NoCall]
  /\ jobs' = [t \in Tasks |-> 0] /\ loose' = [t \in Tasks |-> 0]
  /\ mixed' = {}
  /\ UNCHANGED store

CallStep(c) ==
  \/ CreateTask(c) \/ GetTask(c) \/ RemoveEntry(c) \/ StoreTask(c)
  \/ Reschedule(c) \/ DeleteTask(c) \/ RunTaskNow(c) \/ StoreFails(c)

Next ==
  \/ Start \/ Stop \/ StopReturns \/ ProcessEnds
  \/ \E c \in Callers :
       \/ \E op \in Ops, t \in Tasks, s \in Status \cup {Absent}, g \in {{}} \cup {{x} : x \in Configs} :
            Begin(c, op, t, s, g)
       \/ CallStep(c)
  \/ \E e \in entries : Fire(e)
  \/ \E m \in timers : TimerFires(m) \/ TimerQuits(m)
  \/ \E t \in Tasks : JobEnds(t) \/ LooseEnds(t)

Spec == Init /\ [][Next]_vars

\* Handlers are given a context with a timeout and return; Stop, once called,
\* goes on as soon as it may.
FairSpec ==
  /\ Spec
  /\ WF_vars(StopReturns)
  /\ \A t \in Tasks : WF_vars(JobEnds(t))

EntriesOf(t) == {e \in entries : e.task = t}
Quiet(t) == cron = "running" /\ CallsOn(t) = {}

\* The cron follows the task table: between calls an active task with a usable
\* schedule has one entry, with the stored configuration, and every other task
\* has none.  Every Start restores this, also after a crash in the middle of any
\* call, and until the next crash only overlapping calls for the task, a pause or
\* resume, or an update the table refused can break it.
CronFollowsStore ==
  \A t \in Tasks \ mixed :
    Quiet(t) =>
      IF t \in Active /\ Repeats(store[t].cfg)
      THEN \E e \in entries : EntriesOf(t) = {e} /\ e.cfg = store[t].cfg /\ cronJobs[t] = e.n
      ELSE EntriesOf(t) = {}

\* Stop returns, although it waits for every job that is running.
StopTerminates == []<>(cron # "stopping")
=============================================================================
