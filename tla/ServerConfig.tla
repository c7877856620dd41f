---------------------------- MODULE ServerConfig ----------------------------
(***************************************************************************)
(* A change of the configuration file while the server runs: viper's       *)
(* goroutine rebuilds the connection pools of DBManager, then publishes    *)
(* config.changed, on which s0 stops and starts the polling of the         *)
(* HealthChecker.  The modules go on with the pools they got in Init.      *)
(***************************************************************************)
EXTENDS Integers, FiniteSets, Functions

CONSTANTS
  Names,          \* connections that the configuration can name
  Users,          \* modules that keep a pool
  PoolOf,         \* PoolOf[m]: the name module m looks up in Init
  MaxReloads, MaxOutages

ASSUME ServerAssumption == PoolOf \in [Users -> Names] /\ MaxReloads \in Nat

VARIABLES
  enabled,        \* the names enabled in the configuration file
  reachable,      \* the names whose server answers
  release,        \* the version starts with "release": no ping
  pools,          \* DBManager: name -> generation of its pool
  open,           \* the pools that are not closed: <<name, generation>>
  reload,         \* viper's goroutine
  held,           \* held[m]: the generation module m keeps, 0 for none
  answer,         \* answer[m]: how the last query of module m ended
  checks,         \* HealthChecker: the names registered in s0.Init
  cached,         \* its last results
  polling, stopCh, closed, once,   \* its flag, channel, channels closed, closeOnce
  poller,         \* poller[c]: the goroutine of StartPolling that made channel c
  reloads, outages

serverVars == <<enabled, reachable, release, pools, open, reload, held, answer, checks, cached,
                polling, stopCh, closed, once, poller, reloads, outages>>
checkVars == <<checks, cached, polling, stopCh, closed, once, poller>>

Channels == 1..(MaxReloads + 1)
Resting == [pc |-> "idle"]

\* NewPool: outside a release the server has to answer a ping.
OpensPool(R, n) == release \/ n \in R

\* initMySQL, initPostgres, initRedis: an enabled name gets a pool; one that
\* cannot be opened is logged and left out.
Connected(E, R, g) == [n \in {e \in E : OpensPool(R, e)} |-> g]

\* main: InitAll of the pools, then of the modules; with config.watch s0 polls.
ServerInit ==
  /\ enabled \in SUBSET Names /\ reachable \in SUBSET Names /\ release \in BOOLEAN
  /\ pools = Connected(enabled, reachable, 1) /\ open = {<<n, 1>> : n \in DOMAIN pools}
  /\ reload = Resting /\ reloads = 0 /\ outages = 0
  /\ held = [m \in Users |-> IF PoolOf[m] \in DOMAIN pools THEN 1 ELSE 0]
  /\ answer = [m \in Users |-> "none"]
  /\ checks = DOMAIN pools /\ cached = <<>>
  /\ polling = TRUE /\ stopCh = 1 /\ closed = {} /\ once = FALSE
  /\ poller = [c \in Channels |-> IF c = 1 THEN "poll" ELSE "none"]

-----------------------------------------------------------------------------
(* Reload: DBManager.mu is held from the first step to the last. *)

MuFree == reload.pc \notin {"build", "close"}

\* The file changes; Validate has no validator registered, so that it passes.
reloadConfig(E) ==
  /\ reload.pc = "idle" /\ reloads < MaxReloads /\ reloads' = reloads + 1
  /\ enabled' = E
  /\ reload' = [pc |-> "build", old |-> {<<n, pools[n]>> : n \in DOMAIN pools}]
  /\ pools' = <<>>
  /\ UNCHANGED <<reachable, release, open, held, answer, outages, checkVars>>

Rebuild ==
  /\ reload.pc = "build"
  /\ pools' = Connected(enabled, reachable, reloads + 1)
  /\ open' = open \cup {<<n, reloads + 1>> : n \in DOMAIN pools'}
  /\ reload' = [reload EXCEPT !.pc = "close"]
  /\ UNCHANGED <<enabled, reachable, release, held, answer, reloads, outages, checkVars>>

\* Mutated CloseOld: the pools of names that are gone from the file stay open.
CloseOldOfSameName ==
  /\ reload.pc = "close"
  /\ open' = open \ {p \in reload.old : p[1] \in DOMAIN pools}
  /\ reload' = [pc |-> "stop"]
  /\ UNCHANGED <<enabled, reachable, release, pools, held, answer, reloads, outages, checkVars>>

\* The old pools are closed, whoever keeps one.
CloseOld ==
  /\ reload.pc = "close"
  /\ open' = open \ reload.old
  /\ reload' = [pc |-> "stop"]
  /\ UNCHANGED <<enabled, reachable, release, pools, held, answer, reloads, outages, checkVars>>

\* A module's query: what it keeps may be closed; transactions under way end well.
Query(m) ==
  /\ held[m] # 0
  /\ answer' = [answer EXCEPT ![m] =
       IF <<PoolOf[m], held[m]>> \notin open THEN "closed"
       ELSE IF PoolOf[m] \in reachable THEN "ok" ELSE "down"]
  /\ UNCHANGED <<enabled, reachable, release, pools, open, reload, held, reloads, outages, checkVars>>

Outage(R) ==
  /\ outages < MaxOutages /\ R # reachable /\ outages' = outages + 1 /\ reachable' = R
  /\ UNCHANGED <<enabled, release, pools, open, reload, held, answer, reloads, checkVars>>

-----------------------------------------------------------------------------
(* HealthChecker *)

\* Stop, from onConfigChanged: closeOnce closes one channel in a checker's life.
Stop ==
  /\ reload.pc = "stop"
  /\ closed' = IF once THEN closed ELSE closed \cup {stopCh}
  /\ once' = TRUE
  /\ reload' = [pc |-> "start"]
  /\ UNCHANGED <<enabled, reachable, release, pools, open, held, answer, checks, cached, polling, stopCh,
                 poller, reloads, outages>>

\* Mutated StartPolling: whether or not it polls already.
StartPollingAlways ==
  /\ reload.pc = "start" /\ reload' = Resting
  /\ polling' = TRUE /\ stopCh' = stopCh + 1
  /\ poller' = [poller EXCEPT ![stopCh + 1] = "poll"]
  /\ UNCHANGED <<enabled, reachable, release, pools, open, held, answer, checks, cached, closed, once,
                 reloads, outages>>

\* StartPolling right after: while the old goroutine has not seen the closed
\* channel it is still polling, and nothing is started.
StartPolling ==
  /\ reload.pc = "start" /\ reload' = Resting
  /\ IF polling THEN UNCHANGED <<polling, stopCh, poller>>
     ELSE /\ polling' = TRUE /\ stopCh' = stopCh + 1
          /\ poller' = [poller EXCEPT ![stopCh + 1] = "poll"]
  /\ UNCHANGED <<enabled, reachable, release, pools, open, held, answer, checks, cached, closed, once,
                 reloads, outages>>

\* Health of one name: a check reports down what the manager no longer has.
Health(n) == IF n \in DOMAIN pools /\ n \in reachable THEN "up" ELSE "down"

\* pollOnce: Health waits for the manager's lock.
pollOnce(c) ==
  /\ poller[c] = "poll" /\ MuFree
  /\ cached' = [n \in checks |-> Health(n)]
  /\ poller' = [poller EXCEPT ![c] = "wait"]
  /\ UNCHANGED <<enabled, reachable, release, pools, open, reload, held, answer, checks, polling, stopCh,
                 closed, once, reloads, outages>>

\* The ticker; the channel is read from the checker at every turn.
Tick(c) ==
  /\ poller[c] = "wait" /\ poller' = [poller EXCEPT ![c] = "poll"]
  /\ UNCHANGED <<enabled, reachable, release, pools, open, reload, held, answer, checks, cached, polling,
                 stopCh, closed, once, reloads, outages>>

PollerEnds(c) ==
  /\ poller[c] = "wait" /\ stopCh \in closed
  /\ polling' = FALSE /\ poller' = [poller EXCEPT ![c] = "gone"]
  /\ UNCHANGED <<enabled, reachable, release, pools, open, reload, held, answer, checks, cached, stopCh,
                 closed, once, reloads, outages>>

ServerNext ==
  \/ \E E \in SUBSET Names : reloadConfig(E)
  \/ Rebuild \/ CloseOld \/ Stop \/ StartPolling
  \/ \E R \in SUBSET Names : Outage(R)
  \/ \E m \in Users : Query(m)
  \/ \E c \in Channels : pollOnce(c) \/ Tick(c) \/ PollerEnds(c)

ServerSpec == ServerInit /\ [][ServerNext]_serverVars

-----------------------------------------------------------------------------
\* Outside a Reload the pools that are open are the ones the manager has: no
\* change of the configuration leaks one, whatever names come and go.
OpenPoolsAreNamed ==
  reload.pc \notin {"build", "close"} => open = {<<n, pools[n]>> : n \in DOMAIN pools}

\* However Stop and StartPolling meet the goroutine that polls, there is never a
\* second one, and the flag says whether there is one.
OnePoller ==
  /\ Cardinality({c \in Channels : poller[c] \in {"poll", "wait"}}) <= 1
  /\ polling = \E c \in Channels : poller[c] \in {"poll", "wait"}

\* A change of the configuration restarts the polling: when the handler is done
\* and no goroutine is about to end, one polls.
PollingRestarts ==
  reload.pc = "idle" /\ ~(\E c \in Channels : poller[c] \in {"poll", "wait"} /\ stopCh \in closed)
    => polling
=============================================================================
