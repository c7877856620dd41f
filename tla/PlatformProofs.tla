--------------------------- MODULE PlatformProofs ---------------------------
(***************************************************************************)
(* Services of the platform that share no state: the connection pools and  *)
(* the health poller under a change of the configuration, feature flags,   *)
(* the tables of goodser's administrators, the log files, discovery,       *)
(* schema migrations, key rotation and the AI service.                     *)
(***************************************************************************)
EXTENDS ServerConfig, FeatureFlags, GoodserAdmin, LogRotation, Discovery,
        SchemaMigrations, KeyRotation, AIRouter, FiniteSetTheorems, TLAPS

-----------------------------------------------------------------------------
(* DBManager.Reload and the HealthChecker *)

\* The pools that the manager has.
Named == {<<n, pools[n]>> : n \in DOMAIN pools}

Reloading == reload.pc \in {"build", "close"}

\* A Reload takes the pools away, adds those of a later generation, then closes
\* the ones it took away.
ReloadOwns ==
  /\ reload.pc \in {"idle", "build", "close", "stop", "start"}
  /\ Reloading => reload = [pc |-> reload.pc, old |-> reload.old]
  /\ reload.pc = "build" => pools = <<>> /\ open = reload.old
  /\ reload.pc = "close" => open = reload.old \cup Named /\ reload.old \cap Named = {}
  /\ ~Reloading => open = Named

\* Every reload brings one generation.
Generations ==
  /\ reloads \in 0 .. MaxReloads
  /\ \A n \in DOMAIN pools : pools[n] \in 1 .. reloads + 1
  /\ Reloading => \A p \in reload.old : p[2] \in 1 .. reloads

Polls(c) == poller[c] \in {"poll", "wait"}

\* Only the goroutine of the channel in use polls; one channel for every reload.
OnlyLastPolls ==
  /\ polling \in BOOLEAN /\ stopCh \in Channels
  /\ poller \in [Channels -> {"none", "poll", "wait", "gone"}]
  /\ \A c \in Channels : Polls(c) => c = stopCh
  /\ polling <=> Polls(stopCh)
  /\ stopCh <= reloads + 1
  /\ reload.pc # "idle" => stopCh <= reloads

ServerIInv == ReloadOwns /\ Generations /\ OnlyLastPolls

\* The server after main has started everything.
LEMMA ServerInitIInv == ServerInit => ServerIInv
<1>. SUFFICES ASSUME ServerInit PROVE ServerIInv
  OBVIOUS
<1>1. reload.pc = "idle"
  BY DEF ServerInit, Resting
<1>2. \A n \in DOMAIN pools : pools[n] = 1
  BY DEF ServerInit, Connected
<1>3. ReloadOwns
  BY <1>1, <1>2 DEF ServerInit, ReloadOwns, Reloading, Named
<1>4. Generations
  BY <1>1, <1>2, ServerAssumption DEF ServerInit, Generations, Reloading
<1>5. OnlyLastPolls
  BY <1>1, ServerAssumption DEF ServerInit, OnlyLastPolls, Polls, Channels
<1>. QED
  BY <1>3, <1>4, <1>5 DEF ServerIInv

\* A step that leaves the manager and the poller alone.
LEMMA ServerFrame ==
  ASSUME ServerIInv, reload' = reload, pools' = pools, open' = open, reloads' = reloads,
         polling' = polling, stopCh' = stopCh,
         poller' \in [Channels -> {"none", "poll", "wait", "gone"}],
         \A c \in Channels : Polls(c)' <=> Polls(c)
  PROVE  ServerIInv'
<1>1. ReloadOwns'
  BY DEF ServerIInv, ReloadOwns, Reloading, Named
<1>2. Generations'
  BY DEF ServerIInv, Generations, Reloading
<1>3. OnlyLastPolls'
  BY DEF ServerIInv, OnlyLastPolls
<1>. QED
  BY <1>1, <1>2, <1>3 DEF ServerIInv

\* The steps of a reload, of the pollers and of the modules.
LEMMA ServerNextIInv == ServerIInv /\ [ServerNext]_serverVars => ServerIInv'
<1>. SUFFICES ASSUME ServerIInv, [ServerNext]_serverVars PROVE ServerIInv'
  OBVIOUS
<1>0. /\ reloads \in Int /\ stopCh \in Int /\ MaxReloads \in Nat
      /\ poller \in [Channels -> {"none", "poll", "wait", "gone"}]
  BY ServerAssumption DEF ServerIInv, Generations, OnlyLastPolls, Channels
<1>1. ASSUME NEW E \in SUBSET Names, reloadConfig(E) PROVE ServerIInv'
  <2>1. /\ reload.pc = "idle" /\ reloads < MaxReloads /\ reloads' = reloads + 1
        /\ reload' = [pc |-> "build", old |-> Named] /\ pools' = <<>> /\ open' = open
        /\ polling' = polling /\ stopCh' = stopCh /\ poller' = poller
    BY <1>1 DEF reloadConfig, checkVars, Named
  <2>2. reload'.pc = "build" /\ reload'.old = Named /\ open = Named
    BY <2>1 DEF ServerIInv, ReloadOwns, Reloading
  <2>3. ReloadOwns'
    BY <2>1, <2>2 DEF ReloadOwns, Reloading
  <2>4. \A p \in Named : p[2] \in 1 .. reloads'
    BY <2>1 DEF ServerIInv, Generations, Named
  <2>5. Generations'
    BY <1>0, <2>1, <2>2, <2>4 DEF ServerIInv, Generations
  <2>6. OnlyLastPolls'
    BY <1>0, <2>1, <2>2 DEF ServerIInv, OnlyLastPolls, Polls
  <2>. QED
    BY <2>3, <2>5, <2>6 DEF ServerIInv
<1>2. ASSUME Rebuild PROVE ServerIInv'
  <2>1. /\ reload.pc = "build" /\ reload' = [reload EXCEPT !.pc = "close"]
        /\ reloads' = reloads /\ polling' = polling /\ stopCh' = stopCh /\ poller' = poller
        /\ \A n \in DOMAIN pools' : pools'[n] = reloads + 1
        /\ open' = open \cup {<<n, reloads + 1>> : n \in DOMAIN pools'}
    BY <1>2 DEF Rebuild, checkVars, Connected
  <2>2. reload'.pc = "close" /\ reload'.old = reload.old /\ reload' = [pc |-> "close", old |-> reload.old]
    BY <2>1 DEF ServerIInv, ReloadOwns, Reloading
  <2>3. open = reload.old /\ \A p \in reload.old : p[2] \in 1 .. reloads
    BY <2>1 DEF ServerIInv, ReloadOwns, Generations, Reloading
  <2>4. Named' = {<<n, reloads + 1>> : n \in DOMAIN pools'}
    BY <2>1 DEF Named
  <2>5. reload.old \cap Named' = {}
    BY <1>0, <2>3, <2>4
  <2>6. ReloadOwns'
    BY <2>1, <2>2, <2>3, <2>4, <2>5 DEF ReloadOwns, Reloading
  <2>7. Generations'
    BY <1>0, <2>1, <2>2, <2>3 DEF ServerIInv, Generations
  <2>8. OnlyLastPolls'
    BY <2>1, <2>2 DEF ServerIInv, OnlyLastPolls, Polls
  <2>. QED
    BY <2>6, <2>7, <2>8 DEF ServerIInv
<1>3. ASSUME CloseOld PROVE ServerIInv'
  <2>1. /\ reload.pc = "close" /\ reload'.pc = "stop" /\ open' = open \ reload.old /\ pools' = pools
        /\ reloads' = reloads /\ polling' = polling /\ stopCh' = stopCh /\ poller' = poller
    BY <1>3 DEF CloseOld, checkVars
  <2>2. open' = Named'
    BY <2>1 DEF ServerIInv, ReloadOwns, Named
  <2>. QED
    BY <2>1, <2>2 DEF ServerIInv, ReloadOwns, Reloading, Generations, OnlyLastPolls, Polls
<1>4. ASSUME Stop PROVE ServerIInv'
  <2>1. /\ reload.pc = "stop" /\ reload'.pc = "start" /\ open' = open /\ pools' = pools
        /\ reloads' = reloads /\ polling' = polling /\ stopCh' = stopCh /\ poller' = poller
    BY <1>4 DEF Stop
  <2>. QED
    BY <2>1 DEF ServerIInv, ReloadOwns, Reloading, Named, Generations, OnlyLastPolls, Polls
<1>5. ASSUME StartPolling PROVE ServerIInv'
  <2>1. /\ reload.pc = "start" /\ reload'.pc = "idle" /\ open' = open /\ pools' = pools
        /\ reloads' = reloads
    BY <1>5 DEF StartPolling, Resting
  <2>2. ReloadOwns' /\ Generations'
    BY <2>1 DEF ServerIInv, ReloadOwns, Reloading, Named, Generations
  <2>3. CASE polling
    BY <1>0, <1>5, <2>1, <2>2, <2>3 DEF StartPolling, ServerIInv, OnlyLastPolls, Polls
  <2>4. CASE ~polling
    <3>1. /\ polling' = TRUE /\ stopCh' = stopCh + 1
          /\ poller' = [poller EXCEPT ![stopCh + 1] = "poll"]
      BY <1>5, <2>4 DEF StartPolling
    <3>2. stopCh + 1 \in Channels /\ stopCh + 1 <= reloads + 1
      BY <1>0, <2>1 DEF ServerIInv, OnlyLastPolls, Generations, Channels
    <3>3. \A c \in Channels : ~Polls(c)
      BY <2>4 DEF ServerIInv, OnlyLastPolls
    <3>4. \A c \in Channels : poller'[c] = IF c = stopCh + 1 THEN "poll" ELSE poller[c]
      BY <1>0, <3>1
    <3>. QED
      BY <1>0, <2>1, <2>2, <3>1, <3>2, <3>3, <3>4 DEF ServerIInv, OnlyLastPolls, Polls
  <2>. QED
    BY <2>3, <2>4 DEF ServerIInv, OnlyLastPolls
<1>6. ASSUME NEW R \in SUBSET Names, Outage(R) PROVE ServerIInv'
  BY <1>0, <1>6, ServerFrame DEF Outage, checkVars, Polls
<1>7. ASSUME NEW m \in Users, Query(m) PROVE ServerIInv'
  BY <1>0, <1>7, ServerFrame DEF Query, checkVars, Polls
<1>8. ASSUME NEW c \in Channels, pollOnce(c) PROVE ServerIInv'
  BY <1>0, <1>8, ServerFrame DEF pollOnce, Polls
<1>9. ASSUME NEW c \in Channels, Tick(c) PROVE ServerIInv'
  BY <1>0, <1>9, ServerFrame DEF Tick, Polls
<1>10. ASSUME NEW c \in Channels, PollerEnds(c) PROVE ServerIInv'
  <2>1. /\ Polls(c) /\ polling' = FALSE /\ poller' = [poller EXCEPT ![c] = "gone"]
        /\ reload' = reload /\ open' = open /\ pools' = pools /\ reloads' = reloads /\ stopCh' = stopCh
    BY <1>10 DEF PollerEnds, Polls
  <2>2. c = stopCh
    BY <2>1 DEF ServerIInv, OnlyLastPolls
  <2>3. \A d \in Channels : poller'[d] = IF d = c THEN "gone" ELSE poller[d]
    BY <1>0, <2>1
  <2>4. \A d \in Channels : ~Polls(d)'
    BY <2>2, <2>3 DEF ServerIInv, OnlyLastPolls, Polls
  <2>5. OnlyLastPolls'
    BY <1>0, <2>1, <2>4 DEF ServerIInv, OnlyLastPolls
  <2>6. ReloadOwns' /\ Generations'
    BY <2>1 DEF ServerIInv, ReloadOwns, Reloading, Named, Generations
  <2>. QED
    BY <2>5, <2>6 DEF ServerIInv
<1>11. CASE UNCHANGED serverVars
  BY <1>0, <1>11, ServerFrame DEF serverVars, Polls
<1>. QED
  BY <1>1, <1>2, <1>3, <1>4, <1>5, <1>6, <1>7, <1>8, <1>9, <1>10, <1>11 DEF ServerNext

\* No change of the configuration leaks a pool or closes one that the manager
\* hands out, for any names that come and go (DBManager.Reload).
THEOREM OpenPoolsAreNamedTheorem == ServerSpec => []OpenPoolsAreNamed
<1>1. ServerIInv => OpenPoolsAreNamed
  BY DEF ServerIInv, ReloadOwns, Reloading, Named, OpenPoolsAreNamed
<1>. QED
  BY <1>1, ServerInitIInv, ServerNextIInv, PTL DEF ServerSpec

\* However Stop and StartPolling meet the goroutine that polls, at most one polls,
\* and the flag tells whether one does (HealthChecker).
THEOREM OnePollerTheorem == ServerSpec => []OnePoller
<1>1. ServerIInv => OnePoller
  <2>. SUFFICES ASSUME ServerIInv PROVE OnePoller
    OBVIOUS
  <2>. DEFINE L == {c \in Channels : poller[c] \in {"poll", "wait"}}
  <2>1. L \subseteq {stopCh} /\ stopCh \in Channels /\ polling \in BOOLEAN
    BY DEF ServerIInv, OnlyLastPolls, Polls
  <2>2. IsFiniteSet({stopCh}) /\ Cardinality({stopCh}) = 1
    BY FS_Singleton
  <2>3. Cardinality(L) <= 1
    BY <2>1, <2>2, FS_Subset
  <2>4. polling <=> \E c \in Channels : poller[c] \in {"poll", "wait"}
    BY <2>1 DEF ServerIInv, OnlyLastPolls, Polls
  <2>. QED
    BY <2>1, <2>3, <2>4 DEF OnePoller
<1>. QED
  BY <1>1, ServerInitIInv, ServerNextIInv, PTL DEF ServerSpec

-----------------------------------------------------------------------------
(* Feature flags *)

\* A map without an entry.
LEMMA DropEntry ==
  ASSUME NEW f, NEW x
  PROVE  /\ DOMAIN Restrict(f, DOMAIN f \ {x}) = DOMAIN f \ {x}
         /\ \A y \in DOMAIN f \ {x} : Restrict(f, DOMAIN f \ {x})[y] = f[y]
BY DEF Restrict

FlagCall == [pc : {"off", "get", "save", "delete"}, name : Flags \cup {NoName},
             row : Flags \cup {NoName}, on : BOOLEAN, alone : BOOLEAN]

FlagTypes ==
  /\ fcall \in [Callers -> FlagCall]
  /\ \A p \in Callers : fcall[p].pc = "off" <=> fcall[p].name = NoName
  /\ \A n \in DOMAIN flags : flags[n] \in BOOLEAN
  /\ \A n \in DOMAIN saved : saved[n] \in BOOLEAN

\* Memory and store have the same to say of n.
SameFlag(n) ==
  /\ n \in DOMAIN flags <=> n \in DOMAIN saved
  /\ n \in DOMAIN flags => flags[n] = saved[n]

\* A call that is alone on its name will write what memory has.
AloneWrites(p) ==
  fcall[p].pc # "off" /\ fcall[p].alone =>
    /\ \A q \in Callers \ {p} : fcall[q].name # fcall[p].name
    /\ fcall[p].pc = "get" => fcall[p].name \in DOMAIN flags
    /\ fcall[p].pc = "save" => /\ fcall[p].row = fcall[p].name /\ fcall[p].name \in DOMAIN flags
                               /\ fcall[p].on = flags[fcall[p].name]
    /\ fcall[p].pc = "delete" => fcall[p].name \notin DOMAIN flags

\* What a call that is not alone writes stays within its own name.
WritesOwn(p) == fcall[p].pc = "save" => fcall[p].row \in {fcall[p].name, NoName}

Settled == \A n \in Flags : ~Busy(n) /\ n \notin doubtful => SameFlag(n)

FlagIInv == FlagTypes /\ Settled /\ \A p \in Callers : AloneWrites(p) /\ WritesOwn(p)

\* A change of memory that opens a call on n.
LEMMA StartCallIInv ==
  ASSUME FlagIInv, NEW p \in Callers, NEW n \in Flags, NEW pc \in {"get", "save", "delete"},
         NEW row \in Flags \cup {NoName}, NEW on \in BOOLEAN, StartCall(p, n, pc, row, on),
         \A m \in DOMAIN flags' : flags'[m] \in BOOLEAN,
         \A m \in Flags \ {n} : /\ m \in DOMAIN flags' <=> m \in DOMAIN flags
                                /\ m \in DOMAIN flags => flags'[m] = flags[m],
         pc = "get" => n \in DOMAIN flags',
         pc = "save" => row = n /\ n \in DOMAIN flags' /\ on = flags'[n],
         pc = "delete" => n \notin DOMAIN flags'
  PROVE  FlagIInv'
<1>. DEFINE call == [pc |-> pc, name |-> n, row |-> row, on |-> on, alone |-> ~Busy(n)]
<1>1. Busy(n) \in BOOLEAN
  BY DEF Busy
<1>2. call \in FlagCall
  BY <1>1 DEF FlagCall
<1>3. /\ call.pc = pc /\ call.name = n /\ call.row = row /\ call.on = on
      /\ call.alone = ~Busy(n)
  OBVIOUS
<1>4. /\ fcall[p].pc = "off" /\ saved' = saved
      /\ fcall' = [q \in Callers |-> IF q = p THEN call
                                     ELSE IF fcall[q].name = n THEN [fcall[q] EXCEPT !.alone = FALSE]
                                     ELSE fcall[q]]
      /\ doubtful' = IF Busy(n) THEN doubtful \cup {n} ELSE doubtful
  BY DEF StartCall
<1>5. fcall'[p] = call
  BY <1>4
<1>. HIDE DEF call
<1>6. ASSUME NEW q \in Callers \ {p}
      PROVE /\ fcall'[q] \in FlagCall /\ fcall'[q].pc = fcall[q].pc /\ fcall'[q].name = fcall[q].name
            /\ fcall'[q].row = fcall[q].row /\ fcall'[q].on = fcall[q].on
            /\ fcall[q].name = n => fcall'[q].alone = FALSE
            /\ fcall[q].name # n => fcall'[q].alone = fcall[q].alone
  <2>1. fcall[q] \in FlagCall
    BY DEF FlagIInv, FlagTypes
  <2>2. fcall'[q] = IF fcall[q].name = n THEN [fcall[q] EXCEPT !.alone = FALSE] ELSE fcall[q]
    BY <1>4
  <2>. QED
    BY <2>1, <2>2 DEF FlagCall
<1>7. FlagTypes'
  <2>1. fcall' \in [Callers -> FlagCall]
    <3>1. \A q \in Callers : fcall'[q] \in FlagCall
      BY <1>2, <1>5, <1>6
    <3>. QED
      BY <1>4, <3>1
  <2>2. \A q \in Callers : fcall'[q].pc = "off" <=> fcall'[q].name = NoName
    BY <1>3, <1>5, <1>6, FlagsAssumption DEF FlagIInv, FlagTypes
  <2>. QED
    BY <1>4, <2>1, <2>2 DEF FlagIInv, FlagTypes
<1>8. Settled'
  <2>1. SUFFICES ASSUME NEW m \in Flags, ~Busy(m)', m \notin doubtful' PROVE SameFlag(m)'
    BY DEF Settled
  <2>2. m # n
    BY <1>3, <1>5, <2>1 DEF Busy
  <2>3. fcall[p].name = NoName
    BY <1>4 DEF FlagIInv, FlagTypes
  <2>4. ~Busy(m)
    BY <1>6, <2>1, <2>3, FlagsAssumption DEF Busy
  <2>5. SameFlag(m)
    BY <1>4, <2>1, <2>4 DEF FlagIInv, Settled
  <2>. QED
    BY <1>4, <2>2, <2>5 DEF SameFlag
<1>9. AloneWrites(p)' /\ WritesOwn(p)'
  <2>1. ASSUME ~Busy(n), NEW q \in Callers \ {p} PROVE fcall'[q].name # n
    BY <1>6, <2>1 DEF Busy
  <2>. QED
    BY <1>3, <1>5, <2>1 DEF AloneWrites, WritesOwn
<1>10. ASSUME NEW q \in Callers \ {p} PROVE AloneWrites(q)' /\ WritesOwn(q)'
  <2>1. AloneWrites(q) /\ WritesOwn(q) /\ fcall[q].name \in Flags \cup {NoName}
        /\ (fcall[q].pc = "off" <=> fcall[q].name = NoName)
    BY DEF FlagIInv, FlagTypes, FlagCall
  <2>2. WritesOwn(q)'
    BY <1>6, <2>1 DEF WritesOwn
  <2>3. CASE fcall[q].name = n
    BY <1>6, <2>2, <2>3 DEF AloneWrites
  <2>4. CASE fcall[q].name # n
    <3>1. ASSUME NEW r \in Callers \ {q}, fcall[r].name # fcall[q].name PROVE fcall'[r].name # fcall[q].name
      BY <1>3, <1>5, <1>6, <2>4, <3>1
    <3>2. SUFFICES ASSUME fcall'[q].pc # "off", fcall'[q].alone
                   PROVE /\ \A r \in Callers \ {q} : fcall'[r].name # fcall'[q].name
                         /\ fcall'[q].pc = "get" => fcall'[q].name \in DOMAIN flags'
                         /\ fcall'[q].pc = "save" => /\ fcall'[q].row = fcall'[q].name
                                                    /\ fcall'[q].name \in DOMAIN flags'
                                                    /\ fcall'[q].on = flags'[fcall'[q].name]
                         /\ fcall'[q].pc = "delete" => fcall'[q].name \notin DOMAIN flags'
      BY <2>2 DEF AloneWrites
    <3>3. fcall[q].pc # "off" /\ fcall[q].alone
      BY <1>6, <2>4, <3>2
    <3>4. fcall[q].name \in Flags \ {n}
      BY <2>1, <2>4, <3>3
    <3>5. /\ \A r \in Callers \ {q} : fcall[r].name # fcall[q].name
          /\ fcall[q].pc = "get" => fcall[q].name \in DOMAIN flags
          /\ fcall[q].pc = "save" => /\ fcall[q].row = fcall[q].name /\ fcall[q].name \in DOMAIN flags
                                     /\ fcall[q].on = flags[fcall[q].name]
          /\ fcall[q].pc = "delete" => fcall[q].name \notin DOMAIN flags
      BY <2>1, <3>3 DEF AloneWrites
    <3>6. /\ fcall[q].name \in DOMAIN flags' <=> fcall[q].name \in DOMAIN flags
          /\ fcall[q].name \in DOMAIN flags => flags'[fcall[q].name] = flags[fcall[q].name]
      BY <3>4
    <3>. QED
      BY <1>6, <3>1, <3>5, <3>6
  <2>. QED
    BY <2>3, <2>4
<1>. QED
  BY <1>7, <1>8, <1>9, <1>10 DEF FlagIInv

\* The end of a call, with what it leaves in the store.
LEMMA EndIInv ==
  ASSUME FlagIInv, NEW p \in Callers, fcall[p].pc # "off", NEW n, n = fcall[p].name, flags' = flags,
         fcall' = [fcall EXCEPT ![p] = NoCall],
         \A m \in DOMAIN saved' : saved'[m] \in BOOLEAN,
         \A m \in Flags : m # n =>
           /\ m \in DOMAIN saved' <=> m \in DOMAIN saved
           /\ m \in DOMAIN saved => saved'[m] = saved[m]
           /\ m \notin doubtful' => m \notin doubtful,
         n \notin doubtful' => SameFlag(n)'
  PROVE  FlagIInv'
<1>1. fcall \in [Callers -> FlagCall]
  BY DEF FlagIInv, FlagTypes
<1>2. fcall'[p] = NoCall /\ \A q \in Callers \ {p} : fcall'[q] = fcall[q]
  BY <1>1
<1>3. NoCall \in FlagCall /\ NoCall.pc = "off" /\ NoCall.name = NoName
  BY DEF NoCall, FlagCall
<1>4. FlagTypes'
  <2>1. fcall' \in [Callers -> FlagCall]
    BY <1>1, <1>3
  <2>. QED
    BY <1>2, <1>3, <2>1 DEF FlagIInv, FlagTypes
<1>5. Settled'
  <2>1. SUFFICES ASSUME NEW m \in Flags, ~Busy(m)', m \notin doubtful' PROVE SameFlag(m)'
    BY DEF Settled
  <2>2. CASE m = n
    BY <2>1, <2>2
  <2>3. CASE m # n
    <3>1. ~Busy(m)
      BY <1>2, <2>1, <2>3 DEF Busy
    <3>2. SameFlag(m)
      BY <2>1, <2>3, <3>1 DEF FlagIInv, Settled
    <3>. QED
      BY <2>3, <3>2 DEF SameFlag
  <2>. QED
    BY <2>2, <2>3
<1>6. ASSUME NEW q \in Callers PROVE AloneWrites(q)' /\ WritesOwn(q)'
  <2>1. CASE q = p
    BY <1>2, <1>3, <2>1 DEF AloneWrites, WritesOwn
  <2>2. CASE q # p
    <3>1. AloneWrites(q) /\ WritesOwn(q) /\ (fcall[q].pc # "off" => fcall[q].name # NoName)
      BY DEF FlagIInv, FlagTypes
    <3>. QED
      BY <1>2, <1>3, <2>2, <3>1 DEF AloneWrites, WritesOwn
  <2>. QED
    BY <2>1, <2>2
<1>. QED
  BY <1>4, <1>5, <1>6 DEF FlagIInv

\* Every operation of the manager.
LEMMA FlagNextIInv == FlagIInv /\ [FlagsNext]_flagVars => FlagIInv'
<1>. SUFFICES ASSUME FlagIInv, [FlagsNext]_flagVars PROVE FlagIInv'
  OBVIOUS
<1>0. /\ \A m \in DOMAIN flags : flags[m] \in BOOLEAN
      /\ \A m \in DOMAIN saved : saved[m] \in BOOLEAN
      /\ \A p \in Callers : fcall[p] \in FlagCall
      /\ \A p \in Callers : fcall[p].pc = "off" <=> fcall[p].name = NoName
      /\ NoName \notin Flags
  BY FlagsAssumption DEF FlagIInv, FlagTypes
<1>1. ASSUME NEW p \in Callers, NEW n \in Flags, NEW on \in BOOLEAN, SetFlag(p, n, on) PROVE FlagIInv'
  <2>1. n \in DOMAIN flags /\ flags' = [flags EXCEPT ![n] = on] /\ StartCall(p, n, "get", NoName, FALSE)
    BY <1>1 DEF SetFlag
  <2>2. DOMAIN flags' = DOMAIN flags /\ \A m \in DOMAIN flags : flags'[m] = IF m = n THEN on ELSE flags[m]
    BY <2>1
  <2>. QED
    BY <1>0, <2>1, <2>2, StartCallIInv
<1>2. ASSUME NEW p \in Callers, NEW n \in Flags, NEW on \in BOOLEAN, NEW u \in BOOLEAN,
             RegisterFlag(p, n, on, u)
      PROVE FlagIInv'
  <2>1. flags' = WithEntry(flags, n, on) /\ StartCall(p, n, "save", n, on)
    BY <1>2 DEF RegisterFlag
  <2>2. /\ DOMAIN flags' = {n} \cup DOMAIN flags /\ flags'[n] = on
        /\ \A m \in DOMAIN flags : m # n => flags'[m] = flags[m]
    BY <2>1 DEF WithEntry
  <2>. QED
    BY <1>0, <2>1, <2>2, StartCallIInv
<1>3. ASSUME NEW p \in Callers, NEW n \in Flags, DeleteFlag(p, n) PROVE FlagIInv'
  <2>1. /\ flags' = Restrict(flags, DOMAIN flags \ {n})
        /\ StartCall(p, n, "delete", NoName, FALSE)
    BY <1>3 DEF DeleteFlag
  <2>2. DOMAIN flags' = DOMAIN flags \ {n} /\ \A m \in DOMAIN flags \ {n} : flags'[m] = flags[m]
    BY <2>1, DropEntry
  <2>. QED
    BY <1>0, <2>1, <2>2, StartCallIInv
<1>4. ASSUME NEW p \in Callers, GetFlag(p) PROVE FlagIInv'
  <2>. DEFINE n == fcall[p].name
              call == [pc |-> "save", name |-> n, row |-> IF n \in DOMAIN flags THEN n ELSE NoName,
                       on |-> IF n \in DOMAIN flags THEN flags[n] ELSE FALSE, alone |-> fcall[p].alone]
  <2>1. /\ fcall[p].pc = "get" /\ fcall' = [fcall EXCEPT ![p] = call]
        /\ flags' = flags /\ saved' = saved /\ doubtful' = doubtful
    BY <1>4 DEF GetFlag
  <2>2. n \in Flags \cup {NoName} /\ n # NoName /\ fcall[p].alone \in BOOLEAN
    BY <1>0, <2>1 DEF FlagCall
  <2>3. call \in FlagCall /\ call.pc = "save" /\ call.name = n /\ call.alone = fcall[p].alone
        /\ call.row \in {n, NoName}
        /\ (n \in DOMAIN flags => call.row = n /\ call.on = flags[n])
    BY <1>0, <2>2 DEF FlagCall
  <2>. HIDE DEF call
  <2>4. fcall'[p] = call /\ \A q \in Callers \ {p} : fcall'[q] = fcall[q]
    BY <2>1 DEF FlagIInv, FlagTypes
  <2>5. \A q \in Callers : fcall'[q].name = fcall[q].name
    BY <2>3, <2>4
  <2>6. FlagTypes'
    <3>1. fcall' \in [Callers -> FlagCall]
      BY <2>1, <2>3 DEF FlagIInv, FlagTypes
    <3>. QED
      BY <1>0, <2>1, <2>2, <2>3, <2>4, <3>1 DEF FlagTypes
  <2>7. Settled'
    BY <2>1, <2>5 DEF FlagIInv, Settled, SameFlag, Busy
  <2>8. AloneWrites(p)' /\ WritesOwn(p)'
    <3>1. ASSUME fcall[p].alone
          PROVE n \in DOMAIN flags /\ \A q \in Callers \ {p} : fcall[q].name # n
      BY <2>1, <3>1 DEF FlagIInv, AloneWrites
    <3>. QED
      BY <2>1, <2>3, <2>4, <3>1 DEF AloneWrites, WritesOwn
  <2>9. ASSUME NEW q \in Callers \ {p} PROVE AloneWrites(q)' /\ WritesOwn(q)'
    <3>1. AloneWrites(q) /\ WritesOwn(q)
      BY DEF FlagIInv
    <3>. QED
      BY <2>1, <2>4, <2>5, <3>1 DEF AloneWrites, WritesOwn
  <2>. QED
    BY <2>6, <2>7, <2>8, <2>9 DEF FlagIInv
<1>5. ASSUME NEW p \in Callers, NEW n, NEW row, NEW on, NEW alone,
             n = fcall[p].name, row = fcall[p].row, on = fcall[p].on, alone = fcall[p].alone, Save(p)
      PROVE FlagIInv'
  <2>1. /\ fcall[p].pc = "save" /\ saved' = WithEntry(saved, row, on) /\ flags' = flags
        /\ fcall' = [fcall EXCEPT ![p] = NoCall]
        /\ doubtful' = IF alone THEN doubtful \ {n} ELSE doubtful \cup {n}
    BY <1>5 DEF Save, EndCall
  <2>2. /\ DOMAIN saved' = {row} \cup DOMAIN saved /\ saved'[row] = on
        /\ \A m \in DOMAIN saved : m # row => saved'[m] = saved[m]
    BY <2>1 DEF WithEntry
  <2>3. on \in BOOLEAN /\ alone \in BOOLEAN
    BY <1>0, <1>5 DEF FlagCall
  <2>4. row \in {n, NoName}
    BY <1>5, <2>1 DEF FlagIInv, WritesOwn
  <2>5. alone => row = n /\ n \in DOMAIN flags /\ on = flags[n]
    BY <1>5, <2>1 DEF FlagIInv, AloneWrites
  <2>6. ASSUME n \notin doubtful' PROVE SameFlag(n)'
    <3>1. alone
      BY <2>1, <2>6
    <3>. QED
      BY <2>1, <2>2, <2>5, <3>1 DEF SameFlag
  <2>7. \A m \in DOMAIN saved' : saved'[m] \in BOOLEAN
    BY <1>0, <2>2, <2>3
  <2>8. \A m \in Flags : m # n /\ m \notin doubtful' => m \notin doubtful
    BY <2>1
  <2>9. \A m \in Flags : m # n => /\ m \in DOMAIN saved' <=> m \in DOMAIN saved
                                  /\ m \in DOMAIN saved => saved'[m] = saved[m]
                                  /\ m \notin doubtful' => m \notin doubtful
    BY <1>0, <2>2, <2>4, <2>8
  <2>10. fcall[p].pc # "off"
    BY <2>1
  <2>. QED
    BY <1>5, <2>1, <2>6, <2>7, <2>9, <2>10, EndIInv
<1>6. ASSUME NEW p \in Callers, NEW n, NEW alone, n = fcall[p].name, alone = fcall[p].alone, DeleteSaved(p)
      PROVE FlagIInv'
  <2>1. /\ fcall[p].pc = "delete" /\ saved' = Restrict(saved, DOMAIN saved \ {n}) /\ flags' = flags
        /\ fcall' = [fcall EXCEPT ![p] = NoCall]
        /\ doubtful' = IF alone THEN doubtful \ {n} ELSE doubtful \cup {n}
    BY <1>6 DEF DeleteSaved, EndCall
  <2>2. DOMAIN saved' = DOMAIN saved \ {n} /\ \A m \in DOMAIN saved \ {n} : saved'[m] = saved[m]
    BY <2>1, DropEntry
  <2>3. alone => n \notin DOMAIN flags
    BY <1>6, <2>1 DEF FlagIInv, AloneWrites
  <2>4. ASSUME n \notin doubtful' PROVE SameFlag(n)'
    <3>1. alone
      BY <2>1, <2>4
    <3>. QED
      BY <2>1, <2>2, <2>3, <3>1 DEF SameFlag
  <2>5. \A m \in DOMAIN saved' : saved'[m] \in BOOLEAN
    BY <1>0, <2>2
  <2>6. \A m \in Flags : m # n /\ m \notin doubtful' => m \notin doubtful
    BY <2>1
  <2>7. \A m \in Flags : m # n => /\ m \in DOMAIN saved' <=> m \in DOMAIN saved
                                  /\ m \in DOMAIN saved => saved'[m] = saved[m]
                                  /\ m \notin doubtful' => m \notin doubtful
    BY <2>2, <2>6
  <2>8. fcall[p].pc # "off"
    BY <2>1
  <2>. QED
    BY <1>6, <2>1, <2>4, <2>5, <2>7, <2>8, EndIInv
<1>7. ASSUME NEW p \in Callers, NEW n, n = fcall[p].name, SaveFails(p) PROVE FlagIInv'
  <2>1. /\ fcall[p].pc # "off" /\ saved' = saved /\ flags' = flags
        /\ fcall' = [fcall EXCEPT ![p] = NoCall] /\ doubtful' = doubtful \cup {n}
    BY <1>7 DEF SaveFails
  <2>2. n \in doubtful' /\ \A m \in Flags : m \notin doubtful' => m \notin doubtful
    BY <2>1
  <2>. QED
    BY <1>0, <1>7, <2>1, <2>2, EndIInv
<1>8. ASSUME RestartFlags PROVE FlagIInv'
  <2>1. flags' = saved /\ saved' = saved /\ fcall' = [p \in Callers |-> NoCall]
    BY <1>8 DEF RestartFlags
  <2>2. NoCall \in FlagCall /\ NoCall.pc = "off" /\ NoCall.name = NoName
    BY DEF NoCall, FlagCall
  <2>. QED
    BY <1>0, <2>1, <2>2 DEF FlagIInv, FlagTypes, Settled, SameFlag, AloneWrites, WritesOwn
<1>9. ASSUME UNCHANGED flagVars PROVE FlagIInv'
  <2>1. flags' = flags /\ saved' = saved /\ fcall' = fcall /\ doubtful' = doubtful
    BY <1>9 DEF flagVars
  <2>2. FlagTypes'
    BY <2>1 DEF FlagIInv, FlagTypes
  <2>3. Settled'
    BY <2>1 DEF FlagIInv, Settled, SameFlag, Busy
  <2>4. ASSUME NEW p \in Callers PROVE AloneWrites(p)' /\ WritesOwn(p)'
    <3>1. AloneWrites(p) /\ WritesOwn(p)
      BY DEF FlagIInv
    <3>. QED
      BY <2>1, <3>1 DEF AloneWrites, WritesOwn
  <2>. QED
    BY <2>2, <2>3, <2>4 DEF FlagIInv
<1>. QED
  BY <1>1, <1>2, <1>3, <1>4, <1>5, <1>6, <1>7, <1>8, <1>9 DEF FlagsNext

\* What a restart would load is what is in memory, for every name on which no call
\* is at work and whose last change neither failed nor overlapped another, for any
\* number of callers and of flags (syncManager).
THEOREM FlagsSurviveRestartTheorem == FlagsSpec => []FlagsSurviveRestart
<1>1. FlagsInit => FlagIInv
  <2>1. NoCall \in FlagCall /\ NoCall.pc = "off" /\ NoCall.name = NoName
    BY DEF NoCall, FlagCall
  <2>. QED
    BY <2>1 DEF FlagsInit, FlagIInv, FlagTypes, Settled, SameFlag, AloneWrites, WritesOwn
<1>2. FlagIInv => FlagsSurviveRestart
  BY DEF FlagIInv, Settled, SameFlag, FlagsSurviveRestart
<1>. QED
  BY <1>1, <1>2, FlagNextIInv, PTL DEF FlagsSpec

-----------------------------------------------------------------------------
(* The tables of goodser's administrators *)

AnyRow == Row \cup {NoRow}

EditRequest ==
  [op : {"update"}, t : Tables, id : AdminIds, named : SUBSET {"key", "val"}, row : Row,
   lookups : Int, read : AnyRow]

AdminTypes ==
  /\ adminRows \in [Tables -> [AdminIds -> AnyRow]]
  /\ asked \in [Tables -> [AdminIds -> AnyRow]]
  /\ request \in [Admins -> EditRequest \cup {Idle}]
  /\ issued \in [Tables -> SUBSET RowIds]

\* A request names only columns that the UPDATE of its table writes.
NamesEditable ==
  \A c \in Admins : request[c] # Idle => request[c].named \subseteq Table[request[c].t].writes

\* An UPDATE comes after a look-up that found the row.
ReadFirst == \A c \in Admins : request[c] # Idle => request[c].lookups > 0 \/ request[c].read \in Row

\* A row is there when one was asked for, even one that was overwritten.
PresentTogether ==
  \A t \in Tables, id \in AdminIds : adminRows[t][id] = NoRow <=> asked[t][id] = NoRow

AdminIInv == AdminTypes /\ NamesEditable /\ ReadFirst /\ PresentTogether /\ EditsAreKept

\* What the four tables let a request name is written.
LEMMA EditsAreWritten ==
  ASSUME NEW t \in Tables
  PROVE  Table[t].edits \subseteq {"key", "val"} /\ Table[t].edits \subseteq Table[t].writes
         /\ Table[t].lookups \in Int /\ Table[t].lookups > 0
<1>1. Tables = {"inventories", "tags", "codes", "logs"}
  BY DEF Tables, Table
<1>2. CASE t = "inventories"
  BY <1>2 DEF Table, Inventories
<1>3. CASE t = "tags"
  BY <1>3 DEF Table, Tags
<1>4. CASE t = "codes"
  BY <1>4 DEF Table, StatusCodes
<1>5. CASE t = "logs"
  BY <1>5 DEF Table, InboundLogs
<1>. QED
  BY <1>1, <1>2, <1>3, <1>4, <1>5

\* One row and what was asked of it change together.
LEMMA PutBoth ==
  ASSUME AdminIInv, NEW t \in Tables, NEW id \in AdminIds, NEW row \in AnyRow, NEW want \in AnyRow,
         adminRows' = PutRow(adminRows, t, id, row), asked' = PutRow(asked, t, id, want),
         row = NoRow <=> want = NoRow, row = want \/ <<t, id>> \in overwritten',
         overwritten \subseteq overwritten'
  PROVE  /\ adminRows' \in [Tables -> [AdminIds -> AnyRow]]
         /\ asked' \in [Tables -> [AdminIds -> AnyRow]]
         /\ PresentTogether' /\ EditsAreKept'
<1>1. /\ adminRows' \in [Tables -> [AdminIds -> AnyRow]] /\ adminRows'[t][id] = row
      /\ \A u \in Tables, i \in AdminIds : ~(u = t /\ i = id) => adminRows'[u][i] = adminRows[u][i]
  BY DEF AdminIInv, AdminTypes, PutRow
<1>2. /\ asked' \in [Tables -> [AdminIds -> AnyRow]] /\ asked'[t][id] = want
      /\ \A u \in Tables, i \in AdminIds : ~(u = t /\ i = id) => asked'[u][i] = asked[u][i]
  BY DEF AdminIInv, AdminTypes, PutRow
<1>3. ASSUME NEW u \in Tables, NEW i \in AdminIds
      PROVE /\ adminRows'[u][i] = NoRow <=> asked'[u][i] = NoRow
            /\ adminRows'[u][i] = asked'[u][i] \/ <<u, i>> \in overwritten'
  <2>1. CASE u = t /\ i = id
    BY <1>1, <1>2, <2>1
  <2>2. CASE ~(u = t /\ i = id)
    BY <1>1, <1>2, <2>2 DEF AdminIInv, EditsAreKept, PresentTogether
  <2>. QED
    BY <2>1, <2>2
<1>. QED
  BY <1>1, <1>2, <1>3 DEF EditsAreKept, PresentTogether

\* What an UPDATE writes, where its look-up saw the row as it is now.
LEMMA WrittenIsAsked ==
  ASSUME NEW r, r.row \in Row, r.read \in Row, NEW now \in Row, NEW was \in Row, NEW W,
         r.named \subseteq W, NEW new, NEW want,
         new = [k \in {"key", "val"} |-> IF k \in W THEN Merge(r, r.read)[k] ELSE now[k]],
         want = [k \in {"key", "val"} |-> IF k \in r.named THEN r.row[k] ELSE was[k]]
  PROVE  /\ new \in Row /\ want \in Row
         /\ r.read = now /\ now = was => new = want
<1>1. \A k \in {"key", "val"}, x \in Row : x[k] \in Columns
  BY DEF Row
<1>2. \A f \in [{"key", "val"} -> Columns] : f \in Row
  BY DEF Row
<1>3. \A k \in {"key", "val"} : Merge(r, r.read)[k] = IF k \in r.named THEN r.row[k] ELSE r.read[k]
  BY DEF Merge
<1>4. new \in Row
  BY <1>1, <1>2, <1>3
<1>5. want \in Row
  BY <1>1, <1>2
<1>6. ASSUME r.read = now, now = was PROVE new = want
  BY <1>3, <1>6
<1>. QED
  BY <1>4, <1>5, <1>6

LEMMA AdminNextIInv == AdminIInv /\ [AdminNext]_adminVars => AdminIInv'
<1>. SUFFICES ASSUME AdminIInv, [AdminNext]_adminVars PROVE AdminIInv'
  OBVIOUS
<1>1. ASSUME InitTables PROVE AdminIInv'
  <2>. DEFINE seeds(rows) == [id \in AdminIds |-> IF id \in Missing THEN Seeded(id) ELSE rows["codes"][id]]
  <2>1. /\ adminRows' = [adminRows EXCEPT !["codes"] = seeds(adminRows)]
        /\ asked' = [asked EXCEPT !["codes"] = seeds(asked)]
        /\ request' = request /\ issued' = issued /\ overwritten' = overwritten
    BY <1>1 DEF InitTables
  <2>2. "codes" \in Tables
    BY DEF Tables, Table
  <2>3. \A id \in Missing : Seeded(id) \in Row
    BY AdminAssumption DEF Missing, Seeded, Row
  <2>4. seeds(adminRows) \in [AdminIds -> AnyRow] /\ seeds(asked) \in [AdminIds -> AnyRow]
    BY <2>2, <2>3 DEF AdminIInv, AdminTypes, AnyRow
  <2>5. ASSUME NEW id \in AdminIds
        PROVE /\ seeds(adminRows)[id] = seeds(asked)[id] \/ <<"codes", id>> \in overwritten
              /\ seeds(adminRows)[id] = NoRow <=> seeds(asked)[id] = NoRow
    BY <2>2 DEF AdminIInv, EditsAreKept, PresentTogether
  <2>. HIDE DEF seeds
  <2>6. AdminTypes'
    BY <2>1, <2>4 DEF AdminIInv, AdminTypes
  <2>7. EditsAreKept' /\ PresentTogether'
    BY <2>1, <2>2, <2>5 DEF AdminIInv, AdminTypes, EditsAreKept, PresentTogether
  <2>. QED
    BY <2>1, <2>6, <2>7 DEF AdminIInv, NamesEditable, ReadFirst
<1>2. ASSUME Crash PROVE AdminIInv'
  BY <1>2 DEF Crash, AdminIInv, AdminTypes, NamesEditable, ReadFirst, PresentTogether, EditsAreKept
<1>3. ASSUME NEW c \in Admins, NEW t \in Tables, Create(c, t) PROVE AdminIInv'
  <2>1. PICK id \in RowIds \ issued[t], row \in Row :
          /\ issued' = [issued EXCEPT ![t] = @ \cup {id}]
          /\ IF KeyIsFree(t, id, row)
             THEN adminRows' = PutRow(adminRows, t, id, row) /\ asked' = PutRow(asked, t, id, row)
             ELSE adminRows' = adminRows /\ asked' = asked
    BY <1>3 DEF Create
  <2>2. request' = request /\ overwritten' = overwritten
    BY <1>3 DEF Create
  <2>3. issued' \in [Tables -> SUBSET RowIds]
    BY <2>1 DEF AdminIInv, AdminTypes
  <2>4. /\ adminRows' \in [Tables -> [AdminIds -> AnyRow]]
        /\ asked' \in [Tables -> [AdminIds -> AnyRow]]
        /\ PresentTogether' /\ EditsAreKept'
    <3>1. CASE KeyIsFree(t, id, row)
      <4>1. id \in AdminIds /\ row \in AnyRow
        BY DEF AdminIds, AnyRow
      <4>. QED
        BY <2>1, <2>2, <3>1, <4>1, PutBoth
    <3>2. CASE ~KeyIsFree(t, id, row)
      BY <2>1, <2>2, <3>2 DEF AdminIInv, AdminTypes, EditsAreKept, PresentTogether
    <3>. QED
      BY <3>1, <3>2
  <2>. QED
    BY <2>2, <2>3, <2>4 DEF AdminIInv, AdminTypes, NamesEditable, ReadFirst
<1>4. ASSUME NEW c \in Admins, NEW t \in Tables, Delete(c, t) PROVE AdminIInv'
  <2>1. PICK id \in issued[t] \cup Present(t) :
          adminRows' = PutRow(adminRows, t, id, NoRow) /\ asked' = PutRow(asked, t, id, NoRow)
    BY <1>4 DEF Delete
  <2>2. request' = request /\ overwritten' = overwritten /\ issued' = issued
    BY <1>4 DEF Delete
  <2>3. id \in AdminIds /\ NoRow \in AnyRow
    BY DEF AdminIInv, AdminTypes, AdminIds, Present, AnyRow
  <2>4. /\ adminRows' \in [Tables -> [AdminIds -> AnyRow]]
        /\ asked' \in [Tables -> [AdminIds -> AnyRow]]
        /\ PresentTogether' /\ EditsAreKept'
    BY <2>1, <2>2, <2>3, PutBoth
  <2>. QED
    BY <2>2, <2>4 DEF AdminIInv, AdminTypes, NamesEditable, ReadFirst
<1>5. ASSUME NEW c \in Admins, NEW t \in Tables, Update(c, t) PROVE AdminIInv'
  <2>1. PICK id \in issued[t] \cup Present(t), named \in SUBSET Table[t].edits, row \in Row :
          request' = [request EXCEPT ![c] =
            [op |-> "update", t |-> t, id |-> id, named |-> named, row |-> row,
             lookups |-> Table[t].lookups, read |-> NoRow]]
    BY <1>5 DEF Update
  <2>2. adminRows' = adminRows /\ asked' = asked /\ overwritten' = overwritten /\ issued' = issued
    BY <1>5 DEF Update
  <2>. DEFINE r == [op |-> "update", t |-> t, id |-> id, named |-> named, row |-> row,
                    lookups |-> Table[t].lookups, read |-> NoRow]
  <2>3. id \in AdminIds
    BY DEF AdminIInv, AdminTypes, AdminIds, Present
  <2>4. r \in EditRequest /\ r.t = t /\ r.named = named /\ r.lookups > 0
    BY <2>3, EditsAreWritten DEF EditRequest, AnyRow
  <2>5. named \subseteq Table[t].writes
    BY EditsAreWritten
  <2>6. request' = [request EXCEPT ![c] = r]
    BY <2>1
  <2>. HIDE DEF r
  <2>7. AdminTypes'
    BY <2>2, <2>4, <2>6 DEF AdminIInv, AdminTypes
  <2>8. NamesEditable' /\ ReadFirst'
    BY <2>4, <2>5, <2>6 DEF AdminIInv, AdminTypes, NamesEditable, ReadFirst
  <2>. QED
    BY <2>2, <2>7, <2>8 DEF AdminIInv, EditsAreKept, PresentTogether
<1>6. ASSUME NEW c \in Admins, Lookup(c) PROVE AdminIInv'
  <2>. DEFINE r == request[c]
              now == adminRows[r.t][r.id]
              new == IF now = NoRow THEN Idle ELSE [r EXCEPT !.lookups = r.lookups - 1, !.read = now]
  <2>1. /\ r # Idle /\ request' = [request EXCEPT ![c] = new]
        /\ adminRows' = adminRows /\ asked' = asked /\ overwritten' = overwritten /\ issued' = issued
    BY <1>6 DEF Lookup
  <2>2. r \in EditRequest
    BY <2>1 DEF AdminIInv, AdminTypes
  <2>3. now \in AnyRow
    BY <2>2 DEF AdminIInv, AdminTypes, EditRequest
  <2>4. r.named \subseteq Table[r.t].writes
    BY <2>1 DEF AdminIInv, NamesEditable
  <2>. HIDE DEF r, now
  <2>5. /\ new \in EditRequest \cup {Idle}
        /\ new # Idle => new.t = r.t /\ new.named = r.named /\ new.read \in Row
    <3>1. CASE now = NoRow
      BY <3>1
    <3>2. CASE now # NoRow
      <4>1. now \in Row
        BY <2>3, <3>2 DEF AnyRow
      <4>2. new = [r EXCEPT !.lookups = r.lookups - 1, !.read = now]
        BY <3>2
      <4>. HIDE DEF new
      <4>3. new \in EditRequest
        <5>1. r.lookups - 1 \in Int
          BY <2>2 DEF EditRequest
        <5>2. \A l \in Int : [r EXCEPT !.lookups = l, !.read = now] \in EditRequest
          BY <2>2, <2>3 DEF EditRequest
        <5>. QED
          BY <4>2, <5>1, <5>2
      <4>4. new.t = r.t /\ new.named = r.named /\ new.read = now
        BY <2>2, <4>2 DEF EditRequest
      <4>. QED
        BY <4>1, <4>3, <4>4
    <3>. QED
      BY <3>1, <3>2
  <2>. HIDE DEF new
  <2>6. AdminTypes'
    BY <2>1, <2>5 DEF AdminIInv, AdminTypes
  <2>7. NamesEditable' /\ ReadFirst'
    BY <2>1, <2>4, <2>5 DEF AdminIInv, AdminTypes, NamesEditable, ReadFirst
  <2>. QED
    BY <2>1, <2>6, <2>7 DEF AdminIInv, EditsAreKept, PresentTogether
<1>7. ASSUME NEW c \in Admins, NEW r, r = request[c], NEW t, t = r.t, NEW id, id = r.id, Write(c)
      PROVE AdminIInv'
  <2>. DEFINE now == adminRows[t][id]
              new == [k \in {"key", "val"} |->
                        IF k \in Table[t].writes THEN Merge(r, r.read)[k] ELSE now[k]]
              want == [k \in {"key", "val"} |-> IF k \in r.named THEN r.row[k] ELSE asked[t][id][k]]
  <2>1. /\ r # Idle /\ r.lookups = 0 /\ request' = [request EXCEPT ![c] = Idle] /\ issued' = issued
        /\ IF now # NoRow /\ KeyIsFree(t, id, new)
           THEN /\ adminRows' = PutRow(adminRows, t, id, new) /\ asked' = PutRow(asked, t, id, want)
                /\ overwritten' = IF r.read = now THEN overwritten ELSE overwritten \cup {<<t, id>>}
           ELSE adminRows' = adminRows /\ asked' = asked /\ overwritten' = overwritten
    BY <1>7 DEF Write
  <2>2. r \in EditRequest /\ r.named \subseteq Table[t].writes
    BY <1>7, <2>1 DEF AdminIInv, AdminTypes, NamesEditable
  <2>3. t \in Tables /\ id \in AdminIds /\ r.row \in Row
    BY <1>7, <2>2 DEF EditRequest
  <2>4. r.read \in Row
    BY <1>7, <2>1 DEF AdminIInv, ReadFirst
  <2>5. request' \in [Admins -> EditRequest \cup {Idle}] /\ NamesEditable' /\ ReadFirst'
    BY <2>1 DEF AdminIInv, AdminTypes, NamesEditable, ReadFirst
  <2>6. now \in AnyRow /\ asked[t][id] \in AnyRow /\ (now = NoRow <=> asked[t][id] = NoRow)
        /\ (now = asked[t][id] \/ <<t, id>> \in overwritten)
    BY <2>3 DEF AdminIInv, AdminTypes, PresentTogether, EditsAreKept
  <2>7. /\ adminRows' \in [Tables -> [AdminIds -> AnyRow]]
        /\ asked' \in [Tables -> [AdminIds -> AnyRow]]
        /\ PresentTogether' /\ EditsAreKept'
    <3>1. CASE now # NoRow /\ KeyIsFree(t, id, new)
      <4>1. now \in Row /\ asked[t][id] \in Row
        BY <2>6, <3>1 DEF AnyRow
      <4>2. new \in Row /\ want \in Row /\ (r.read = now /\ now = asked[t][id] => new = want)
        BY <2>2, <2>3, <2>4, <4>1, WrittenIsAsked
      <4>3. /\ adminRows' = PutRow(adminRows, t, id, new) /\ asked' = PutRow(asked, t, id, want)
            /\ overwritten' = IF r.read = now THEN overwritten ELSE overwritten \cup {<<t, id>>}
        BY <2>1, <3>1
      <4>. HIDE DEF now, new, want
      <4>4. new = want \/ <<t, id>> \in overwritten'
        BY <2>6, <4>2, <4>3
      <4>5. overwritten \subseteq overwritten'
        BY <4>3
      <4>6. new \in AnyRow /\ want \in AnyRow /\ new # NoRow /\ want # NoRow
        BY <4>2, AdminAssumption DEF AnyRow
      <4>. QED
        BY <2>3, <4>3, <4>4, <4>5, <4>6, PutBoth
    <3>2. CASE ~(now # NoRow /\ KeyIsFree(t, id, new))
      BY <2>1, <3>2 DEF AdminIInv, AdminTypes, EditsAreKept, PresentTogether
    <3>. QED
      BY <3>1, <3>2
  <2>. QED
    BY <2>1, <2>5, <2>7 DEF AdminIInv, AdminTypes
<1>8. ASSUME NEW c \in Admins, Fail(c) PROVE AdminIInv'
  BY <1>8 DEF Fail, AdminIInv, AdminTypes, NamesEditable, ReadFirst, PresentTogether, EditsAreKept
<1>9. ASSUME UNCHANGED adminVars PROVE AdminIInv'
  BY <1>9 DEF adminVars, AdminIInv, AdminTypes, NamesEditable, ReadFirst, PresentTogether, EditsAreKept
<1>10. "inventories" \in Tables /\ "tags" \in Tables /\ "codes" \in Tables /\ "logs" \in Tables
  BY DEF Tables, Table
<1>. QED
  BY <1>1, <1>2, <1>3, <1>4, <1>5, <1>6, <1>7, <1>8, <1>9, <1>10
  DEF AdminNext, CreateInventory, UpdateInventory, DeleteInventory, CreateTag, UpdateTag, DeleteTag,
      AddStatusCode, UpdateStatusCode, RemoveStatusCode, CreateInboundLog, UpdateInboundLog,
      DeleteInboundLog

\* A row of the administrators' tables is what the accepted requests made it, column
\* by column, unless an Update wrote on top of a change that came after its read:
\* for any number of clients, rows and column values (UpdateTag and the others).
THEOREM EditsAreKeptTheorem == AdminSpec => []EditsAreKept
<1>1. AdminInit => AdminIInv
  BY DEF AdminInit, AdminIInv, AdminTypes, AnyRow, NamesEditable, ReadFirst, PresentTogether, EditsAreKept
<1>2. AdminIInv => EditsAreKept
  BY DEF AdminIInv
<1>. QED
  BY <1>1, <1>2, AdminNextIInv, PTL DEF AdminSpec

-----------------------------------------------------------------------------
(* The log files *)

LogFile == [lines : SUBSET Int, mtime : Int]

LogDisk(d, today) == \A n \in DOMAIN d : d[n] \in LogFile /\ d[n].mtime <= today

\* A line of day a.on is in a file that was written then or later, so that the
\* clean-up leaves it alone for MaxAge days.
Kept(a, d, today) ==
  \/ today - MaxAge > a.on
  \/ a.unlinked
  \/ \E n \in DOMAIN d : a.line \in d[n].lines /\ d[n].mtime >= a.on

LogTypes ==
  /\ day \in Int /\ lines \in Int /\ writing \in [Writers -> Int]
  /\ accepted \subseteq [line : Int, on : Int, unlinked : BOOLEAN]

LogIInv == LogTypes /\ LogDisk(disk, day) /\ \A a \in accepted : Kept(a, disk, day)

\* Disk e has what disk d has, and no file of it is older.
Extends(d, e) ==
  \A n \in DOMAIN d : n \in DOMAIN e /\ d[n].lines \subseteq e[n].lines /\ d[n].mtime <= e[n].mtime

IsState(s) == DOMAIN s = {"disk", "file", "usable", "date", "logSize", "index", "handles"}

\* Opening a file for appending loses nothing.
LEMMA OpenedExtends ==
  ASSUME day \in Int, NEW d, LogDisk(d, day), NEW name
  PROVE  LogDisk(Opened(d, name), day) /\ Extends(d, Opened(d, name))
<1>. DEFINE e == Opened(d, name)
<1>1. \A n \in DOMAIN d : d[n].mtime \in Int
  BY DEF LogDisk, LogFile
<1>2. CASE name \in DOMAIN d
  BY <1>1, <1>2 DEF Opened, Extends
<1>3. CASE name \notin DOMAIN d
  <2>1. /\ DOMAIN e = DOMAIN d \cup {name} /\ e[name] = [lines |-> {}, mtime |-> day]
        /\ \A n \in DOMAIN d : e[n] = d[n]
    BY <1>3 DEF Opened, WithEntry
  <2>2. [lines |-> {}, mtime |-> day] \in LogFile /\ [lines |-> {}, mtime |-> day].mtime = day
    BY DEF LogFile
  <2>. HIDE DEF e
  <2>3. LogDisk(e, day)
    <3>1. ASSUME NEW n \in DOMAIN e PROVE e[n] \in LogFile /\ e[n].mtime <= day
      <4>1. CASE n = name
        BY <2>1, <2>2, <4>1
      <4>2. CASE n # name
        BY <2>1, <4>2 DEF LogDisk
      <4>. QED
        BY <4>1, <4>2
    <3>. QED
      BY <3>1 DEF LogDisk
  <2>4. Extends(d, e)
    BY <1>1, <2>1 DEF Extends
  <2>. QED
    BY <2>3, <2>4 DEF e
<1>. QED
  BY <1>2, <1>3

LEMMA ExtendsTrans ==
  ASSUME NEW d, NEW e, NEW f, NEW today, LogDisk(d, today), LogDisk(e, today), LogDisk(f, today),
         Extends(d, e), Extends(e, f)
  PROVE  Extends(d, f)
<1>1. SUFFICES ASSUME NEW n \in DOMAIN d
               PROVE n \in DOMAIN f /\ d[n].lines \subseteq f[n].lines /\ d[n].mtime <= f[n].mtime
  BY DEF Extends
<1>2. n \in DOMAIN e /\ d[n].lines \subseteq e[n].lines /\ d[n].mtime <= e[n].mtime
  BY DEF Extends
<1>3. n \in DOMAIN f /\ e[n].lines \subseteq f[n].lines /\ e[n].mtime <= f[n].mtime
  BY <1>2 DEF Extends
<1>4. d[n].mtime \in Int /\ e[n].mtime \in Int /\ f[n].mtime \in Int
  BY <1>2, <1>3 DEF LogDisk, LogFile
<1>. QED
  BY <1>2, <1>3, <1>4

\* What was kept on a disk is kept on one that extends it.
LEMMA KeptExtends ==
  ASSUME NEW d, NEW e, NEW today, LogDisk(d, today), LogDisk(e, today), Extends(d, e),
         NEW a \in [line : Int, on : Int, unlinked : BOOLEAN], Kept(a, d, today)
  PROVE  Kept(a, e, today)
<1>1. CASE \E n \in DOMAIN d : a.line \in d[n].lines /\ d[n].mtime >= a.on
  <2>1. PICK n \in DOMAIN d : a.line \in d[n].lines /\ d[n].mtime >= a.on
    BY <1>1
  <2>2. n \in DOMAIN e /\ d[n].lines \subseteq e[n].lines /\ d[n].mtime <= e[n].mtime
    BY DEF Extends
  <2>3. d[n].mtime \in Int /\ e[n].mtime \in Int /\ a.on \in Int
    BY <2>2 DEF LogDisk, LogFile
  <2>4. e[n].mtime >= a.on
    BY <2>1, <2>2, <2>3
  <2>. QED
    BY <2>1, <2>2, <2>4 DEF Kept
<1>. QED
  BY <1>1 DEF Kept

\* The states the helpers of Write make.
LEMMA OpenLockedState ==
  ASSUME NEW s, IsState(s), NEW d
  PROVE  IsState(openLocked(d, s)) /\ openLocked(d, s).disk = Opened(d, <<day, 0>>)
BY DEF IsState, openLocked

LEMMA RotateState ==
  ASSUME NEW s, IsState(s)
  PROVE  rotateLocked(s).disk = Opened(s.disk, <<day, s.index + 1>>)
BY DEF IsState, rotateLocked

LEMMA RotateFailsState ==
  ASSUME NEW s, IsState(s), NEW r \in rotateFails(s)
  PROVE  r.disk = s.disk \/ r.disk = Opened(s.disk, <<day, 0>>)
<1>. DEFINE shut == [s EXCEPT !.handles = @ \ {s.file}, !.index = @ + 1]
<1>1. r = openLocked(s.disk, shut) \/ r = [shut EXCEPT !.usable = FALSE]
  BY DEF rotateFails
<1>2. shut.disk = s.disk /\ IsState(shut)
  BY DEF IsState
<1>. HIDE DEF shut
<1>3. CASE r = openLocked(s.disk, shut)
  BY <1>2, <1>3, OpenLockedState
<1>4. CASE r = [shut EXCEPT !.usable = FALSE]
  BY <1>2, <1>4 DEF IsState
<1>. QED
  BY <1>1, <1>3, <1>4

\* A line goes to the end of the file, if that is still there.
LEMMA AppendedExtends ==
  ASSUME day \in Int, NEW s, IsState(s), LogDisk(s.disk, day), NEW line \in Int
  PROVE  LET full == Appended(s, line)
         IN /\ IsState(full) /\ LogDisk(full.disk, day) /\ Extends(s.disk, full.disk)
            /\ s.file \in DOMAIN s.disk => /\ s.file \in DOMAIN full.disk
                                           /\ line \in full.disk[s.file].lines
                                           /\ full.disk[s.file].mtime = day
<1>. DEFINE d == s.disk
            full == Appended(s, line)
            new == [d[s.file] EXCEPT !.lines = @ \cup {line}, !.mtime = day]
<1>1. \A n \in DOMAIN d : d[n] \in LogFile /\ d[n].mtime \in Int /\ d[n].mtime <= day
  BY DEF LogDisk, LogFile
<1>2. CASE s.file \notin DOMAIN d
  <2>1. IsState(full) /\ full.disk = d
    BY <1>2 DEF Appended, IsState
  <2>. QED
    BY <1>1, <1>2, <2>1 DEF Extends
<1>3. CASE s.file \in DOMAIN d
  <2>1. IsState(full) /\ full.disk = [d EXCEPT ![s.file].lines = @ \cup {line}, ![s.file].mtime = day]
    BY <1>3 DEF Appended, IsState
  <2>2. DOMAIN full.disk = DOMAIN d /\ full.disk[s.file] = new /\ \A n \in DOMAIN d \ {s.file} : full.disk[n] = d[n]
    BY <1>3, <2>1
  <2>3. new \in LogFile /\ new.mtime = day /\ new.lines = d[s.file].lines \cup {line}
    <3>1. d[s.file] \in LogFile
      BY <1>1, <1>3
    <3>. QED
      BY <3>1 DEF LogFile
  <2>. HIDE DEF full, new
  <2>4. LogDisk(full.disk, day)
    BY <1>1, <2>2, <2>3 DEF LogDisk
  <2>5. Extends(d, full.disk)
    BY <1>1, <1>3, <2>2, <2>3 DEF Extends
  <2>. QED
    BY <1>3, <2>1, <2>2, <2>3, <2>4, <2>5 DEF full
<1>. QED
  BY <1>2, <1>3

\* Write up to the line: the day's file may have been opened.
LEMMA HereKeeps ==
  ASSUME LogIInv, NEW here \in {State, openLocked(disk, State)}
  PROVE  IsState(here) /\ LogDisk(here.disk, day) /\ Extends(disk, here.disk)
<1>1. day \in Int /\ LogDisk(disk, day) /\ \A n \in DOMAIN disk : disk[n].mtime \in Int
  BY DEF LogIInv, LogTypes, LogDisk, LogFile
<1>2. IsState(State) /\ State.disk = disk
  BY DEF State, IsState
<1>3. Extends(disk, disk)
  BY <1>1 DEF Extends
<1>4. CASE here = State
  BY <1>1, <1>2, <1>3, <1>4
<1>5. CASE here = openLocked(disk, State)
  <2>1. IsState(here) /\ here.disk = Opened(disk, <<day, 0>>)
    BY <1>2, <1>5, OpenLockedState
  <2>2. LogDisk(Opened(disk, <<day, 0>>), day) /\ Extends(disk, Opened(disk, <<day, 0>>))
    BY <1>1, OpenedExtends
  <2>. QED
    BY <2>1, <2>2
<1>. QED
  BY <1>4, <1>5

\* Write after the line: the next backup may have been opened, or not.
LEMMA RotationKeeps ==
  ASSUME day \in Int, NEW full, IsState(full), LogDisk(full.disk, day),
         NEW s \in {full, rotateLocked(full)} \cup rotateFails(full)
  PROVE  LogDisk(s.disk, day) /\ Extends(full.disk, s.disk)
<1>1. \A n \in DOMAIN full.disk : full.disk[n].mtime \in Int
  BY DEF LogDisk, LogFile
<1>2. s.disk = full.disk \/ s.disk = Opened(full.disk, <<day, 0>>)
        \/ s.disk = Opened(full.disk, <<day, full.index + 1>>)
  <2>1. CASE s = full
    BY <2>1
  <2>2. CASE s = rotateLocked(full)
    BY <2>2, RotateState
  <2>3. CASE s \in rotateFails(full)
    BY <2>3, RotateFailsState
  <2>. QED
    BY <2>1, <2>2, <2>3
<1>3. CASE s.disk = full.disk
  BY <1>1, <1>3 DEF Extends
<1>4. ASSUME NEW name, s.disk = Opened(full.disk, name) PROVE LogDisk(s.disk, day) /\ Extends(full.disk, s.disk)
  BY <1>4, OpenedExtends
<1>. QED
  BY <1>2, <1>3, <1>4

LEMMA LogNextIInv == LogIInv /\ [LogNext]_logVars => LogIInv'
<1>. SUFFICES ASSUME LogIInv, [LogNext]_logVars PROVE LogIInv'
  OBVIOUS
<1>. USE LogAssumption
<1>0. /\ day \in Int /\ lines \in Int /\ writing \in [Writers -> Int] /\ LogDisk(disk, day)
      /\ accepted \subseteq [line : Int, on : Int, unlinked : BOOLEAN]
      /\ \A a \in accepted : Kept(a, disk, day)
  BY DEF LogIInv, LogTypes
<1>1. ASSUME NEW p \in Writers, WriteChecks(p) PROVE LogIInv'
  <2>1. /\ lines' = lines + 1 /\ writing' = [writing EXCEPT ![p] = lines + 1]
        /\ disk' = disk /\ day' = day /\ accepted' = accepted
    BY <1>1 DEF WriteChecks
  <2>2. LogTypes'
    BY <1>0, <2>1 DEF LogTypes
  <2>. QED
    BY <1>0, <2>1, <2>2 DEF LogIInv
<1>2. ASSUME NEW p \in Writers, WriteLine(p) PROVE LogIInv'
  <2>1. day' = day /\ lines' = lines /\ writing' = [writing EXCEPT ![p] = 0]
    BY <1>2 DEF WriteLine
  <2>2. PICK here \in IF day = date THEN {State} ELSE {State, openLocked(disk, State)} :
          LET full == Appended(here, writing[p])
              rotate == full.logSize >= MaxSize /\ full.index < MaxBackup
          IN IF here.file = NoFile \/ ~here.usable
             THEN disk' = here.disk /\ accepted' = accepted
             ELSE /\ \/ disk' = (IF rotate THEN rotateLocked(full) ELSE full).disk
                     \/ \E s \in rotateFails(full) : disk' = s.disk
                  /\ accepted' = accepted \cup
                       {[line |-> writing[p], on |-> day, unlinked |-> here.file \notin DOMAIN here.disk]}
    BY <1>2 DEF WriteLine, Becomes
  <2>. DEFINE line == writing[p]
              full == Appended(here, line)
              a == [line |-> line, on |-> day, unlinked |-> here.file \notin DOMAIN here.disk]
  <2>3. line \in Int /\ here \in {State, openLocked(disk, State)}
    BY <1>0
  <2>4. IsState(here) /\ LogDisk(here.disk, day) /\ Extends(disk, here.disk)
    BY <2>3, HereKeeps
  <2>5. /\ IsState(full) /\ LogDisk(full.disk, day) /\ Extends(here.disk, full.disk)
        /\ here.file \in DOMAIN here.disk => /\ here.file \in DOMAIN full.disk
                                             /\ line \in full.disk[here.file].lines
                                             /\ full.disk[here.file].mtime = day
    BY <1>0, <2>3, <2>4, AppendedExtends
  <2>6. CASE here.file = NoFile \/ ~here.usable
    <3>1. disk' = here.disk /\ accepted' = accepted
      BY <2>2, <2>6
    <3>2. ASSUME NEW b \in accepted PROVE Kept(b, here.disk, day)
      BY <1>0, <2>4, KeptExtends
    <3>3. LogTypes'
      BY <1>0, <2>1, <3>1 DEF LogTypes
    <3>. QED
      BY <2>1, <2>4, <3>1, <3>2, <3>3 DEF LogIInv
  <2>7. CASE ~(here.file = NoFile \/ ~here.usable)
    <3>1. PICK s \in {full, rotateLocked(full)} \cup rotateFails(full) : disk' = s.disk
      BY <2>2, <2>7
    <3>2. accepted' = accepted \cup {a}
      BY <2>2, <2>7
    <3>. HIDE DEF full
    <3>3. LogDisk(s.disk, day) /\ Extends(full.disk, s.disk)
      BY <1>0, <2>5, RotationKeeps
    <3>4. Extends(disk, s.disk)
      BY <1>0, <2>4, <2>5, <3>3, ExtendsTrans
    <3>5. ASSUME NEW b \in accepted PROVE Kept(b, s.disk, day)
      BY <1>0, <3>3, <3>4, KeptExtends
    <3>6. a \in [line : Int, on : Int, unlinked : BOOLEAN]
      BY <1>0, <2>3
    <3>7. Kept(a, full.disk, day)
      <4>1. CASE here.file \in DOMAIN here.disk
        <5>1. a.line \in full.disk[here.file].lines /\ full.disk[here.file].mtime >= a.on
          BY <1>0, <2>5, <4>1
        <5>. QED
          BY <2>5, <4>1, <5>1 DEF Kept
      <4>2. CASE here.file \notin DOMAIN here.disk
        BY <4>2 DEF Kept
      <4>. QED
        BY <4>1, <4>2
    <3>. HIDE DEF a
    <3>8. Kept(a, s.disk, day)
      BY <2>5, <3>3, <3>6, <3>7, KeptExtends
    <3>9. LogTypes'
      BY <1>0, <2>1, <3>2, <3>6 DEF LogTypes
    <3>. QED
      BY <2>1, <3>1, <3>2, <3>3, <3>5, <3>8, <3>9 DEF LogIInv
  <2>. QED
    BY <2>6, <2>7
<1>3. ASSUME CloseFlag \/ CloseFile PROVE LogIInv'
  <2>1. /\ lines' = lines /\ writing' = writing /\ disk' = disk /\ day' = day /\ accepted' = accepted
    BY <1>3 DEF CloseFlag, CloseFile
  <2>. QED
    BY <1>0, <2>1 DEF LogIInv, LogTypes
<1>4. ASSUME cleanup PROVE LogIInv'
  <2>. DEFINE old == {n \in DOMAIN disk : disk[n].mtime < day - MaxAge}
  <2>1. disk' = Restrict(disk, DOMAIN disk \ old)
        /\ lines' = lines /\ writing' = writing /\ day' = day /\ accepted' = accepted
    BY <1>4 DEF cleanup
  <2>2. DOMAIN disk' = DOMAIN disk \ old /\ \A n \in DOMAIN disk \ old : disk'[n] = disk[n]
    BY <2>1 DEF Restrict
  <2>3. LogDisk(disk, day)'
    BY <1>0, <2>1, <2>2 DEF LogDisk
  <2>4. ASSUME NEW a \in accepted PROVE Kept(a, disk', day)
    <3>1. CASE \E n \in DOMAIN disk : a.line \in disk[n].lines /\ disk[n].mtime >= a.on
      <4>1. PICK n \in DOMAIN disk : a.line \in disk[n].lines /\ disk[n].mtime >= a.on
        BY <3>1
      <4>2. disk[n].mtime \in Int /\ a.on \in Int
        BY <1>0 DEF LogDisk, LogFile
      <4>3. CASE n \in old
        BY <1>0, <4>1, <4>2, <4>3 DEF Kept
      <4>4. CASE n \notin old
        BY <2>2, <4>1, <4>4 DEF Kept
      <4>. QED
        BY <4>3, <4>4
    <3>. QED
      BY <1>0, <3>1 DEF Kept
  <2>. QED
    BY <1>0, <2>1, <2>3, <2>4 DEF LogIInv, LogTypes
<1>5. ASSUME NextDay PROVE LogIInv'
  <2>1. day' = day + 1 /\ lines' = lines /\ writing' = writing /\ disk' = disk /\ accepted' = accepted
    BY <1>5 DEF NextDay
  <2>2. LogDisk(disk, day + 1)
    BY <1>0 DEF LogDisk, LogFile
  <2>3. ASSUME NEW a \in accepted PROVE Kept(a, disk, day + 1)
    <3>1. a.on \in Int
      BY <1>0
    <3>. QED
      BY <1>0, <3>1 DEF Kept
  <2>. QED
    BY <1>0, <2>1, <2>2, <2>3 DEF LogIInv, LogTypes
<1>6. ASSUME Restart PROVE LogIInv'
  <2>. DEFINE s == [State EXCEPT !.handles = {}]
  <2>1. /\ disk' = openLocked(disk, s).disk /\ writing' = [p \in Writers |-> 0]
        /\ day' = day /\ lines' = lines /\ accepted' = accepted
    BY <1>6 DEF Restart, Becomes
  <2>2. IsState(s)
    BY DEF State, IsState
  <2>. HIDE DEF s
  <2>3. disk' = Opened(disk, <<day, 0>>)
    BY <2>1, <2>2, OpenLockedState
  <2>4. LogDisk(disk', day) /\ Extends(disk, disk')
    BY <1>0, <2>3, OpenedExtends
  <2>5. ASSUME NEW a \in accepted PROVE Kept(a, disk', day)
    BY <1>0, <2>4, KeptExtends
  <2>. QED
    BY <1>0, <2>1, <2>4, <2>5 DEF LogIInv, LogTypes
<1>7. ASSUME UNCHANGED logVars PROVE LogIInv'
  <2>1. /\ lines' = lines /\ writing' = writing /\ disk' = disk /\ day' = day /\ accepted' = accepted
    BY <1>7 DEF logVars
  <2>. QED
    BY <1>0, <2>1 DEF LogIInv, LogTypes
<1>. QED
  BY <1>1, <1>2, <1>3, <1>4, <1>5, <1>6, <1>7 DEF LogNext

\* A line whose Write returned no error is on disk for MaxAge days, through
\* rotations, failed ones too, changes of day, Close, clean-ups and restarts, unless
\* it was written to a file that the clean-up had removed: for any number of
\* writers, sizes and backups (dailyWriter).
THEOREM AcceptedLinesAreKeptTheorem == LogSpec => []AcceptedLinesAreKept
<1>1. LogInit => LogIInv
  <2>1. [lines |-> {}, mtime |-> 1] \in LogFile /\ [lines |-> {}, mtime |-> 1].mtime = 1
    BY DEF LogFile
  <2>. QED
    BY <2>1 DEF LogInit, LogIInv, LogTypes, LogDisk
<1>2. LogIInv => AcceptedLinesAreKept
  BY DEF LogIInv, Kept, AcceptedLinesAreKept
<1>. QED
  BY <1>1, <1>2, LogNextIInv, PTL DEF LogSpec

-----------------------------------------------------------------------------
(* Service discovery *)

Snapshots == SUBSET Ids

WatcherType ==
  [state : {"none", "on", "cancelled", "detached", "ending", "gone"}, service : Services \cup {NoService},
   queue : Seq(Snapshots), closed : BOOLEAN]

DiscoveryTypes ==
  /\ watcher \in [Watchers -> WatcherType]
  /\ DOMAIN instances \subseteq Ids /\ \A id \in DOMAIN instances : instances[id] \in Services

\* A watcher that listens has in its newest snapshot what the service has.
SeesLatest(r, inst, behind) ==
  r.state \in {"on", "cancelled"} /\ r.queue # <<>> /\ ~behind =>
    Snapshot(inst, r.service) \subseteq r.queue[Len(r.queue)]

DiscoveryIInv == DiscoveryTypes /\ \A w \in Watchers : SeesLatest(watcher[w], instances, w \in missed)

LEMMA AppendedIsLast ==
  ASSUME NEW S, NEW q \in Seq(S), NEW x \in S
  PROVE  Append(q, x) \in Seq(S) /\ Append(q, x)[Len(Append(q, x))] = x
OBVIOUS

LEMMA TailKeepsLast ==
  ASSUME NEW S, NEW q \in Seq(S), q # <<>>
  PROVE  Tail(q) \in Seq(S) /\ (Tail(q) # <<>> => Tail(q)[Len(Tail(q))] = q[Len(q)])
OBVIOUS

\* A change of service s: the other services have no new instance.
LEMMA NotifyIInv ==
  ASSUME DiscoveryIInv, NEW inst, instances' = inst, NEW s \in Services, notifyWatchers(inst, s),
         DOMAIN inst \subseteq Ids, \A id \in DOMAIN inst : inst[id] \in Services,
         \A t \in Services \cup {NoService} : t # s => Snapshot(inst, t) \subseteq Snapshot(instances, t)
  PROVE  DiscoveryIInv'
<1>1. ASSUME NEW w \in Watchers
      PROVE watcher'[w] \in WatcherType /\ SeesLatest(watcher'[w], inst, w \in missed')
  <2>. DEFINE r == watcher[w]
  <2>1. r \in WatcherType /\ SeesLatest(r, instances, w \in missed)
    BY DEF DiscoveryIInv, DiscoveryTypes
  <2>2. r.queue \in Seq(Snapshots) /\ r.service \in Services \cup {NoService}
    BY <2>1 DEF WatcherType
  <2>3. CASE Listening(w, s) /\ ~Full(w)
    <3>. DEFINE q == Append(r.queue, Snapshot(inst, s))
    <3>1. watcher'[w] = [r EXCEPT !.queue = q]
      BY <2>3 DEF notifyWatchers
    <3>2. Snapshot(inst, s) \in Snapshots
      BY DEF Snapshot, Snapshots
    <3>3. q \in Seq(Snapshots) /\ q[Len(q)] = Snapshot(inst, s)
      BY <2>2, <3>2, AppendedIsLast
    <3>4. r.service = s
      BY <2>3 DEF Listening
    <3>. HIDE DEF q, r
    <3>5. watcher'[w] \in WatcherType /\ watcher'[w].queue = q /\ watcher'[w].service = s
      BY <2>1, <3>1, <3>3, <3>4 DEF WatcherType
    <3>. QED
      BY <3>3, <3>5 DEF SeesLatest
  <2>4. CASE Listening(w, s) /\ Full(w)
    <3>1. watcher'[w] = r /\ w \in missed'
      BY <2>4 DEF notifyWatchers
    <3>. QED
      BY <2>1, <3>1 DEF SeesLatest
  <2>5. CASE ~Listening(w, s)
    <3>1. watcher'[w] = r /\ (w \in missed' <=> w \in missed)
      BY <2>5 DEF notifyWatchers
    <3>2. r.state \in {"on", "cancelled"} => r.service # s
      BY <2>5 DEF Listening
    <3>. HIDE DEF r
    <3>3. r.state \in {"on", "cancelled"} => Snapshot(inst, r.service) \subseteq Snapshot(instances, r.service)
      BY <2>2, <3>2
    <3>. QED
      BY <2>1, <3>1, <3>3 DEF SeesLatest
  <2>. QED
    BY <2>3, <2>4, <2>5
<1>2. DOMAIN watcher' = Watchers /\ watcher' = [w \in Watchers |-> watcher'[w]]
  BY DEF notifyWatchers
<1>3. watcher' \in [Watchers -> WatcherType]
  BY <1>1, <1>2
<1>. QED
  BY <1>1, <1>3 DEF DiscoveryIInv, DiscoveryTypes

\* One watcher changes and nothing is registered.
LEMMA WatcherIInv ==
  ASSUME DiscoveryIInv, NEW w \in Watchers, NEW r \in WatcherType, watcher' = [watcher EXCEPT ![w] = r],
         instances' = instances, missed' = missed, SeesLatest(r, instances, w \in missed)
  PROVE  DiscoveryIInv'
<1>1. watcher'[w] = r /\ \A v \in Watchers \ {w} : watcher'[v] = watcher[v]
  BY DEF DiscoveryIInv, DiscoveryTypes
<1>2. watcher' \in [Watchers -> WatcherType]
  BY DEF DiscoveryIInv, DiscoveryTypes
<1>3. \A v \in Watchers : SeesLatest(watcher'[v], instances, v \in missed)
  BY <1>1 DEF DiscoveryIInv
<1>. QED
  BY <1>2, <1>3 DEF DiscoveryIInv, DiscoveryTypes

LEMMA DiscoveryNextIInv == DiscoveryIInv /\ [DiscoveryNext]_discoveryVars => DiscoveryIInv'
<1>. SUFFICES ASSUME DiscoveryIInv, [DiscoveryNext]_discoveryVars PROVE DiscoveryIInv'
  OBVIOUS
<1>0. /\ \A w \in Watchers : watcher[w] \in WatcherType /\ SeesLatest(watcher[w], instances, w \in missed)
      /\ DOMAIN instances \subseteq Ids /\ \A id \in DOMAIN instances : instances[id] \in Services
  BY DEF DiscoveryIInv, DiscoveryTypes
<1>1. ASSUME NEW id \in Ids, NEW s \in Services, Register(id, s) PROVE DiscoveryIInv'
  <2>1. instances' = WithEntry(instances, id, s) /\ notifyWatchers(instances', s)
    BY <1>1 DEF Register
  <2>2. /\ DOMAIN instances' = DOMAIN instances \cup {id} /\ instances'[id] = s
        /\ \A i \in DOMAIN instances : i # id => instances'[i] = instances[i]
    BY <2>1 DEF WithEntry
  <2>3. \A t \in Services \cup {NoService} : t # s => Snapshot(instances', t) \subseteq Snapshot(instances, t)
    BY <2>2 DEF Snapshot
  <2>4. DOMAIN instances' \subseteq Ids /\ \A i \in DOMAIN instances' : instances'[i] \in Services
    BY <1>0, <2>2
  <2>. QED
    BY <2>1, <2>3, <2>4, NotifyIInv
<1>2. ASSUME NEW id \in Ids, NEW s, s = instances[id], Deregister(id) PROVE DiscoveryIInv'
  <2>1. /\ id \in DOMAIN instances /\ instances' = Restrict(instances, DOMAIN instances \ {id})
        /\ notifyWatchers(instances', s)
    BY <1>2 DEF Deregister
  <2>2. /\ DOMAIN instances' = DOMAIN instances \ {id}
        /\ \A i \in DOMAIN instances \ {id} : instances'[i] = instances[i]
    BY <2>1, DropEntry
  <2>3. \A t \in Services \cup {NoService} : t # s => Snapshot(instances', t) \subseteq Snapshot(instances, t)
    BY <2>2 DEF Snapshot
  <2>4. DOMAIN instances' \subseteq Ids /\ \A i \in DOMAIN instances' : instances'[i] \in Services
    BY <1>0, <2>2
  <2>5. s \in Services
    BY <1>0, <1>2, <2>1
  <2>. QED
    BY <2>1, <2>3, <2>4, <2>5, NotifyIInv
<1>3. ASSUME NEW w \in Watchers, NEW s \in Services, Watch(w, s) PROVE DiscoveryIInv'
  <2>. DEFINE r == [state |-> "on", service |-> s, queue |-> <<>>, closed |-> FALSE]
  <2>1. watcher' = [watcher EXCEPT ![w] = r] /\ instances' = instances /\ missed' = missed
    BY <1>3 DEF Watch
  <2>2. r \in WatcherType
    BY DEF WatcherType
  <2>3. SeesLatest(r, instances, w \in missed)
    BY DEF SeesLatest
  <2>. QED
    BY <2>1, <2>2, <2>3, WatcherIInv
<1>4. ASSUME NEW w \in Watchers, Receive(w) PROVE DiscoveryIInv'
  <2>. DEFINE old == watcher[w]
              r == [old EXCEPT !.queue = Tail(old.queue)]
  <2>1. old.queue # <<>> /\ watcher' = [watcher EXCEPT ![w] = r] /\ instances' = instances /\ missed' = missed
    BY <1>4 DEF Receive
  <2>2. old \in WatcherType /\ SeesLatest(old, instances, w \in missed)
    BY <1>0
  <2>3. old.queue \in Seq(Snapshots)
    BY <2>2 DEF WatcherType
  <2>4. /\ Tail(old.queue) \in Seq(Snapshots)
        /\ Tail(old.queue) # <<>> => Tail(old.queue)[Len(Tail(old.queue))] = old.queue[Len(old.queue)]
    BY <2>1, <2>3, TailKeepsLast
  <2>. HIDE DEF old
  <2>5. r \in WatcherType /\ r.state = old.state /\ r.service = old.service /\ r.queue = Tail(old.queue)
    BY <2>2, <2>4 DEF WatcherType
  <2>. HIDE DEF r
  <2>6. SeesLatest(r, instances, w \in missed)
    BY <2>1, <2>2, <2>4, <2>5 DEF SeesLatest
  <2>. QED
    BY <2>1, <2>5, <2>6, WatcherIInv
<1>5. ASSUME NEW w \in Watchers, Cancel(w) PROVE DiscoveryIInv'
  <2>. DEFINE old == watcher[w]
              r == [old EXCEPT !.state = IF old.state = "on" THEN "cancelled" ELSE "ending"]
  <2>1. /\ old.state \in {"on", "detached"} /\ watcher' = [watcher EXCEPT ![w] = r]
        /\ instances' = instances /\ missed' = missed
    BY <1>5 DEF Cancel
  <2>2. old \in WatcherType /\ SeesLatest(old, instances, w \in missed)
    BY <1>0
  <2>. HIDE DEF old
  <2>3. r \in WatcherType /\ r.service = old.service /\ r.queue = old.queue
        /\ (r.state \in {"on", "cancelled"} => old.state = "on")
    BY <2>2 DEF WatcherType
  <2>. HIDE DEF r
  <2>4. SeesLatest(r, instances, w \in missed)
    BY <2>2, <2>3 DEF SeesLatest
  <2>. QED
    BY <2>1, <2>3, <2>4, WatcherIInv
<1>6. ASSUME NEW w \in Watchers, Unwatch(w) PROVE DiscoveryIInv'
  <2>. DEFINE old == watcher[w]
              r == [old EXCEPT !.state = "gone", !.closed = TRUE]
  <2>1. watcher' = [watcher EXCEPT ![w] = r] /\ instances' = instances /\ missed' = missed
    BY <1>6 DEF Unwatch
  <2>2. old \in WatcherType
    BY <1>0
  <2>. HIDE DEF old
  <2>3. r \in WatcherType /\ r.state = "gone"
    BY <2>2 DEF WatcherType
  <2>. HIDE DEF r
  <2>4. SeesLatest(r, instances, w \in missed)
    BY <2>3 DEF SeesLatest
  <2>. QED
    BY <2>1, <2>3, <2>4, WatcherIInv
<1>7. ASSUME CloseRegistry PROVE DiscoveryIInv'
  <2>1. instances' = <<>>
    BY <1>7 DEF CloseRegistry
  <2>2. ASSUME NEW w \in Watchers
        PROVE watcher'[w] \in WatcherType /\ watcher'[w].state \notin {"on", "cancelled"}
    <3>. DEFINE old == watcher[w]
    <3>1. old \in WatcherType
      BY <1>0
    <3>2. watcher'[w] = CASE old.state = "on" -> [old EXCEPT !.state = "detached", !.closed = TRUE]
                          [] old.state = "cancelled" -> [old EXCEPT !.state = "ending", !.closed = TRUE]
                          [] OTHER -> old
      BY <1>7 DEF CloseRegistry
    <3>. HIDE DEF old
    <3>3. CASE old.state = "on"
      BY <3>1, <3>2, <3>3 DEF WatcherType
    <3>4. CASE old.state = "cancelled"
      BY <3>1, <3>2, <3>4 DEF WatcherType
    <3>5. CASE old.state \notin {"on", "cancelled"}
      BY <3>1, <3>2, <3>5
    <3>. QED
      BY <3>3, <3>4, <3>5
  <2>3. watcher' = [w \in Watchers |-> watcher'[w]]
    BY <1>7 DEF CloseRegistry
  <2>4. DOMAIN instances' = {}
    BY <2>1
  <2>. QED
    BY <2>2, <2>3, <2>4 DEF DiscoveryIInv, DiscoveryTypes, SeesLatest
<1>8. ASSUME UNCHANGED discoveryVars PROVE DiscoveryIInv'
  <2>1. watcher' = watcher /\ instances' = instances /\ missed' = missed
    BY <1>8 DEF discoveryVars
  <2>. QED
    BY <2>1 DEF DiscoveryIInv, DiscoveryTypes
<1>. QED
  BY <1>1, <1>2, <1>3, <1>4, <1>5, <1>6, <1>7, <1>8 DEF DiscoveryNext, Renew

\* The newest snapshot in a watcher's channel has every instance the service has
\* now, unless the channel was full at the last change: for any number of watchers,
\* instances and services and any capacity (MemoryRegistry).
THEOREM WatcherSeesLatestTheorem == DiscoverySpec => []WatcherSeesLatest
<1>1. DiscoveryInit => DiscoveryIInv
  <2>1. NotWatching \in WatcherType /\ NotWatching.state = "none"
    BY DEF NotWatching, WatcherType
  <2>. QED
    BY <2>1 DEF DiscoveryInit, DiscoveryIInv, DiscoveryTypes, SeesLatest
<1>2. DiscoveryIInv => WatcherSeesLatest
  BY DEF DiscoveryIInv, SeesLatest, WatcherSeesLatest, Discover
<1>. QED
  BY <1>1, <1>2, DiscoveryNextIInv, PTL DEF DiscoverySpec

-----------------------------------------------------------------------------
(* Schema migrations *)

MigrationFile == [ver : Nat, name : FileNames]

SchemaRequest ==
  [pc : {"off", "write", "check", "exec", "record"}, todo : SUBSET MigrationFile, stmt : Int]

Versions == {f.ver : f \in dir}
Applying(p) == migr[p].pc \in {"check", "exec", "record"}

SchemaTypes ==
  /\ dir \subseteq MigrationFile /\ ran \subseteq dir
  /\ migr \in [Migrators -> SchemaRequest]

\* The files have the versions 1 .. m, some of them twice; a file about to be
\* written has one of these or the next.
VersionsAre(m) ==
  /\ m \in Nat /\ Versions = 1 .. m
  /\ \A p \in Migrators : migr[p].pc = "write" => \A f \in migr[p].todo : f.ver \in 1 .. m + 1

\* What is recorded is a file that ran.
RecordedRan == \A v \in DOMAIN recorded : recorded[v] \in ran /\ recorded[v].ver = v

\* Version v is recorded, or one of the files T has it.
Covered(v, T) == v \in DOMAIN recorded \/ \E h \in T : h.ver = v

\* A run leaves no version out: below the files it still has to apply, all are
\* recorded or are still to be applied too.
LeavesNoneOut(p) ==
  Applying(p) => /\ migr[p].todo \subseteq dir
                 /\ \A f \in migr[p].todo, g \in dir : g.ver < f.ver => Covered(g.ver, migr[p].todo)

\* A version is recorded after all statements of its file.
RanFirst(p) == migr[p].pc = "record" => \A f \in migr[p].todo : AtWork(p, f) => f \in ran

\* Below a recorded version all are recorded.
FromTheLowest == \A f \in dir, g \in dir : f.ver \in DOMAIN recorded /\ g.ver < f.ver => g.ver \in DOMAIN recorded

SchemaIInv ==
  /\ SchemaTypes /\ RecordedRan /\ FromTheLowest
  /\ \E m \in Nat : VersionsAre(m)
  /\ \A p \in Migrators : LeavesNoneOut(p) /\ RanFirst(p)

\* The file at the head of a run is the only one.
LEMMA OneAtWork ==
  ASSUME SchemaIInv, NEW p \in Migrators, NEW f, NEW g, AtWork(p, f), AtWork(p, g)
  PROVE  f = g
<1>1. f \in MigrationFile /\ g \in MigrationFile
  <2>1. migr[p] \in SchemaRequest
    BY DEF SchemaIInv, SchemaTypes
  <2>2. migr[p].todo \subseteq MigrationFile
    BY <2>1 DEF SchemaRequest
  <2>. QED
    BY <2>2 DEF AtWork
<1>2. f.ver \in Int /\ g.ver \in Int /\ f.name \in Int /\ g.name \in Int
  <2>1. \A x \in MigrationFile : x.ver \in Nat /\ x.name \in FileNames
    BY DEF MigrationFile
  <2>2. \A v \in FileNames : v \in Int
    BY MigrationsAssumption
  <2>3. \A v \in Nat : v \in Int
    OBVIOUS
  <2>. QED
    BY <1>1, <2>1, <2>2, <2>3, Zenon
<1>3. SUFFICES ASSUME f # g PROVE FALSE
  OBVIOUS
<1>4. Before(f, g) /\ Before(g, f)
  BY <1>3 DEF AtWork
<1>. QED
  BY <1>2, <1>4 DEF Before

\* The highest of the versions 0 .. m.
LEMMA HighestVersion ==
  ASSUME NEW m \in Nat, Versions = 1 .. m
  PROVE  NextVersion = m + 1
<1>1. {0} \cup {f.ver : f \in dir} = 0 .. m
  BY DEF Versions
<1>. DEFINE S == 0 .. m
<1>2. m \in S /\ \A y \in S : m >= y
  OBVIOUS
<1>3. Max(S) \in S /\ \A y \in S : Max(S) >= y
  BY <1>2 DEF Max
<1>4. Max(S) = m
  BY <1>2, <1>3
<1>. QED
  BY <1>1, <1>4 DEF NextVersion

\* A request that reads the directory or ends changes nothing that others rely on.
LEMMA RequestIInv ==
  ASSUME SchemaIInv, NEW p \in Migrators, NEW r \in SchemaRequest,
         migr' = [migr EXCEPT ![p] = r], dir' = dir, recorded' = recorded,
         ran \subseteq ran', ran' \subseteq dir,
         r.pc = "write" => \A m \in Nat : VersionsAre(m) => \A f \in r.todo : f.ver \in 1 .. m + 1,
         r.pc \in {"check", "exec", "record"} =>
           /\ r.todo \subseteq dir
           /\ \A f \in r.todo, g \in dir : g.ver < f.ver => Covered(g.ver, r.todo),
         r.pc = "record" => \A f \in r.todo : (\A g \in r.todo \ {f} : Before(f, g)) => f \in ran'
  PROVE  SchemaIInv'
<1>1. /\ migr \in [Migrators -> SchemaRequest] /\ migr'[p] = r
      /\ \A q \in Migrators \ {p} : migr'[q] = migr[q]
  BY DEF SchemaIInv, SchemaTypes
<1>2. SchemaTypes'
  BY <1>1 DEF SchemaIInv, SchemaTypes
<1>3. RecordedRan' /\ FromTheLowest'
  BY DEF SchemaIInv, RecordedRan, FromTheLowest
<1>4. \E m \in Nat : VersionsAre(m)'
  <2>1. PICK m \in Nat : VersionsAre(m)
    BY DEF SchemaIInv
  <2>2. VersionsAre(m)'
    BY <1>1, <2>1 DEF VersionsAre, Versions
  <2>. QED
    BY <2>2
<1>5. ASSUME NEW q \in Migrators PROVE LeavesNoneOut(q)' /\ RanFirst(q)'
  <2>1. CASE q = p
    <3>1. LeavesNoneOut(p)'
      BY <1>1 DEF LeavesNoneOut, Applying, Covered
    <3>2. RanFirst(p)'
      BY <1>1 DEF RanFirst, AtWork
    <3>. QED
      BY <2>1, <3>1, <3>2
  <2>2. CASE q # p
    <3>1. LeavesNoneOut(q) /\ RanFirst(q)
      BY DEF SchemaIInv
    <3>2. LeavesNoneOut(q)'
      BY <1>1, <2>2, <3>1 DEF LeavesNoneOut, Applying, Covered
    <3>3. RanFirst(q)'
      BY <1>1, <2>2, <3>1 DEF RanFirst, AtWork
    <3>. QED
      BY <3>2, <3>3
  <2>. QED
    BY <2>1, <2>2
<1>. QED
  BY <1>2, <1>3, <1>4, <1>5 DEF SchemaIInv

LEMMA SchemaNextIInv == SchemaIInv /\ [MigrationsNext]_migrationVars => SchemaIInv'
<1>. SUFFICES ASSUME SchemaIInv, [MigrationsNext]_migrationVars PROVE SchemaIInv'
  OBVIOUS
<1>0. /\ \A p \in Migrators : migr[p] \in SchemaRequest /\ LeavesNoneOut(p) /\ RanFirst(p)
      /\ dir \subseteq MigrationFile /\ ran \subseteq dir
      /\ NoRequest \in SchemaRequest /\ NoRequest.pc = "off"
  BY DEF SchemaIInv, SchemaTypes, NoRequest, SchemaRequest
<1>1. ASSUME NEW p \in Migrators, NEW n \in FileNames, CreateMigrationFile(p, n) PROVE SchemaIInv'
  <2>. DEFINE f == [ver |-> NextVersion, name |-> n]
              r == [pc |-> "write", todo |-> {f}, stmt |-> 0]
  <2>1. migr' = [migr EXCEPT ![p] = r] /\ dir' = dir /\ recorded' = recorded /\ ran' = ran
    BY <1>1 DEF CreateMigrationFile
  <2>2. PICK m \in Nat : VersionsAre(m)
    BY DEF SchemaIInv
  <2>3. ASSUME NEW k \in Nat, VersionsAre(k) PROVE NextVersion = k + 1
    BY <2>3, HighestVersion DEF VersionsAre
  <2>4. NextVersion \in Nat
    BY <2>2, <2>3
  <2>5. f \in MigrationFile
    BY <2>4 DEF MigrationFile
  <2>6. \A k \in Nat : VersionsAre(k) => f.ver \in 1 .. k + 1
    BY <2>3
  <2>. HIDE DEF f
  <2>7. r \in SchemaRequest /\ r.pc = "write" /\ r.todo = {f}
    BY <2>5 DEF SchemaRequest
  <2>. HIDE DEF r
  <2>. QED
    BY <1>0, <2>1, <2>6, <2>7, RequestIInv
<1>2. ASSUME NEW p \in Migrators, ApplyAll(p) PROVE SchemaIInv'
  <2>. DEFINE r == [pc |-> "check", todo |-> Pending, stmt |-> 0]
  <2>1. migr' = [migr EXCEPT ![p] = r] /\ dir' = dir /\ recorded' = recorded /\ ran' = ran
    BY <1>2 DEF ApplyAll
  <2>2. r \in SchemaRequest /\ r.pc = "check" /\ r.todo = Pending
    BY <1>0 DEF SchemaRequest, Pending
  <2>3. Pending \subseteq dir
    BY DEF Pending
  <2>4. ASSUME NEW f \in Pending, NEW g \in dir, g.ver < f.ver PROVE Covered(g.ver, Pending)
    <3>1. CASE g \in Pending
      BY <3>1 DEF Covered
    <3>2. CASE g \notin Pending
      <4>1. g.ver \in Applied
        BY <3>2 DEF Pending
      <4>2. PICK m \in Nat : VersionsAre(m)
        BY DEF SchemaIInv
      <4>3. g.ver \in 1 .. m
        BY <4>2 DEF VersionsAre, Versions
      <4>4. g.ver # 0
        BY <4>3
      <4>5. g.ver \in DOMAIN recorded
        BY <4>1, <4>4 DEF Applied
      <4>. QED
        BY <4>5 DEF Covered
    <3>. QED
      BY <3>1, <3>2
  <2>. HIDE DEF r
  <2>. QED
    BY <1>0, <2>1, <2>2, <2>3, <2>4, RequestIInv
<1>3. ASSUME NEW p \in Migrators, NEW f \in migr[p].todo, CheckApplied(p, f) PROVE SchemaIInv'
  <2>. DEFINE old == migr[p]
              r == IF f.ver \in Applied THEN NoRequest ELSE [old EXCEPT !.pc = "exec"]
  <2>1. /\ old.pc = "check" /\ migr' = [migr EXCEPT ![p] = r]
        /\ dir' = dir /\ recorded' = recorded /\ ran' = ran
    BY <1>3 DEF CheckApplied
  <2>2. old \in SchemaRequest
    BY <1>0
  <2>3. /\ old.todo \subseteq dir
        /\ \A h \in old.todo, g \in dir : g.ver < h.ver => Covered(g.ver, old.todo)
    BY <1>0, <2>1 DEF LeavesNoneOut, Applying
  <2>. HIDE DEF old
  <2>4. r \in SchemaRequest /\ r.pc \in {"off", "exec"} /\ (r.pc = "exec" => r.todo = old.todo)
    BY <1>0, <2>2 DEF SchemaRequest
  <2>. HIDE DEF r
  <2>. QED
    BY <1>0, <2>1, <2>3, <2>4, RequestIInv
<1>4. ASSUME NEW p \in Migrators, NEW f \in migr[p].todo, ExecStatement(p, f) PROVE SchemaIInv'
  <2>. DEFINE old == migr[p]
              last == old.stmt + 1 = Statements
              r == [pc |-> IF last THEN "record" ELSE "exec", todo |-> old.todo,
                    stmt |-> IF last THEN 0 ELSE old.stmt + 1]
  <2>1. /\ old.pc = "exec" /\ AtWork(p, f) /\ migr' = [migr EXCEPT ![p] = r]
        /\ dir' = dir /\ recorded' = recorded /\ ran' = IF last THEN ran \cup {f} ELSE ran
    BY <1>4 DEF ExecStatement
  <2>2. old \in SchemaRequest
    BY <1>0
  <2>3. /\ old.todo \subseteq dir
        /\ \A h \in old.todo, g \in dir : g.ver < h.ver => Covered(g.ver, old.todo)
    BY <1>0, <2>1 DEF LeavesNoneOut, Applying
  <2>4. ASSUME NEW h \in old.todo, \A g \in old.todo \ {h} : Before(h, g) PROVE h = f
    <3>1. AtWork(p, h)
      BY <2>4 DEF AtWork
    <3>. QED
      BY <2>1, <3>1, OneAtWork
  <2>. HIDE DEF old
  <2>5. /\ r \in SchemaRequest /\ r.pc \in {"exec", "record"} /\ r.todo = old.todo
        /\ (r.pc = "record" => last)
    BY <2>2 DEF SchemaRequest
  <2>. HIDE DEF last, r
  <2>6. ran \subseteq ran' /\ ran' \subseteq dir /\ (r.pc = "record" => f \in ran')
    BY <1>0, <1>4, <2>1, <2>3, <2>5 DEF old
  <2>. QED
    BY <1>0, <2>1, <2>3, <2>4, <2>5, <2>6, RequestIInv
<1>5. ASSUME NEW p \in Migrators, MigrationFails(p) PROVE SchemaIInv'
  <2>1. migr' = [migr EXCEPT ![p] = NoRequest] /\ dir' = dir /\ recorded' = recorded /\ ran' = ran
    BY <1>5 DEF MigrationFails
  <2>. QED
    BY <1>0, <2>1, RequestIInv
<1>6. ASSUME NEW p \in Migrators, NEW T, T = migr[p].todo, WriteFile(p) PROVE SchemaIInv'
  <2>1. /\ migr[p].pc = "write" /\ migr' = [migr EXCEPT ![p] = NoRequest] /\ dir' = dir \cup T
        /\ recorded' = recorded /\ ran' = ran
    BY <1>6 DEF WriteFile
  <2>2. PICK m \in Nat : VersionsAre(m)
    BY DEF SchemaIInv
  <2>3. /\ migr'[p] = NoRequest /\ \A q \in Migrators \ {p} : migr'[q] = migr[q]
        /\ migr' \in [Migrators -> SchemaRequest]
    BY <1>0, <2>1 DEF SchemaIInv, SchemaTypes
  <2>4. T \subseteq MigrationFile
    BY <1>0, <1>6 DEF SchemaRequest
  <2>5. \A f \in dir' : f.ver \in 1 .. m + 1
    BY <1>6, <2>1, <2>2 DEF VersionsAre, Versions
  <2>6. ASSUME NEW v \in 1 .. m PROVE \E f \in dir : f.ver = v
    BY <2>2 DEF VersionsAre, Versions
  <2>7. DOMAIN recorded \subseteq 1 .. m
    BY <1>0, <2>2 DEF SchemaIInv, RecordedRan, VersionsAre, Versions
  <2>8. SchemaTypes' /\ RecordedRan'
    BY <1>0, <2>1, <2>3, <2>4 DEF SchemaIInv, SchemaTypes, RecordedRan
  <2>9. ASSUME NEW v \in 1 .. m, NEW g \in dir', g.ver < v PROVE \E h \in dir : h.ver = g.ver
    <3>1. g.ver \in 1 .. m
      BY <2>5, <2>9
    <3>. QED
      BY <2>6, <3>1
  <2>10. FromTheLowest'
    <3>1. SUFFICES ASSUME NEW f \in dir', NEW g \in dir', f.ver \in DOMAIN recorded, g.ver < f.ver
                   PROVE g.ver \in DOMAIN recorded
      BY <2>1 DEF FromTheLowest
    <3>2. PICK h \in dir : h.ver = g.ver
      BY <2>7, <2>9, <3>1
    <3>3. PICK k \in dir : k.ver = f.ver
      BY <2>6, <2>7, <3>1
    <3>. QED
      BY <3>1, <3>2, <3>3 DEF SchemaIInv, FromTheLowest
  <2>11. \E k \in Nat : VersionsAre(k)'
    <3>. DEFINE k == IF \E f \in T : f.ver = m + 1 THEN m + 1 ELSE m
    <3>1. k \in Nat /\ k >= m /\ k <= m + 1
      BY <2>2
    <3>2. ASSUME NEW f \in dir' PROVE f.ver \in 1 .. k
      <4>1. CASE f \in dir
        BY <2>2, <3>1, <4>1 DEF VersionsAre, Versions
      <4>2. CASE f \in T
        BY <2>5, <3>2, <4>2
      <4>. QED
        BY <2>1, <4>1, <4>2
    <3>3. ASSUME NEW v \in 1 .. k PROVE \E f \in dir' : f.ver = v
      <4>1. CASE v \in 1 .. m
        BY <2>1, <2>6, <4>1
      <4>2. CASE v \notin 1 .. m
        BY <2>1, <4>2
      <4>. QED
        BY <4>1, <4>2
    <3>. HIDE DEF k
    <3>4. Versions' = 1 .. k
      BY <3>2, <3>3 DEF Versions
    <3>5. ASSUME NEW q \in Migrators, migr'[q].pc = "write", NEW f \in migr'[q].todo PROVE f.ver \in 1 .. k + 1
      <4>1. q # p /\ migr'[q] = migr[q]
        BY <1>0, <2>3, <3>5
      <4>2. f.ver \in 1 .. m + 1
        BY <2>2, <3>5, <4>1 DEF VersionsAre
      <4>. QED
        BY <3>1, <4>2
    <3>6. ASSUME NEW j, j = k PROVE VersionsAre(j)'
      BY <3>1, <3>4, <3>5, <3>6 DEF VersionsAre
    <3>. QED
      BY <3>1, <3>6
  <2>12. ASSUME NEW q \in Migrators PROVE LeavesNoneOut(q)' /\ RanFirst(q)'
    <3>1. CASE q = p
      BY <1>0, <2>3, <3>1 DEF LeavesNoneOut, RanFirst, Applying
    <3>2. CASE q # p
      <4>1. migr'[q] = migr[q] /\ LeavesNoneOut(q) /\ RanFirst(q)
        BY <1>0, <2>3, <3>2
      <4>2. RanFirst(q)'
        BY <2>1, <4>1 DEF RanFirst, AtWork
      <4>3. SUFFICES ASSUME Applying(q)
                     PROVE /\ migr[q].todo \subseteq dir'
                           /\ \A f \in migr[q].todo, g \in dir' : g.ver < f.ver => Covered(g.ver, migr[q].todo)
        BY <2>1, <4>1, <4>2 DEF LeavesNoneOut, Applying, Covered
      <4>4. migr[q].todo \subseteq dir
        BY <4>1, <4>3 DEF LeavesNoneOut
      <4>5. ASSUME NEW f \in migr[q].todo, NEW g \in dir', g.ver < f.ver PROVE Covered(g.ver, migr[q].todo)
        <5>1. f.ver \in 1 .. m
          BY <2>2, <4>4 DEF VersionsAre, Versions
        <5>2. PICK h \in dir : h.ver = g.ver
          BY <2>9, <4>5, <5>1
        <5>3. Covered(h.ver, migr[q].todo)
          BY <4>1, <4>3, <4>5, <5>2 DEF LeavesNoneOut
        <5>. QED
          BY <5>2, <5>3
      <4>. QED
        BY <2>1, <4>4, <4>5
    <3>. QED
      BY <3>1, <3>2
  <2>. QED
    BY <2>8, <2>10, <2>11, <2>12 DEF SchemaIInv
<1>7. ASSUME NEW p \in Migrators, NEW f \in migr[p].todo, NEW T, T = migr[p].todo, Record(p, f) PROVE SchemaIInv'
  <2>. DEFINE twice == f.ver \in DOMAIN recorded
              r == IF twice \/ T \ {f} = {} THEN NoRequest
                   ELSE [pc |-> "check", todo |-> T \ {f}, stmt |-> 0]
  <2>1. /\ migr[p].pc = "record" /\ AtWork(p, f) /\ dir' = dir /\ ran' = ran
        /\ recorded' = IF twice THEN recorded ELSE WithEntry(recorded, f.ver, f)
        /\ migr' = [migr EXCEPT ![p] = r]
    BY <1>7 DEF Record
  <2>2. T \subseteq MigrationFile
    BY <1>0, <1>7 DEF SchemaRequest
  <2>3. f \in ran /\ f \in T /\ \A h \in T \ {f} : Before(f, h)
    BY <1>0, <1>7, <2>1 DEF RanFirst, AtWork
  <2>4. /\ T \subseteq dir
        /\ \A h \in T, g \in dir : g.ver < h.ver => Covered(g.ver, T)
    BY <1>0, <1>7, <2>1 DEF LeavesNoneOut, Applying
  <2>5. /\ DOMAIN recorded' = DOMAIN recorded \cup {f.ver}
        /\ \A v \in DOMAIN recorded : recorded'[v] = recorded[v]
        /\ f.ver \notin DOMAIN recorded => recorded'[f.ver] = f
    BY <2>1 DEF WithEntry
  <2>6. /\ r \in SchemaRequest /\ r.pc \in {"off", "check"} /\ (r.pc = "check" => r.todo = T \ {f})
    BY <1>0, <2>2 DEF SchemaRequest
  <2>. HIDE DEF r, twice
  <2>7. /\ migr'[p] = r /\ \A q \in Migrators \ {p} : migr'[q] = migr[q]
        /\ migr' \in [Migrators -> SchemaRequest]
    BY <2>1, <2>6 DEF SchemaIInv, SchemaTypes
  <2>8. SchemaTypes'
    BY <1>0, <2>1, <2>7 DEF SchemaTypes
  <2>9. RecordedRan'
    BY <2>1, <2>3, <2>5 DEF SchemaIInv, RecordedRan
  <2>10. ASSUME NEW g \in dir, g.ver < f.ver PROVE g.ver \in DOMAIN recorded
    <3>1. CASE \E h \in T : h.ver = g.ver
      <4>1. PICK h \in T : h.ver = g.ver
        BY <3>1
      <4>2. h.ver \in Int /\ f.ver \in Int
        BY <2>2, <2>3 DEF MigrationFile
      <4>3. h # f
        BY <2>10, <4>1, <4>2
      <4>. QED
        BY <2>3, <2>10, <4>1, <4>2, <4>3 DEF Before
    <3>. QED
      BY <2>3, <2>4, <2>10, <3>1 DEF Covered
  <2>11. FromTheLowest'
    BY <2>1, <2>5, <2>10 DEF SchemaIInv, FromTheLowest
  <2>12. \E m \in Nat : VersionsAre(m)'
    <3>1. PICK m \in Nat : VersionsAre(m)
      BY DEF SchemaIInv
    <3>2. VersionsAre(m)'
      BY <2>1, <2>6, <2>7, <3>1 DEF VersionsAre, Versions
    <3>. QED
      BY <3>2
  <2>13. ASSUME NEW q \in Migrators PROVE LeavesNoneOut(q)' /\ RanFirst(q)'
    <3>1. CASE q = p
      <4>1. RanFirst(q)'
        BY <2>6, <2>7, <3>1 DEF RanFirst
      <4>2. ASSUME NEW h \in T, NEW g \in dir, g.ver < h.ver
            PROVE g.ver \in DOMAIN recorded' \/ \E k \in T \ {f} : k.ver = g.ver
        BY <2>4, <2>5, <4>2 DEF Covered
      <4>3. LeavesNoneOut(q)'
        BY <2>1, <2>4, <2>6, <2>7, <3>1, <4>2 DEF LeavesNoneOut, Applying, Covered
      <4>. QED
        BY <4>1, <4>3
    <3>2. CASE q # p
      <4>1. migr'[q] = migr[q] /\ LeavesNoneOut(q) /\ RanFirst(q)
        BY <1>0, <2>7, <3>2
      <4>2. RanFirst(q)'
        BY <2>1, <4>1 DEF RanFirst, AtWork
      <4>3. LeavesNoneOut(q)'
        BY <2>1, <2>5, <4>1 DEF LeavesNoneOut, Applying, Covered
      <4>. QED
        BY <4>2, <4>3
    <3>. QED
      BY <3>1, <3>2
  <2>. QED
    BY <2>8, <2>9, <2>11, <2>12, <2>13 DEF SchemaIInv
<1>8. ASSUME UNCHANGED migrationVars PROVE SchemaIInv'
  <2>1. migr' = migr /\ dir' = dir /\ recorded' = recorded /\ ran' = ran
    BY <1>8 DEF migrationVars
  <2>2. SchemaTypes' /\ RecordedRan' /\ FromTheLowest'
    BY <2>1 DEF SchemaIInv, SchemaTypes, RecordedRan, FromTheLowest
  <2>3. \E m \in Nat : VersionsAre(m)'
    BY <2>1 DEF SchemaIInv, VersionsAre, Versions
  <2>4. ASSUME NEW p \in Migrators PROVE LeavesNoneOut(p)' /\ RanFirst(p)'
    BY <1>0, <2>1 DEF LeavesNoneOut, RanFirst, Applying, Covered, AtWork
  <2>. QED
    BY <2>2, <2>3, <2>4 DEF SchemaIInv
<1>. QED
  BY <1>1, <1>2, <1>3, <1>4, <1>5, <1>6, <1>7, <1>8 DEF MigrationsNext

\* Versions are recorded from the lowest up, each after all statements of the file it
\* names; a file whose version is recorded without its having run has a twin: for any
\* number of requests, files and statements, also where two runs of ApplyAll overlap
\* or fail half way (SchemaMigrator).
THEOREM RecordedInOrderTheorem == MigrationsSpec => []RecordedInOrder
<1>1. MigrationsInit => SchemaIInv
  <2>. SUFFICES ASSUME MigrationsInit PROVE SchemaIInv
    OBVIOUS
  <2>1. dir = {} /\ ran = {} /\ DOMAIN recorded = {} /\ \A p \in Migrators : migr[p] = NoRequest
    BY DEF MigrationsInit
  <2>2. NoRequest \in SchemaRequest /\ NoRequest.pc = "off"
    BY DEF NoRequest, SchemaRequest
  <2>3. Versions = 1 .. 0
    BY <2>1 DEF Versions
  <2>4. VersionsAre(0)
    BY <2>1, <2>2, <2>3 DEF VersionsAre
  <2>5. SchemaTypes /\ RecordedRan /\ FromTheLowest
    BY <2>1, <2>2 DEF MigrationsInit, SchemaTypes, RecordedRan, FromTheLowest
  <2>. QED
    BY <2>1, <2>2, <2>4, <2>5 DEF SchemaIInv, LeavesNoneOut, RanFirst, Applying
<1>2. SchemaIInv => RecordedInOrder
  <2>. SUFFICES ASSUME SchemaIInv, NEW f \in dir, f.ver \in DOMAIN recorded
                PROVE /\ recorded[f.ver] \in ran
                      /\ f \in ran \/ Twin(f)
                      /\ \A g \in dir : g.ver < f.ver => g.ver \in DOMAIN recorded
    BY DEF RecordedInOrder
  <2>1. recorded[f.ver] \in ran /\ recorded[f.ver].ver = f.ver /\ ran \subseteq dir
    BY DEF SchemaIInv, RecordedRan, SchemaTypes
  <2>2. f \in ran \/ Twin(f)
    BY <2>1 DEF Twin
  <2>. QED
    BY <2>1, <2>2 DEF SchemaIInv, FromTheLowest
<1>. QED
  BY <1>1, <1>2, SchemaNextIInv, PTL DEF MigrationsSpec

-----------------------------------------------------------------------------
(* Keys and what they seal *)

\* The value of a string cell with text t: plain, or sealed with the key of its
\* label; without a label it is the first key.
SealedAs(v, t) ==
  \/ v = Plain(t)
  \/ \E k \in 0 .. current :
       v = [form |-> "string", ver |-> k, key |-> IF k = 0 THEN 1 ELSE k, text |-> t]

\* As long as no old key is dropped the labels are the numbers of the keys.
KeysInOrder ==
  /\ current \in 1 .. MaxKeys + 1 /\ currentVer = current
  /\ DOMAIN versions = 1 .. current - 1 /\ \A v \in DOMAIN versions : versions[v] = v

CellsInOrder ==
  /\ DOMAIN cell = Cells /\ DOMAIN text = Cells
  /\ \A c \in Cells : KindOf[c] # "bytes" /\ c \notin overtaken => SealedAs(cell[c], text[c])

KeyIInv == dropped \/ (KeysInOrder /\ CellsInOrder)

\* The first version that 1 .. n leaves free.
LEMMA FirstFreeNext ==
  ASSUME NEW n \in Nat, n <= MaxKeys, NEW old, DOMAIN old = 1 .. n
  PROVE  FirstFree(old) = n + 1
<1>. USE KeyAssumption
<1>. DEFINE S == (1 .. MaxKeys + 1) \ (1 .. n)
<1>1. n + 1 \in S /\ \A y \in S : n + 1 <= y
  OBVIOUS
<1>2. n + 1 \in Int /\ \A y \in S : y \in Int
  OBVIOUS
<1>. HIDE DEF S
<1>3. Min(S) \in S /\ \A y \in S : Min(S) <= y
  BY <1>1 DEF Min
<1>4. Min(S) = n + 1
  BY <1>1, <1>2, <1>3
<1>. QED
  BY <1>4 DEF FirstFree, S

\* What is sealed now is labelled with the current key.
LEMMA EncryptedInOrder ==
  ASSUME KeysInOrder, NEW t
  PROVE  SealedAs(EncryptString(t), t)
<1>1. current \in Int /\ current >= 1 /\ currentVer = current
  BY KeyAssumption DEF KeysInOrder
<1>2. EncryptString(t) = [form |-> "string", ver |-> current, key |-> IF current = 0 THEN 1 ELSE current, text |-> t]
  BY <1>1 DEF EncryptString
<1>3. current \in 0 .. current
  BY <1>1
<1>. QED
  BY <1>2, <1>3 DEF SealedAs

\* A value that decrypts has its text, and decrypts unless its label is missing.
LEMMA DecryptsInOrder ==
  ASSUME KeysInOrder, NEW v, NEW t, SealedAs(v, t)
  PROVE  /\ v = Plain(t) \/ DecryptString(v) \in {Failed, Plain(t)}
         /\ v = Plain(t) \/ (v.form = "string" /\ v.ver = 0 /\ current > 1) \/ DecryptString(v) = Plain(t)
         /\ isEncrypted(v) <=> v # Plain(t)
<1>1. current \in Int /\ current >= 1 /\ currentVer = current
  BY KeyAssumption DEF KeysInOrder
<1>2. CASE v = Plain(t)
  BY <1>2 DEF isEncrypted, Plain
<1>3. ASSUME NEW k \in 0 .. current,
             v = [form |-> "string", ver |-> k, key |-> IF k = 0 THEN 1 ELSE k, text |-> t]
      PROVE  /\ DecryptString(v) \in {Failed, Plain(t)}
             /\ (v.form = "string" /\ v.ver = 0 /\ current > 1) \/ DecryptString(v) = Plain(t)
             /\ isEncrypted(v) /\ v # Plain(t)
  <2>1. v.form = "string" /\ v.ver = k /\ v.key = (IF k = 0 THEN 1 ELSE k) /\ v.text = t
    BY <1>3
  <2>2. v # Plain(t)
    <3>1. Plain(t).form = "plain"
      BY DEF Plain
    <3>. QED
      BY <2>1, <3>1
  <2>3. DecryptString(v) = IF v.key = (IF k = 0 THEN current ELSE KeyOrCurrent(k)) THEN Plain(t) ELSE Failed
    BY <2>1 DEF DecryptString
  <2>4. ASSUME k # 0 PROVE KeyOrCurrent(k) = k
    <3>1. k \in Int /\ (k # current => k \in 1 .. current - 1)
      BY <1>1, <2>4
    <3>. QED
      BY <1>1, <3>1 DEF KeyOrCurrent, KeysInOrder
  <2>5. ASSUME k = 0, ~(current > 1) PROVE v.key = current
    BY <1>1, <2>1, <2>5
  <2>6. (k = 0 /\ current > 1) \/ DecryptString(v) = Plain(t)
    BY <2>1, <2>3, <2>4, <2>5
  <2>. QED
    BY <2>1, <2>2, <2>3, <2>6 DEF isEncrypted
<1>. QED
  BY <1>2, <1>3 DEF SealedAs

\* A cell is written back, or another value of a stale page.
LEMMA WriteBackIInv ==
  ASSUME KeysInOrder, CellsInOrder, NEW c, NEW read, NEW new, WriteBack(c, read, new),
         c \in Cells /\ KindOf[c] # "bytes" /\ c \notin overtaken /\ cell[c] = read => SealedAs(new, text[c])
  PROVE  KeyIInv'
<1>1. /\ cell' = [cell EXCEPT ![c] = new]
      /\ overtaken' = IF cell[c] = read THEN overtaken ELSE overtaken \cup {c}
      /\ current' = current /\ versions' = versions /\ currentVer' = currentVer /\ text' = text
  BY DEF WriteBack
<1>2. KeysInOrder'
  BY <1>1 DEF KeysInOrder
<1>3. DOMAIN cell' = Cells /\ \A d \in Cells : cell'[d] = IF d = c THEN new ELSE cell[d]
  BY <1>1 DEF CellsInOrder
<1>4. ASSUME NEW d \in Cells, KindOf[d] # "bytes", d \notin overtaken' PROVE SealedAs(cell'[d], text[d])
  <2>1. CASE d = c
    <3>1. cell[c] = read /\ c \notin overtaken
      BY <1>1, <1>4, <2>1
    <3>. QED
      BY <1>3, <1>4, <2>1, <3>1
  <2>2. CASE d # c
    <3>1. d \notin overtaken
      BY <1>1, <1>4
    <3>. QED
      BY <1>3, <1>4, <2>2, <3>1 DEF CellsInOrder
  <2>. QED
    BY <2>1, <2>2
<1>5. CellsInOrder'
  BY <1>1, <1>3, <1>4 DEF CellsInOrder, SealedAs
<1>. QED
  BY <1>2, <1>5 DEF KeyIInv

\* A cell gets a new text.
LEMMA SaveIInv ==
  ASSUME KeysInOrder, CellsInOrder, NEW c \in Cells, NEW t, NEW v, KindOf[c] # "bytes" => SealedAs(v, t),
         cell' = [cell EXCEPT ![c] = v], text' = [text EXCEPT ![c] = t],
         \A d \in Cells : d # c /\ d \notin overtaken' => d \notin overtaken,
         current' = current, versions' = versions, currentVer' = currentVer
  PROVE  KeyIInv'
<1>1. KeysInOrder'
  BY DEF KeysInOrder
<1>2. /\ DOMAIN cell' = Cells /\ \A d \in Cells : cell'[d] = IF d = c THEN v ELSE cell[d]
      /\ DOMAIN text' = Cells /\ \A d \in Cells : text'[d] = IF d = c THEN t ELSE text[d]
  BY DEF CellsInOrder
<1>3. ASSUME NEW d \in Cells, KindOf[d] # "bytes", d \notin overtaken' PROVE SealedAs(cell'[d], text'[d])
  <2>1. CASE d = c
    BY <1>2, <1>3, <2>1
  <2>2. CASE d # c
    BY <1>2, <1>3, <2>2 DEF CellsInOrder
  <2>. QED
    BY <2>1, <2>2
<1>4. CellsInOrder'
  BY <1>2, <1>3 DEF CellsInOrder, SealedAs
<1>. QED
  BY <1>1, <1>4 DEF KeyIInv

LEMMA KeyNextIInv == KeyIInv /\ [KeyNext]_keyVars => KeyIInv'
<1>. SUFFICES ASSUME KeyIInv, [KeyNext]_keyVars PROVE KeyIInv'
  OBVIOUS
<1>0. CASE dropped
  <2>1. dropped'
    BY <1>0 DEF KeyNext, keyVars, EncryptFields, handleEncrypt, Rotate, DropOld, StartReEncrypt, NextPage,
                ReEncryptTable, ReEncryptRows, PassFails, WriteBack
  <2>. QED
    BY <2>1 DEF KeyIInv
<1>. SUFFICES ASSUME ~dropped PROVE KeyIInv'
  BY <1>0
<1>1. KeysInOrder /\ CellsInOrder
  BY DEF KeyIInv
<1>2. ASSUME NEW c \in Cells, NEW t \in Texts, EncryptFields(c, t) PROVE KeyIInv'
  <2>. DEFINE v == EncryptField(c, Plain(t))
  <2>1. /\ cell' = [cell EXCEPT ![c] = v] /\ text' = [text EXCEPT ![c] = t] /\ overtaken' = overtaken \ {c}
        /\ current' = current /\ versions' = versions /\ currentVer' = currentVer
    BY <1>2 DEF EncryptFields
  <2>2. KindOf[c] # "bytes" => v = EncryptString(t)
    BY DEF EncryptField, Plain
  <2>3. KindOf[c] # "bytes" => SealedAs(v, t)
    BY <1>1, <2>2, EncryptedInOrder
  <2>4. \A d \in Cells : d # c /\ d \notin overtaken' => d \notin overtaken
    BY <2>1
  <2>. HIDE DEF v
  <2>. QED
    BY <1>1, <2>1, <2>3, <2>4, SaveIInv
<1>3. ASSUME NEW c \in Cells, NEW t \in Texts, handleEncrypt(c, t) PROVE KeyIInv'
  <2>1. /\ cell' = [cell EXCEPT ![c] = EncryptString(t)] /\ text' = [text EXCEPT ![c] = t]
        /\ overtaken' = overtaken
        /\ current' = current /\ versions' = versions /\ currentVer' = currentVer
    BY <1>3 DEF handleEncrypt
  <2>2. SealedAs(EncryptString(t), t)
    BY <1>1, EncryptedInOrder
  <2>. QED
    BY <1>1, <2>1, <2>2, SaveIInv
<1>4. ASSUME Rotate PROVE KeyIInv'
  <2>. DEFINE n == current
  <2>1. /\ current < MaxKeys /\ current' = current + 1 /\ versions' = WithEntry(versions, currentVer, current)
        /\ currentVer' = FirstFree(versions')
        /\ cell' = cell /\ text' = text /\ overtaken' = overtaken
    BY <1>4 DEF Rotate, Configure
  <2>2. current \in Nat /\ current >= 1 /\ MaxKeys \in Nat /\ currentVer = current
        /\ DOMAIN versions = 1 .. current - 1 /\ \A v \in DOMAIN versions : versions[v] = v
    BY <1>1, KeyAssumption DEF KeysInOrder
  <2>3. /\ DOMAIN versions' = DOMAIN versions \cup {current} /\ versions'[current] = current
        /\ \A v \in DOMAIN versions : v # current => versions'[v] = versions[v]
    BY <2>1, <2>2 DEF WithEntry
  <2>4. DOMAIN versions' = 1 .. current
    BY <2>2, <2>3
  <2>5. currentVer' = current + 1
    BY <2>1, <2>2, <2>4, FirstFreeNext
  <2>6. current + 1 \in 1 .. MaxKeys + 1 /\ 1 .. current = 1 .. (current + 1) - 1
    BY <2>1, <2>2
  <2>7. \A v \in DOMAIN versions' : versions'[v] = v
    BY <2>2, <2>3
  <2>8. KeysInOrder'
    BY <2>1, <2>4, <2>5, <2>6, <2>7 DEF KeysInOrder
  <2>9. \A k \in 0 .. current : k \in 0 .. current'
    BY <2>1, <2>2
  <2>10. CellsInOrder'
    BY <1>1, <2>1, <2>9 DEF CellsInOrder, SealedAs
  <2>. QED
    BY <2>8, <2>10 DEF KeyIInv
<1>5. ASSUME NEW ver, DropOld(ver) PROVE KeyIInv'
  BY <1>5 DEF DropOld, KeyIInv
<1>6. ASSUME UNCHANGED <<current, versions, currentVer, cell, text, overtaken>> PROVE KeyIInv'
  <2>1. KeysInOrder'
    BY <1>1, <1>6 DEF KeysInOrder
  <2>2. CellsInOrder'
    BY <1>1, <1>6 DEF CellsInOrder, SealedAs
  <2>. QED
    BY <2>1, <2>2 DEF KeyIInv
<1>7. ASSUME ReEncryptTable PROVE KeyIInv'
  <2>. DEFINE row == Head(pass.page)
              dec == DecryptField(row.c, row.v)
  <2>1. CASE dec = Failed
    BY <1>6, <1>7, <2>1 DEF ReEncryptTable
  <2>2. CASE dec # Failed
    <3>1. WriteBack(row.c, row.v, EncryptField(row.c, dec))
      BY <1>7, <2>2 DEF ReEncryptTable
    <3>2. ASSUME NEW c, NEW v, c = row.c, v = row.v, c \in Cells, KindOf[c] # "bytes", c \notin overtaken, cell[c] = v
          PROVE SealedAs(EncryptField(c, dec), text[c])
      <4>1. SealedAs(v, text[c])
        BY <1>1, <3>2 DEF CellsInOrder
      <4>2. dec = Plain(text[c])
        BY <1>1, <2>2, <3>2, <4>1, DecryptsInOrder DEF DecryptField
      <4>3. EncryptField(c, dec) = EncryptString(text[c])
        BY <3>2, <4>2 DEF EncryptField, Plain
      <4>. QED
        BY <1>1, <4>3, EncryptedInOrder
    <3>. QED
      BY <1>1, <3>1, <3>2, WriteBackIInv
  <2>. QED
    BY <2>1, <2>2
<1>8. ASSUME ReEncryptRows PROVE KeyIInv'
  <2>. DEFINE row == Head(pass.page)
              dec == DecryptString(row.v)
              skip == KindOf[row.c] # "string" \/ ~isEncrypted(row.v) \/ dec = Failed
  <2>1. CASE skip
    BY <1>6, <1>8, <2>1 DEF ReEncryptRows
  <2>2. CASE ~skip
    <3>1. WriteBack(row.c, row.v, EncryptString(dec.text))
      BY <1>8, <2>2 DEF ReEncryptRows
    <3>2. ASSUME NEW c, NEW v, c = row.c, v = row.v, c \in Cells, KindOf[c] # "bytes", c \notin overtaken, cell[c] = v
          PROVE SealedAs(EncryptString(dec.text), text[c])
      <4>1. SealedAs(v, text[c])
        BY <1>1, <3>2 DEF CellsInOrder
      <4>2. dec = Plain(text[c])
        BY <1>1, <2>2, <3>2, <4>1, DecryptsInOrder
      <4>3. dec.text = text[c]
        BY <4>2 DEF Plain
      <4>. QED
        BY <1>1, <4>3, EncryptedInOrder
    <3>. QED
      BY <1>1, <3>1, <3>2, WriteBackIInv
  <2>. QED
    BY <2>1, <2>2
<1>9. ASSUME (\E tool \in {"table", "rows"} : StartReEncrypt(tool)) \/ NextPage \/ PassFails \/ UNCHANGED keyVars
      PROVE KeyIInv'
  BY <1>6, <1>9 DEF StartReEncrypt, NextPage, PassFails, keyVars
<1>. QED
  BY <1>2, <1>3, <1>4, <1>5, <1>7, <1>8, <1>9 DEF KeyNext

\* As long as the operator keeps every old key, a string that is stored or that a
\* client keeps decrypts to what was last written there, unless a re-encryption has
\* written it from a stale page: for any number of keys, cells, rotations and passes
\* (KeyManager, DecryptFields, ReEncryptTable, ReEncryptRows).
THEOREM StringsStayReadableTheorem == KeySpec => []StringsStayReadable
<1>1. KeyInit => KeyIInv
  <2>. SUFFICES ASSUME KeyInit PROVE KeyIInv
    OBVIOUS
  <2>1. current = 1 /\ DOMAIN versions = {} /\ currentVer = FirstFree(<<>>)
    BY DEF KeyInit
  <2>2. FirstFree(<<>>) = 1
    <3>1. DOMAIN <<>> = 1 .. 0 /\ 0 \in Nat /\ 0 <= MaxKeys
      BY KeyAssumption
    <3>2. FirstFree(<<>>) = 0 + 1
      BY <3>1, FirstFreeNext
    <3>. QED
      BY <3>2
  <2>3. KeysInOrder
    BY <2>1, <2>2, KeyAssumption DEF KeysInOrder
  <2>4. ASSUME NEW c \in Cells PROVE SealedAs(cell[c], text[c])
    <3>1. cell[c] \in {Plain(t) : t \in Texts} \cup [form : {"string"}, ver : {0}, key : {1}, text : Texts]
          /\ cell[c].text = text[c]
      BY DEF KeyInit
    <3>2. CASE cell[c] \in {Plain(t) : t \in Texts}
      BY <3>1, <3>2 DEF SealedAs, Plain
    <3>3. CASE cell[c] \in [form : {"string"}, ver : {0}, key : {1}, text : Texts]
      <4>1. cell[c] = [form |-> "string", ver |-> 0, key |-> IF 0 = 0 THEN 1 ELSE 0, text |-> text[c]]
        BY <3>1, <3>3
      <4>2. 0 \in 0 .. current
        BY <2>1
      <4>. QED
        BY <4>1, <4>2 DEF SealedAs
    <3>. QED
      BY <3>1, <3>2, <3>3
  <2>5. CellsInOrder
    BY <2>4 DEF KeyInit, CellsInOrder
  <2>. QED
    BY <2>3, <2>5 DEF KeyIInv
<1>2. KeyIInv => StringsStayReadable
  <2>. SUFFICES ASSUME KeyIInv, NEW c \in Cells, KindOf[c] # "bytes", c \notin overtaken, ~dropped,
                       ~(cell[c].form = "string" /\ cell[c].ver = 0 /\ current > 1)
                PROVE DecryptField(c, cell[c]) = Plain(text[c])
    BY DEF StringsStayReadable
  <2>1. KeysInOrder /\ SealedAs(cell[c], text[c])
    BY DEF KeyIInv, CellsInOrder
  <2>. QED
    BY <2>1, DecryptsInOrder DEF DecryptField
<1>. QED
  BY <1>1, <1>2, KeyNextIInv, PTL DEF KeySpec

-----------------------------------------------------------------------------
(* The AI service *)

ChunkType == [n : Int, done : BOOLEAN]

AskType ==
  [pc : {"open", "try", "wait", "failed", "fallback", "read", "end"}, op : {"chat", "embed", "stream"},
   p : Providers, left : Int, answer : {"none", "ok", "error"}, gone : BOOLEAN, steady : SUBSET Providers,
   falls : BOOLEAN, sent : Int, chan : Seq(ChunkType), fills : BOOLEAN, got : Int]

\* What has answered throughout answers now; a fallback is there if it was throughout.
KnowsState(r) ==
  /\ r.steady \subseteq serving
  /\ r.falls => strategy = "fallback" /\ rule.fallback \in registered

\* The last try fails only when the provider is down or the caller has gone.
FailsRightly(r) == r.pc = "failed" /\ ~r.gone => r.p \notin r.steady

\* Which requests are where.
InPlace(r) ==
  /\ r.pc \in {"open", "read"} => r.op = "stream"
  /\ r.pc \in {"try", "wait", "failed", "fallback"} => r.op # "stream"
  /\ r.pc = "fallback" => r.op = "chat" /\ r.p = rule.fallback

\* The channel of a stream whose provider has answered throughout holds the pieces
\* from the next one on, and the last piece is marked.
StreamInOrder(r) ==
  r.pc \in {"open", "read"} /\ ~r.gone /\ r.p \in r.steady =>
    /\ r.got \in 0 .. Pieces - 1 /\ r.sent = r.got + Len(r.chan)
    /\ \A i \in 1 .. Len(r.chan) :
         /\ r.got + i < Pieces => ~r.chan[i].done /\ r.chan[i].n = r.got + i
         /\ r.got + i = Pieces => r.chan[i].done

EndsRightly(r) ==
  r.pc = "end" /\ ~r.gone
    /\ (r.p \in r.steady \/ (r.op = "chat" /\ r.falls /\ rule.fallback \in r.steady))
  => r.answer = "ok" /\ (r.op = "stream" => r.got = Pieces - 1)

GoodAsk(r) ==
  /\ r \in AskType
  /\ KnowsState(r) /\ FailsRightly(r) /\ InPlace(r) /\ StreamInOrder(r) /\ EndsRightly(r)

RouterIInv ==
  /\ registered \subseteq Providers /\ serving \subseteq Providers /\ rule \in Rules /\ retryCount \in Int
  /\ DOMAIN ask = Askers /\ \A a \in Askers : ask[a] = NoAsk \/ GoodAsk(ask[a])

\* A request that is under way has its fields.
LEMMA GoodAskUnderWay ==
  ASSUME RouterIInv, NEW a \in Askers, ask[a].pc # "off"
  PROVE  GoodAsk(ask[a])
BY DEF RouterIInv, NoAsk

\* The invariant after a step, from what holds of each request after it.
LEMMA RoutedAfter ==
  ASSUME registered' \subseteq Providers, serving' \subseteq Providers, rule' \in Rules,
         retryCount' \in Int, DOMAIN ask' = Askers,
         \A b \in Askers : \A r : r = ask'[b] /\ r # NoAsk => GoodAsk(r)'
  PROVE  RouterIInv'
<1>1. ASSUME NEW b \in Askers PROVE (ask[b] = NoAsk \/ GoodAsk(ask[b]))'
  <2>1. PICK r : r = ask'[b]
    OBVIOUS
  <2>2. r # NoAsk => GoodAsk(r)'
    BY <2>1
  <2>. QED
    BY <2>1, <2>2 DEF GoodAsk, KnowsState, FailsRightly, InPlace, StreamInOrder, EndsRightly, NoAsk
<1>. QED
  BY <1>1 DEF RouterIInv, Rules

\* A step of one request.
LEMMA AdvanceIInv ==
  ASSUME RouterIInv, NEW a \in Askers, NEW new, Advance(a, new), GoodAsk(new)
  PROVE  RouterIInv'
<1>1. /\ ask' = [ask EXCEPT ![a] = new] /\ rule' = rule /\ registered' = registered
      /\ strategy' = strategy /\ serving' = serving /\ retryCount' = retryCount
  BY DEF Advance, routingVars
<1>2. DOMAIN ask' = Askers /\ \A b \in Askers : ask'[b] = IF b = a THEN new ELSE ask[b]
  BY <1>1 DEF RouterIInv
<1>3. ASSUME NEW r, GoodAsk(r) PROVE GoodAsk(r)'
  BY <1>1, <1>3 DEF GoodAsk, KnowsState, FailsRightly, InPlace, StreamInOrder, EndsRightly
<1>4. ASSUME NEW b \in Askers, NEW r, r = ask'[b], r # NoAsk PROVE GoodAsk(r)'
  <2>1. GoodAsk(r)
    BY <1>2, <1>4 DEF RouterIInv
  <2>. QED
    BY <2>1, <1>3
<1>5. /\ registered' \subseteq Providers /\ serving' \subseteq Providers /\ rule' \in Rules
      /\ retryCount' \in Int
  BY <1>1 DEF RouterIInv
<1>6. \A b \in Askers : \A r : r = ask'[b] /\ r # NoAsk => GoodAsk(r)'
  BY <1>4
<1>. QED
  BY <1>2, <1>5, <1>6, RoutedAfter

\* A request ends rightly with "ok", or when nobody expects an answer.
LEMMA Finished ==
  ASSUME NEW r, GoodAsk(r), NEW res \in {"ok", "error"},
         ~r.gone /\ (r.p \in r.steady \/ (r.op = "chat" /\ r.falls /\ rule.fallback \in r.steady))
           => res = "ok" /\ (r.op = "stream" => r.got = Pieces - 1),
         NEW n, n = [r EXCEPT !.pc = "end", !.answer = res]
  PROVE  GoodAsk(n)
<1>1. r \in AskType
  BY DEF GoodAsk
<1>2. n \in AskType /\ n.pc = "end" /\ n.answer = res
  BY <1>1 DEF AskType
<1>3. /\ n.op = r.op /\ n.p = r.p /\ n.gone = r.gone /\ n.steady = r.steady /\ n.falls = r.falls
      /\ n.got = r.got
  BY <1>1 DEF AskType
<1>4. KnowsState(n)
  BY <1>3 DEF GoodAsk, KnowsState
<1>5. FailsRightly(n) /\ InPlace(n) /\ StreamInOrder(n)
  BY <1>2 DEF FailsRightly, InPlace, StreamInOrder
<1>6. EndsRightly(n)
  BY <1>2, <1>3 DEF EndsRightly
<1>. QED
  BY <1>2, <1>4, <1>5, <1>6 DEF GoodAsk

\* A Chat or an Embed goes on.
LEMMA Moved ==
  ASSUME NEW r, GoodAsk(r), r.op # "stream", NEW c \in {"try", "wait", "failed", "fallback"},
         NEW q \in Providers, NEW l \in Int,
         c = "failed" /\ ~r.gone => q \notin r.steady,
         c = "fallback" => r.op = "chat" /\ q = rule.fallback,
         NEW n, n = [r EXCEPT !.pc = c, !.p = q, !.left = l]
  PROVE  GoodAsk(n)
<1>1. r \in AskType
  BY DEF GoodAsk
<1>2. n \in AskType /\ n.pc = c /\ n.p = q
  BY <1>1 DEF AskType
<1>3. n.op = r.op /\ n.gone = r.gone /\ n.steady = r.steady /\ n.falls = r.falls
  BY <1>1 DEF AskType
<1>4. KnowsState(n)
  BY <1>3 DEF GoodAsk, KnowsState
<1>5. FailsRightly(n) /\ InPlace(n) /\ StreamInOrder(n) /\ EndsRightly(n)
  BY <1>2, <1>3 DEF FailsRightly, InPlace, StreamInOrder, EndsRightly
<1>. QED
  BY <1>2, <1>4, <1>5 DEF GoodAsk

\* A stream has been opened.
LEMMA StreamOpened ==
  ASSUME NEW r, GoodAsk(r), r.pc = "open", NEW n, n = [r EXCEPT !.pc = "read", !.fills = TRUE]
  PROVE  GoodAsk(n)
<1>1. r \in AskType
  BY DEF GoodAsk
<1>2. n \in AskType /\ n.pc = "read"
  BY <1>1 DEF AskType
<1>3. /\ n.op = r.op /\ n.p = r.p /\ n.gone = r.gone /\ n.steady = r.steady /\ n.falls = r.falls
      /\ n.sent = r.sent /\ n.chan = r.chan /\ n.got = r.got
  BY <1>1 DEF AskType
<1>4. KnowsState(n)
  BY <1>3 DEF GoodAsk, KnowsState
<1>5. FailsRightly(n) /\ InPlace(n) /\ EndsRightly(n)
  BY <1>2, <1>3 DEF GoodAsk, FailsRightly, InPlace, EndsRightly
<1>6. StreamInOrder(n)
  BY <1>2, <1>3 DEF GoodAsk, StreamInOrder
<1>. QED
  BY <1>2, <1>4, <1>5, <1>6 DEF GoodAsk

\* The caller's context has ended.
LEMMA Left ==
  ASSUME NEW r, GoodAsk(r), NEW n, n = [r EXCEPT !.gone = TRUE]
  PROVE  GoodAsk(n)
<1>1. r \in AskType
  BY DEF GoodAsk
<1>2. n \in AskType /\ n.gone
  BY <1>1 DEF AskType
<1>3. n.pc = r.pc /\ n.op = r.op /\ n.p = r.p /\ n.steady = r.steady /\ n.falls = r.falls
  BY <1>1 DEF AskType
<1>4. KnowsState(n) /\ InPlace(n)
  BY <1>3 DEF GoodAsk, KnowsState, InPlace
<1>5. FailsRightly(n) /\ StreamInOrder(n) /\ EndsRightly(n)
  BY <1>2 DEF FailsRightly, StreamInOrder, EndsRightly
<1>. QED
  BY <1>2, <1>4, <1>5 DEF GoodAsk

\* A chunk goes into the channel, the next piece unless the provider was down.
LEMMA Sent ==
  ASSUME NEW r, GoodAsk(r), NEW ch \in ChunkType, NEW more \in BOOLEAN,
         ~r.gone /\ r.p \in r.steady =>
           /\ r.sent + 1 < Pieces => ~ch.done /\ ch.n = r.sent + 1
           /\ r.sent + 1 = Pieces => ch.done,
         NEW n, n = [r EXCEPT !.sent = r.sent + 1, !.chan = Append(r.chan, ch), !.fills = more]
  PROVE  GoodAsk(n)
<1>1. r \in AskType
  BY DEF GoodAsk
<1>0. r.chan \in Seq(ChunkType) /\ r.sent \in Int /\ r.got \in Int
  BY <1>1 DEF AskType
<1>2. DEFINE q == Append(r.chan, ch)
<1>3. /\ q \in Seq(ChunkType) /\ Len(q) = Len(r.chan) + 1 /\ Len(r.chan) \in Nat
      /\ \A i \in 1 .. Len(r.chan) : q[i] = r.chan[i]
      /\ q[Len(r.chan) + 1] = ch
  BY <1>0
<1>. HIDE DEF q
<1>8. r.sent + 1 \in Int /\ n = [r EXCEPT !.sent = r.sent + 1, !.chan = q, !.fills = more]
  BY <1>0 DEF q
<1>4. n \in AskType /\ n.sent = r.sent + 1 /\ n.chan = q
  BY <1>1, <1>3, <1>8 DEF AskType
<1>5. /\ n.pc = r.pc /\ n.op = r.op /\ n.p = r.p /\ n.gone = r.gone /\ n.steady = r.steady
      /\ n.falls = r.falls /\ n.got = r.got /\ n.answer = r.answer
  BY <1>1 DEF AskType
<1>6. KnowsState(n) /\ FailsRightly(n) /\ InPlace(n) /\ EndsRightly(n)
  BY <1>5 DEF GoodAsk, KnowsState, FailsRightly, InPlace, EndsRightly
<1>7. StreamInOrder(n)
  <2>. SUFFICES ASSUME r.pc \in {"open", "read"}, ~r.gone, r.p \in r.steady
                PROVE  /\ n.got \in 0 .. Pieces - 1 /\ n.sent = n.got + Len(n.chan)
                       /\ \A i \in 1 .. Len(n.chan) :
                            /\ n.got + i < Pieces => ~n.chan[i].done /\ n.chan[i].n = n.got + i
                            /\ n.got + i = Pieces => n.chan[i].done
    BY <1>5 DEF StreamInOrder
  <2>1. /\ r.got \in 0 .. Pieces - 1 /\ r.sent = r.got + Len(r.chan)
        /\ \A i \in 1 .. Len(r.chan) :
             /\ r.got + i < Pieces => ~r.chan[i].done /\ r.chan[i].n = r.got + i
             /\ r.got + i = Pieces => r.chan[i].done
    BY DEF GoodAsk, StreamInOrder
  <2>2. n.got \in 0 .. Pieces - 1 /\ n.sent = n.got + Len(n.chan)
    BY <1>0, <1>3, <1>4, <1>5, <2>1
  <2>3. ASSUME NEW i \in 1 .. Len(q)
        PROVE  /\ r.got + i < Pieces => ~q[i].done /\ q[i].n = r.got + i
               /\ r.got + i = Pieces => q[i].done
    <3>1. CASE i \in 1 .. Len(r.chan)
      BY <1>3, <2>1, <3>1
    <3>2. CASE i = Len(r.chan) + 1
      <4>1. r.got + i = r.sent + 1
        BY <1>0, <1>3, <2>1, <3>2
      <4>. QED
        BY <1>3, <3>2, <4>1
    <3>. QED
      BY <1>3, <3>1, <3>2
  <2>. QED
    BY <1>4, <1>5, <2>2, <2>3
<1>. QED
  BY <1>4, <1>6, <1>7 DEF GoodAsk

\* A reader takes an unmarked chunk.
LEMMA Taken ==
  ASSUME NEW r, GoodAsk(r), r.chan # <<>>, ~Head(r.chan).done,
         NEW n, n = [r EXCEPT !.chan = Tail(r.chan), !.got = Head(r.chan).n], r.pc = "read"
  PROVE  GoodAsk(n)
<1>1. r \in AskType
  BY DEF GoodAsk
<1>0. r.chan \in Seq(ChunkType) /\ r.sent \in Int /\ r.got \in Int
  BY <1>1 DEF AskType
<1>2. DEFINE q == Tail(r.chan)
             g == Head(r.chan).n
<1>3. /\ q \in Seq(ChunkType) /\ Len(q) = Len(r.chan) - 1 /\ Len(q) \in Nat
      /\ \A i \in 1 .. Len(q) : q[i] = r.chan[i + 1]
      /\ Head(r.chan) = r.chan[1] /\ r.chan[1] \in ChunkType
  BY <1>0
<1>9. g \in Int /\ g = r.chan[1].n
  BY <1>3 DEF ChunkType
<1>. HIDE DEF q, g
<1>4. n \in AskType /\ n.got = g /\ n.chan = q
  BY <1>1, <1>3, <1>9 DEF AskType, q, g
<1>5. /\ n.pc = r.pc /\ n.op = r.op /\ n.p = r.p /\ n.gone = r.gone /\ n.steady = r.steady
      /\ n.falls = r.falls /\ n.sent = r.sent
  BY <1>1 DEF AskType
<1>6. KnowsState(n) /\ FailsRightly(n) /\ InPlace(n) /\ EndsRightly(n)
  BY <1>5 DEF GoodAsk, KnowsState, FailsRightly, InPlace, EndsRightly
<1>7. StreamInOrder(n)
  <2>. SUFFICES ASSUME ~r.gone, r.p \in r.steady
                PROVE  /\ n.got \in 0 .. Pieces - 1 /\ n.sent = n.got + Len(n.chan)
                       /\ \A i \in 1 .. Len(n.chan) :
                            /\ n.got + i < Pieces => ~n.chan[i].done /\ n.chan[i].n = n.got + i
                            /\ n.got + i = Pieces => n.chan[i].done
    BY <1>5 DEF StreamInOrder
  <2>1. /\ r.got \in 0 .. Pieces - 1 /\ r.sent = r.got + Len(r.chan)
        /\ \A i \in 1 .. Len(r.chan) :
             /\ r.got + i < Pieces => ~r.chan[i].done /\ r.chan[i].n = r.got + i
             /\ r.got + i = Pieces => r.chan[i].done
    BY DEF GoodAsk, StreamInOrder
  <2>2. 1 \in 1 .. Len(r.chan) /\ ~r.chan[1].done
    BY <1>0, <1>3
  <2>6. /\ r.got + 1 < Pieces => r.chan[1].n = r.got + 1
        /\ r.got + 1 # Pieces
    BY <2>1, <2>2
  <2>7. \A x \in Int : x \in 0 .. Pieces - 1 /\ x + 1 # Pieces => x + 1 < Pieces /\ x + 1 \in 0 .. Pieces - 1
    BY RouterAssumption
  <2>3. g = r.got + 1 /\ r.got + 1 < Pieces /\ g \in 0 .. Pieces - 1
    BY <1>0, <1>9, <2>1, <2>6, <2>7
  <2>9. \A x, y, z \in Int : z = y - 1 => x + y = (x + 1) + z
    OBVIOUS
  <2>8. r.sent = g + Len(q)
    <3>1. Len(r.chan) \in Int /\ Len(q) \in Int /\ Len(q) = Len(r.chan) - 1
      BY <1>0, <1>3
    <3>2. r.got + Len(r.chan) = (r.got + 1) + Len(q)
      BY <1>0, <2>9, <3>1
    <3>. QED
      BY <2>1, <2>3, <3>2
  <2>4. n.got \in 0 .. Pieces - 1 /\ n.sent = n.got + Len(n.chan)
    BY <1>4, <1>5, <2>3, <2>8
  <2>5. ASSUME NEW i \in 1 .. Len(q)
        PROVE  /\ g + i < Pieces => ~q[i].done /\ q[i].n = g + i
               /\ g + i = Pieces => q[i].done
    <3>1. i + 1 \in 1 .. Len(r.chan)
      BY <1>0, <1>3
    <3>2. q[i] = r.chan[i + 1]
      BY <1>3
    <3>3. g + i = r.got + (i + 1)
      <4>1. \A x \in Int : (x + 1) + i = x + (i + 1)
        OBVIOUS
      <4>. QED
        BY <1>0, <2>3, <4>1
    <3>. QED
      BY <2>1, <3>1, <3>2, <3>3
  <2>. QED
    BY <1>4, <2>4, <2>5
<1>. QED
  BY <1>4, <1>6, <1>7 DEF GoodAsk

\* A request is answered, or fails.
LEMMA FinishIInv ==
  ASSUME RouterIInv, NEW a \in Askers, NEW r, r = ask[a], r.pc # "off", NEW res \in {"ok", "error"},
         ~r.gone /\ (r.p \in r.steady \/ (r.op = "chat" /\ r.falls /\ rule.fallback \in r.steady))
           => res = "ok" /\ (r.op = "stream" => r.got = Pieces - 1),
         Finish(a, res)
  PROVE  RouterIInv'
<1>1. PICK n : n = [r EXCEPT !.pc = "end", !.answer = res]
  OBVIOUS
<1>2. GoodAsk(r)
  BY GoodAskUnderWay
<1>3. GoodAsk(n)
  BY <1>1, <1>2, Finished
<1>4. Advance(a, n)
  BY <1>1 DEF Finish
<1>. QED
  BY <1>3, <1>4, AdvanceIInv

\* A chunk is sent.
LEMMA SendIInv ==
  ASSUME RouterIInv, NEW a \in Askers, NEW r, r = ask[a], r.pc # "off",
         NEW ch \in ChunkType, NEW more \in BOOLEAN,
         ~r.gone /\ r.p \in r.steady =>
           /\ r.sent + 1 < Pieces => ~ch.done /\ ch.n = r.sent + 1
           /\ r.sent + 1 = Pieces => ch.done,
         SendChunk(a, ch, more)
  PROVE  RouterIInv'
<1>1. PICK n : n = [r EXCEPT !.sent = r.sent + 1, !.chan = Append(r.chan, ch), !.fills = more]
  OBVIOUS
<1>2. GoodAsk(r)
  BY GoodAskUnderWay
<1>3. GoodAsk(n)
  BY <1>1, <1>2, Sent
<1>5. /\ r \in AskType
      /\ n = [r EXCEPT !.sent = @ + 1, !.chan = Append(@, ch), !.fills = more]
  BY <1>1, <1>2 DEF GoodAsk, AskType
<1>4. Advance(a, n)
  BY <1>5 DEF SendChunk
<1>. QED
  BY <1>3, <1>4, AdvanceIInv

\* The pieces a provider sends.
LEMMA PieceInOrder ==
  ASSUME NEW a \in Askers, NEW r, r = ask[a], GoodAsk(r), NEW ch \in Piece(a)
  PROVE  /\ ch \in ChunkType
         /\ r.sent + 1 < Pieces => ~ch.done /\ ch.n = r.sent + 1
         /\ r.sent + 1 = Pieces => ch.done
<1>1. r.sent \in Int
  BY DEF GoodAsk, AskType
<1>2. PICK w \in {0, r.sent + 1} : ch = Chunk(w, r.sent + 1 = Pieces) /\ (r.sent + 1 # Pieces => w = r.sent + 1)
  BY DEF Piece
<1>3. w \in Int
  BY <1>1, <1>2
<1>4. ch.n = w /\ ch.done = (r.sent + 1 = Pieces) /\ ch \in ChunkType
  BY <1>2, <1>3 DEF Chunk, ChunkType
<1>5. r.sent + 1 < Pieces => r.sent + 1 # Pieces
  BY <1>1, RouterAssumption
<1>. QED
  BY <1>2, <1>4, <1>5

\* A turn of a retry loop.
LEMMA TryIInv ==
  ASSUME RouterIInv, NEW a \in Askers, ask[a].pc = "try", ask[a].op # "stream", Try(a)
  PROVE  RouterIInv'
<1>1. PICK r : r = ask[a]
  OBVIOUS
<1>2. GoodAsk(r) /\ r \in AskType
  BY <1>1, GoodAskUnderWay DEF GoodAsk
<1>3. r.p \in Providers /\ r.left \in Int /\ r.left - 1 \in Int
  BY <1>2 DEF AskType
<1>4. CASE Answers(a, r.p)
  BY <1>1, <1>4, FinishIInv DEF Try
<1>5. CASE ~Answers(a, r.p) /\ r.left > 0
  <2>1. PICK n : n = [r EXCEPT !.pc = "wait", !.p = r.p, !.left = r.left - 1]
    OBVIOUS
  <2>2. GoodAsk(n)
    BY <1>1, <1>2, <1>3, <2>1, Moved
  <2>3. n = [r EXCEPT !.pc = "wait", !.left = @ - 1]
    BY <1>2, <2>1 DEF AskType
  <2>. QED
    BY <1>1, <1>5, <2>2, <2>3, AdvanceIInv DEF Try
<1>6. CASE ~Answers(a, r.p) /\ ~(r.left > 0)
  <2>1. PICK n : n = [r EXCEPT !.pc = "failed", !.p = r.p, !.left = r.left]
    OBVIOUS
  <2>2. ~r.gone => r.p \notin r.steady
    BY <1>1, <1>2, <1>6 DEF Answers, GoodAsk, KnowsState
  <2>3. GoodAsk(n)
    BY <1>1, <1>2, <1>3, <2>1, <2>2, Moved
  <2>4. n = [r EXCEPT !.pc = "failed"]
    BY <1>2, <2>1 DEF AskType
  <2>. QED
    BY <1>1, <1>6, <2>3, <2>4, AdvanceIInv DEF Try
<1>. QED
  BY <1>4, <1>5, <1>6

\* A change of the providers or the settings, as the requests under way see it.
LEMMA SwitchIInv ==
  ASSUME RouterIInv, NEW up \in SUBSET Providers, NEW how, Switch(up, how),
         registered \subseteq registered', registered' \subseteq Providers, retryCount' \in Int
  PROVE  RouterIInv'
<1>1. serving' = up /\ strategy' = how /\ rule' = rule
  BY DEF Switch
<1>2. /\ DOMAIN ask' = Askers
      /\ \A b \in Askers : ask'[b] = IF ask[b] = NoAsk THEN NoAsk
           ELSE [ask[b] EXCEPT !.steady = @ \cap up, !.falls = @ /\ how = "fallback"]
  BY DEF Switch
<1>3. ASSUME NEW r, GoodAsk(r), NEW n,
             n = [r EXCEPT !.steady = @ \cap up, !.falls = @ /\ how = "fallback"]
      PROVE  GoodAsk(n)'
  <2>1. r \in AskType
    BY <1>3 DEF GoodAsk
  <2>2. /\ r.steady \in SUBSET Providers /\ r.falls \in BOOLEAN
        /\ r.steady \cap up \in SUBSET Providers /\ (r.falls /\ how = "fallback") \in BOOLEAN
    BY <2>1 DEF AskType
  <2>3. n \in AskType
    BY <1>3, <2>1, <2>2 DEF AskType
  <2>4. n.steady = r.steady \cap up /\ n.falls = (r.falls /\ how = "fallback")
    BY <1>3, <2>1 DEF AskType
  <2>5. /\ n.pc = r.pc /\ n.op = r.op /\ n.p = r.p /\ n.gone = r.gone /\ n.answer = r.answer
        /\ n.sent = r.sent /\ n.chan = r.chan /\ n.got = r.got
    BY <1>3, <2>1 DEF AskType
  <2>6. n.steady \subseteq r.steady /\ n.steady \subseteq up /\ (n.falls => r.falls /\ how = "fallback")
    BY <2>4
  <2>7. KnowsState(r) /\ FailsRightly(r) /\ InPlace(r) /\ StreamInOrder(r) /\ EndsRightly(r)
    BY <1>3 DEF GoodAsk
  <2>8. KnowsState(n)'
    BY <1>1, <2>6, <2>7 DEF KnowsState
  <2>9. FailsRightly(n)' /\ InPlace(n)'
    BY <1>1, <2>5, <2>6, <2>7 DEF FailsRightly, InPlace
  <2>10. StreamInOrder(n)'
    BY <2>5, <2>6, <2>7 DEF StreamInOrder
  <2>11. EndsRightly(n)'
    BY <1>1, <2>5, <2>6, <2>7 DEF EndsRightly
  <2>. QED
    BY <2>3, <2>8, <2>9, <2>10, <2>11 DEF GoodAsk
<1>4. ASSUME NEW b \in Askers, NEW n, n = ask'[b], n # NoAsk PROVE GoodAsk(n)'
  <2>1. PICK r : r = ask[b]
    OBVIOUS
  <2>2. r # NoAsk /\ n = [r EXCEPT !.steady = @ \cap up, !.falls = @ /\ how = "fallback"]
    BY <1>2, <1>4, <2>1
  <2>3. GoodAsk(r)
    BY <2>1, <2>2 DEF RouterIInv
  <2>. QED
    BY <1>3, <2>2, <2>3
<1>5. serving' \subseteq Providers /\ rule' \in Rules
  BY <1>1 DEF RouterIInv
<1>6. \A b \in Askers : \A r : r = ask'[b] /\ r # NoAsk => GoodAsk(r)'
  BY <1>4
<1>. QED
  BY <1>2, <1>5, <1>6, RoutedAfter

LEMMA RouterNextIInv == RouterIInv /\ [RouterNext]_routerVars => RouterIInv'
<1>. SUFFICES ASSUME RouterIInv, [RouterNext]_routerVars PROVE RouterIInv'
  OBVIOUS
<1>0. registered \subseteq Providers /\ serving \in SUBSET Providers /\ retryCount \in Int
  BY DEF RouterIInv
<1>1. ASSUME NEW a \in Askers, NEW op \in {"chat", "embed", "stream"}, Resolve(a, op) PROVE RouterIInv'
  <2>1. rule' = rule /\ registered' = registered /\ strategy' = strategy /\ serving' = serving /\ retryCount' = retryCount
    BY <1>1 DEF Resolve, routingVars
  <2>2. ASSUME NEW r, GoodAsk(r) PROVE GoodAsk(r)'
    BY <2>1, <2>2 DEF GoodAsk, KnowsState, FailsRightly, InPlace, StreamInOrder, EndsRightly
  <2>3. PICK new : (new = NoAsk \/ GoodAsk(new)) /\ ask' = [ask EXCEPT ![a] = new]
    <3>1. CASE Resolved = {}
      BY <1>1, <3>1 DEF Resolve
    <3>2. CASE Resolved # {}
      <4>1. PICK p \in Resolved :
              ask' = [ask EXCEPT ![a] =
                [pc |-> IF op = "stream" THEN "open" ELSE "try", op |-> op, p |-> p,
                 left |-> retryCount, answer |-> "none", gone |-> FALSE,
                 steady |-> serving, falls |-> strategy = "fallback" /\ rule.fallback \in registered,
                 sent |-> 0, chan |-> <<>>, fills |-> FALSE, got |-> 0]]
        BY <1>1, <3>2 DEF Resolve
      <4>2. PICK r : r =
                [pc |-> IF op = "stream" THEN "open" ELSE "try", op |-> op, p |-> p,
                 left |-> retryCount, answer |-> "none", gone |-> FALSE,
                 steady |-> serving, falls |-> strategy = "fallback" /\ rule.fallback \in registered,
                 sent |-> 0, chan |-> <<>>, fills |-> FALSE, got |-> 0]
        OBVIOUS
      <4>3. p \in Providers
        BY <1>0 DEF Resolved
      <4>4. <<>> \in Seq(ChunkType) /\ Len(<<>>) = 0
        OBVIOUS
      <4>5. r \in AskType
        BY <1>0, <4>2, <4>3, <4>4 DEF AskType
      <4>6. /\ r.pc = (IF op = "stream" THEN "open" ELSE "try") /\ r.op = op /\ r.steady = serving
            /\ r.falls = (strategy = "fallback" /\ rule.fallback \in registered)
            /\ r.sent = 0 /\ r.chan = <<>> /\ r.got = 0
        BY <4>2
      <4>7. KnowsState(r) /\ FailsRightly(r) /\ InPlace(r) /\ EndsRightly(r)
        BY <4>6 DEF KnowsState, FailsRightly, InPlace, EndsRightly
      <4>8. StreamInOrder(r)
        <5>1. 0 \in 0 .. Pieces - 1 /\ 0 = 0 + 0 /\ 1 .. 0 = {}
          BY RouterAssumption
        <5>. QED
          BY <4>4, <4>6, <5>1 DEF StreamInOrder
      <4>. QED
        BY <4>1, <4>2, <4>5, <4>7, <4>8 DEF GoodAsk
    <3>. QED
      BY <3>1, <3>2
  <2>4. DOMAIN ask' = Askers /\ \A b \in Askers : ask'[b] = IF b = a THEN new ELSE ask[b]
    BY <2>3 DEF RouterIInv
  <2>5. ASSUME NEW b \in Askers, NEW r, r = ask'[b], r # NoAsk PROVE GoodAsk(r)'
    <3>1. GoodAsk(r)
      BY <2>3, <2>4, <2>5 DEF RouterIInv
    <3>. QED
      BY <2>2, <3>1
  <2>6. \A b \in Askers : \A r : r = ask'[b] /\ r # NoAsk => GoodAsk(r)'
    BY <2>5
  <2>7. rule' \in Rules /\ registered' \subseteq Providers /\ serving' \subseteq Providers /\ retryCount' \in Int
    BY <2>1 DEF RouterIInv
  <2>. QED
    BY <2>4, <2>6, <2>7, RoutedAfter
<1>2. ASSUME NEW a \in Askers, TryChat(a) PROVE RouterIInv'
  BY <1>2, TryIInv DEF TryChat
<1>3. ASSUME NEW a \in Askers, TryEmbed(a) PROVE RouterIInv'
  BY <1>3, TryIInv DEF TryEmbed
<1>4. ASSUME NEW a \in Askers, Wait(a) PROVE RouterIInv'
  <2>1. PICK r : r = ask[a]
    OBVIOUS
  <2>2. GoodAsk(r) /\ r \in AskType /\ r.pc = "wait"
    BY <1>4, <2>1, GoodAskUnderWay DEF GoodAsk, Wait
  <2>3. r.p \in Providers /\ r.left \in Int /\ r.op # "stream"
    BY <2>2 DEF AskType, GoodAsk, InPlace
  <2>4. PICK c \in {"try", "failed"} : c = IF r.gone THEN "failed" ELSE "try"
    OBVIOUS
  <2>5. PICK n : n = [r EXCEPT !.pc = c, !.p = r.p, !.left = r.left]
    OBVIOUS
  <2>6. GoodAsk(n)
    BY <2>2, <2>3, <2>4, <2>5, Moved
  <2>7. n = [r EXCEPT !.pc = c]
    BY <2>2, <2>5 DEF AskType
  <2>. QED
    BY <1>4, <2>1, <2>4, <2>6, <2>7, AdvanceIInv DEF Wait
<1>5. ASSUME NEW a \in Askers, FallBack(a) PROVE RouterIInv'
  <2>1. PICK r : r = ask[a]
    OBVIOUS
  <2>2. GoodAsk(r) /\ r \in AskType /\ r.pc = "failed" /\ r.op = "chat"
    BY <1>5, <2>1, GoodAskUnderWay DEF GoodAsk, FallBack
  <2>3. r.left \in Int /\ KnowsState(r) /\ (~r.gone => r.p \notin r.steady)
    BY <2>2 DEF AskType, GoodAsk, FailsRightly
  <2>4. CASE strategy = "fallback" /\ rule.fallback \in registered
    <3>1. PICK n : n = [r EXCEPT !.pc = "fallback", !.p = rule.fallback, !.left = r.left]
      OBVIOUS
    <3>2. GoodAsk(n)
      BY <1>0, <2>2, <2>3, <2>4, <3>1, Moved
    <3>3. n = [r EXCEPT !.pc = "fallback", !.p = rule.fallback]
      BY <2>2, <3>1 DEF AskType
    <3>. QED
      BY <1>5, <2>1, <2>4, <3>2, <3>3, AdvanceIInv DEF FallBack
  <2>5. CASE ~(strategy = "fallback" /\ rule.fallback \in registered)
    <3>1. Finish(a, "error") /\ ~r.falls
      BY <1>5, <2>3, <2>5 DEF FallBack, KnowsState
    <3>. QED
      BY <2>1, <2>2, <2>3, <3>1, FinishIInv
  <2>. QED
    BY <2>4, <2>5
<1>6. ASSUME NEW a \in Askers, EmbedFails(a) PROVE RouterIInv'
  <2>1. PICK r : r = ask[a]
    OBVIOUS
  <2>2. GoodAsk(r) /\ r.pc = "failed" /\ r.op = "embed" /\ Finish(a, "error")
    BY <1>6, <2>1, GoodAskUnderWay DEF EmbedFails
  <2>3. ~r.gone => r.p \notin r.steady
    BY <2>2 DEF GoodAsk, FailsRightly
  <2>. QED
    BY <2>1, <2>2, <2>3, FinishIInv
<1>7. ASSUME NEW a \in Askers, TryFallback(a) PROVE RouterIInv'
  <2>1. PICK r : r = ask[a]
    OBVIOUS
  <2>2. GoodAsk(r) /\ r.pc = "fallback" /\ Finish(a, IF Answers(a, r.p) THEN "ok" ELSE "error")
    BY <1>7, <2>1, GoodAskUnderWay DEF TryFallback
  <2>3. r.op = "chat" /\ r.p = rule.fallback /\ (~Answers(a, r.p) /\ ~r.gone => r.p \notin r.steady)
    BY <2>1, <2>2 DEF GoodAsk, InPlace, KnowsState, Answers
  <2>4. CASE Answers(a, r.p)
    <3>1. Finish(a, "ok")
      BY <2>2, <2>4
    <3>. QED
      BY <2>1, <2>2, <2>3, <3>1, FinishIInv
  <2>5. CASE ~Answers(a, r.p)
    <3>1. Finish(a, "error")
      BY <2>2, <2>5
    <3>. QED
      BY <2>1, <2>2, <2>3, <2>5, <3>1, FinishIInv
  <2>. QED
    BY <2>4, <2>5
<1>8. ASSUME NEW a \in Askers, OpenOpenAI(a) PROVE RouterIInv'
  <2>1. PICK r : r = ask[a]
    OBVIOUS
  <2>2. GoodAsk(r) /\ r.pc = "open" /\ r.p = "openai"
    BY <1>8, <2>1, GoodAskUnderWay DEF OpenOpenAI
  <2>3. CASE Answers(a, "openai")
    <3>1. PICK n : n = [r EXCEPT !.pc = "read", !.fills = TRUE]
      OBVIOUS
    <3>2. GoodAsk(n)
      BY <2>2, <3>1, StreamOpened
    <3>. QED
      BY <1>8, <2>1, <2>3, <3>1, <3>2, AdvanceIInv DEF OpenOpenAI
  <2>4. CASE ~Answers(a, "openai")
    <3>1. r.op = "stream" /\ (~r.gone => r.p \notin r.steady)
      BY <2>1, <2>2, <2>4 DEF Answers, GoodAsk, KnowsState, InPlace
    <3>2. Finish(a, "error")
      BY <1>8, <2>4 DEF OpenOpenAI
    <3>. QED
      BY <2>1, <2>2, <3>1, <3>2, FinishIInv
  <2>. QED
    BY <2>3, <2>4
<1>9. ASSUME NEW a \in Askers, OpenOllama(a) PROVE RouterIInv'
  <2>1. PICK r : r = ask[a]
    OBVIOUS
  <2>2. GoodAsk(r) /\ r.pc = "open"
    BY <1>9, <2>1, GoodAskUnderWay DEF OpenOllama
  <2>3. PICK n : n = [r EXCEPT !.pc = "read", !.fills = TRUE]
    OBVIOUS
  <2>4. GoodAsk(n)
    BY <2>2, <2>3, StreamOpened
  <2>. QED
    BY <1>9, <2>1, <2>3, <2>4, AdvanceIInv DEF OpenOllama
<1>10. ASSUME NEW a \in Askers, FillOpenAI(a) PROVE RouterIInv'
  <2>1. PICK r : r = ask[a]
    OBVIOUS
  <2>2. GoodAsk(r) /\ r.pc # "off"
    BY <1>10, <2>1, GoodAskUnderWay DEF FillOpenAI, Fills
  <2>3. PICK ch \in Piece(a) : SendChunk(a, ch, TRUE)
    BY <1>10 DEF FillOpenAI
  <2>. QED
    BY <2>1, <2>2, <2>3, PieceInOrder, SendIInv
<1>11. ASSUME NEW a \in Askers, OpenAIEnds(a) PROVE RouterIInv'
  <2>1. PICK r : r = ask[a]
    OBVIOUS
  <2>2. GoodAsk(r) /\ r.pc # "off" /\ r.p = "openai" /\ SendChunk(a, Chunk(0, TRUE), FALSE)
    BY <1>11, <2>1, GoodAskUnderWay DEF OpenAIEnds, Fills
  <2>3. r.sent = Pieces \/ (~r.gone => r.p \notin r.steady)
    BY <1>11, <2>1, <2>2 DEF OpenAIEnds, Answers, GoodAsk, KnowsState
  <2>4. Chunk(0, TRUE) \in ChunkType
    BY DEF Chunk, ChunkType
  <2>5. r.sent = Pieces => ~(r.sent + 1 < Pieces) /\ r.sent + 1 # Pieces
    BY RouterAssumption
  <2>. QED
    BY <2>1, <2>2, <2>3, <2>4, <2>5, SendIInv
<1>12. ASSUME NEW a \in Askers, FillOllama(a) PROVE RouterIInv'
  <2>1. PICK r : r = ask[a]
    OBVIOUS
  <2>2. GoodAsk(r) /\ r.pc # "off"
    BY <1>12, <2>1, GoodAskUnderWay DEF FillOllama, Fills
  <2>3. PICK ch \in Piece(a) : SendChunk(a, ch, ~ch.done)
    BY <1>12 DEF FillOllama
  <2>. QED
    BY <2>1, <2>2, <2>3, PieceInOrder, SendIInv
<1>13. ASSUME NEW a \in Askers, OllamaFails(a) PROVE RouterIInv'
  <2>1. PICK r : r = ask[a]
    OBVIOUS
  <2>2. GoodAsk(r) /\ r.pc # "off" /\ r.p = "ollama" /\ SendChunk(a, Chunk(0, TRUE), FALSE)
    BY <1>13, <2>1, GoodAskUnderWay DEF OllamaFails, Fills
  <2>3. ~r.gone => r.p \notin r.steady
    BY <1>13, <2>1, <2>2 DEF OllamaFails, Answers, GoodAsk, KnowsState
  <2>4. Chunk(0, TRUE) \in ChunkType
    BY DEF Chunk, ChunkType
  <2>. QED
    BY <2>1, <2>2, <2>3, <2>4, SendIInv
<1>14. ASSUME NEW a \in Askers, Read(a) PROVE RouterIInv'
  <2>1. PICK r : r = ask[a]
    OBVIOUS
  <2>2. GoodAsk(r) /\ r \in AskType /\ r.pc = "read" /\ r.op = "stream" /\ r.chan # <<>>
    BY <1>14, <2>1, GoodAskUnderWay DEF Read, GoodAsk, InPlace
  <2>3. CASE Head(r.chan).done /\ Finish(a, "ok")
    <3>1. r.chan \in Seq(ChunkType) /\ r.got \in Int
      BY <2>2 DEF AskType
    <3>2. 1 \in 1 .. Len(r.chan) /\ r.chan[1].done
      BY <2>2, <2>3, <3>1
    <3>3. ~r.gone /\ r.p \in r.steady => r.got \in 0 .. Pieces - 1 /\ ~(r.got + 1 < Pieces)
      BY <2>2, <3>2 DEF GoodAsk, StreamInOrder
    <3>4. \A x \in Int : x \in 0 .. Pieces - 1 /\ ~(x + 1 < Pieces) => x = Pieces - 1
      BY RouterAssumption
    <3>5. ~r.gone /\ r.p \in r.steady => r.got = Pieces - 1
      BY <3>1, <3>3, <3>4
    <3>. QED
      BY <2>1, <2>2, <2>3, <3>5, FinishIInv
  <2>4. CASE ~Head(r.chan).done /\ Advance(a, [r EXCEPT !.chan = Tail(r.chan), !.got = Head(r.chan).n])
    <3>1. PICK n : n = [r EXCEPT !.chan = Tail(r.chan), !.got = Head(r.chan).n]
      OBVIOUS
    <3>2. GoodAsk(n)
      BY <2>2, <2>4, <3>1, Taken
    <3>. QED
      BY <2>4, <3>1, <3>2, AdvanceIInv
  <2>. QED
    BY <1>14, <2>1, <2>3, <2>4 DEF Read
<1>15. ASSUME NEW a \in Askers, EndContext(a) PROVE RouterIInv'
  <2>1. PICK r : r = ask[a]
    OBVIOUS
  <2>2. GoodAsk(r)
    BY <1>15, <2>1, GoodAskUnderWay DEF EndContext
  <2>3. PICK n : n = [r EXCEPT !.gone = TRUE]
    OBVIOUS
  <2>4. GoodAsk(n)
    BY <2>2, <2>3, Left
  <2>. QED
    BY <1>15, <2>1, <2>3, <2>4, AdvanceIInv DEF EndContext
<1>16. ASSUME NEW a \in Askers, StopReading(a) PROVE RouterIInv'
  BY <1>16, FinishIInv DEF StopReading
<1>17. ASSUME NEW up \in SUBSET Providers, ProviderChanges(up) PROVE RouterIInv'
  BY <1>0, <1>17, SwitchIInv DEF ProviderChanges
<1>18. ASSUME NEW how \in {"direct", "fallback"}, SetStrategy(how) PROVE RouterIInv'
  BY <1>0, <1>18, SwitchIInv DEF SetStrategy
<1>19. ASSUME NEW n \in 0 .. MaxRetries, SetRetryPolicy(n) PROVE RouterIInv'
  BY <1>0, <1>19, SwitchIInv DEF SetRetryPolicy
<1>20. ASSUME NEW p \in Providers, RegisterProvider(p) PROVE RouterIInv'
  BY <1>0, <1>20, SwitchIInv DEF RegisterProvider
<1>21. ASSUME NEW ru \in Rules, AddRule(ru) PROVE RouterIInv'
  <2>1. /\ rule = NoRule /\ rule' = ru /\ registered' = registered /\ strategy' = strategy
        /\ serving' = serving /\ retryCount' = retryCount /\ ask' = ask
    BY <1>21 DEF AddRule
  <2>2. rule.fallback = NoProvider /\ NoProvider \notin Providers
    BY <2>1 DEF NoRule, NoProvider, Providers
  <2>3. ASSUME NEW b \in Askers, NEW r, r = ask'[b], r # NoAsk PROVE GoodAsk(r)'
    <3>1. GoodAsk(r)
      BY <2>1, <2>3 DEF RouterIInv
    <3>2. ~r.falls /\ r.pc # "fallback"
      BY <1>0, <2>2, <3>1 DEF GoodAsk, KnowsState, InPlace, AskType
    <3>. QED
      BY <2>1, <3>1, <3>2 DEF GoodAsk, KnowsState, FailsRightly, InPlace, StreamInOrder, EndsRightly
  <2>4. \A b \in Askers : \A r : r = ask'[b] /\ r # NoAsk => GoodAsk(r)'
    BY <2>3
  <2>5. DOMAIN ask' = Askers
    BY <2>1 DEF RouterIInv
  <2>. QED
    BY <1>0, <2>1, <2>4, <2>5, RoutedAfter
<1>22. CASE Models \/ UNCHANGED routerVars
  <2>1. /\ rule' = rule /\ registered' = registered /\ strategy' = strategy /\ serving' = serving
        /\ retryCount' = retryCount /\ ask' = ask
    BY <1>22 DEF Models, routerVars, routingVars
  <2>2. ASSUME NEW b \in Askers, NEW r, r = ask'[b], r # NoAsk PROVE GoodAsk(r)'
    <3>1. GoodAsk(r)
      BY <2>1, <2>2 DEF RouterIInv
    <3>. QED
      BY <2>1, <3>1 DEF GoodAsk, KnowsState, FailsRightly, InPlace, StreamInOrder, EndsRightly
  <2>3. \A b \in Askers : \A r : r = ask'[b] /\ r # NoAsk => GoodAsk(r)'
    BY <2>2
  <2>4. DOMAIN ask' = Askers /\ rule' \in Rules
    BY <2>1 DEF RouterIInv
  <2>. QED
    BY <1>0, <2>1, <2>3, <2>4, RoutedAfter
<1>. QED
  BY <1>1, <1>2, <1>3, <1>4, <1>5, <1>6, <1>7, <1>8, <1>9, <1>10, <1>11, <1>12, <1>13, <1>14, <1>15,
     <1>16, <1>17, <1>18, <1>19, <1>20, <1>21, <1>22 DEF RouterNext

\* OnlyOutagesFail for any number of callers, pieces, retries and changes: a caller
\* that stays gets its whole answer from a provider that answers throughout.
THEOREM OnlyOutagesFailTheorem == RouterSpec => []OnlyOutagesFail
<1>1. RouterInit => RouterIInv
  BY RouterAssumption DEF RouterInit, RouterIInv
<1>2. RouterIInv => OnlyOutagesFail
  <2>. SUFFICES ASSUME RouterIInv, NEW a \in Askers, ask[a].pc = "end"
                PROVE  EndsRightly(ask[a])
    BY DEF OnlyOutagesFail, EndsRightly
  <2>. QED
    BY GoodAskUnderWay DEF GoodAsk
<1>. QED
  BY <1>1, <1>2, RouterNextIInv, PTL DEF RouterSpec
=============================================================================
