----------------------------- MODULE Discovery ------------------------------
(***************************************************************************)
(* MemoryRegistry, which EtcdRegistry wraps: instances by id, and watchers *)
(* of a service name, each with a channel of snapshots.  Every operation   *)
(* holds the lock; a snapshot is sent without waiting, so that a full      *)
(* channel loses it.                                                       *)
(***************************************************************************)
EXTENDS Integers, Sequences, FiniteSets, Functions, Maps

CONSTANTS
  Ids, Services,
  Watchers,       \* calls of Watch
  ChanCap,        \* the capacity of a watcher's channel, 16 in the code
  MaxChanges

ASSUME DiscoveryAssumption == ChanCap \in Nat \ {0}

VARIABLES
  instances,      \* id -> service name
  watcher,        \* watcher[w]: its channel and service
  changes,
  panicked,       \* a channel was closed twice
  missed          \* history: the watchers whose channel was full at a change

discoveryVars == <<instances, watcher, changes, panicked, missed>>

NoService == ""
NotWatching == [state |-> "none", service |-> NoService, queue |-> <<>>, closed |-> FALSE]

DiscoveryInit ==
  /\ instances = <<>> /\ changes = 0 /\ panicked = FALSE /\ missed = {}
  /\ watcher = [w \in Watchers |-> NotWatching]

\* snapshot
Snapshot(inst, s) == {id \in DOMAIN inst : inst[id] = s}

\* Discover, List: every instance is up.
Discover(s) == Snapshot(instances, s)

Listening(w, s) == watcher[w].state \in {"on", "cancelled"} /\ watcher[w].service = s
Full(w) == Len(watcher[w].queue) = ChanCap

\* Mutated notifyWatchers: the snapshot from before the change.
NotifiesBefore(inst, s) ==
  /\ watcher' = [w \in Watchers |->
       IF Listening(w, s) /\ ~Full(w)
       THEN [watcher[w] EXCEPT !.queue = Append(@, Discover(s))] ELSE watcher[w]]
  /\ missed' = (missed \cup {w \in Watchers : Listening(w, s) /\ Full(w)})
                 \ {w \in Watchers : Listening(w, s) /\ ~Full(w)}

\* notifyWatchers: watchers of this name, those with room in the channel.
notifyWatchers(inst, s) ==
  /\ watcher' = [w \in Watchers |->
       IF Listening(w, s) /\ ~Full(w)
       THEN [watcher[w] EXCEPT !.queue = Append(@, Snapshot(inst, s))] ELSE watcher[w]]
  /\ missed' = (missed \cup {w \in Watchers : Listening(w, s) /\ Full(w)})
                 \ {w \in Watchers : Listening(w, s) /\ ~Full(w)}

\* Register: an id that moves to another service is announced there only; its ttl
\* is not used, it stays until it is deregistered.
Register(id, s) ==
  /\ changes < MaxChanges /\ changes' = changes + 1
  /\ instances' = WithEntry(instances, id, s)
  /\ notifyWatchers(instances', s)
  /\ UNCHANGED panicked

Deregister(id) ==
  /\ id \in DOMAIN instances
  /\ instances' = Restrict(instances, DOMAIN instances \ {id})
  /\ notifyWatchers(instances', instances[id])
  /\ UNCHANGED <<changes, panicked>>

\* Renew changes the time of an instance and tells nobody.
Renew(id) == id \in DOMAIN instances /\ UNCHANGED discoveryVars

Watch(w, s) ==
  /\ watcher[w].state = "none"
  /\ watcher' = [watcher EXCEPT ![w] = [state |-> "on", service |-> s, queue |-> <<>>, closed |-> FALSE]]
  /\ UNCHANGED <<instances, changes, panicked, missed>>

Receive(w) ==
  /\ watcher[w].queue # <<>>
  /\ watcher' = [watcher EXCEPT ![w].queue = Tail(@)]
  /\ UNCHANGED <<instances, changes, panicked, missed>>

Cancel(w) ==
  /\ watcher[w].state \in {"on", "detached"}
  /\ watcher' = [watcher EXCEPT ![w].state = IF @ = "on" THEN "cancelled" ELSE "ending"]
  /\ UNCHANGED <<instances, changes, panicked, missed>>

\* The goroutine of Watch: it leaves the list, if it is in it, and closes the
\* channel, which Close may have closed before.
Unwatch(w) ==
  /\ watcher[w].state \in {"cancelled", "ending"}
  /\ panicked' = (panicked \/ watcher[w].closed)
  /\ watcher' = [watcher EXCEPT ![w].state = "gone", ![w].closed = TRUE]
  /\ UNCHANGED <<instances, changes, missed>>

\* Close: all channels are closed and everything is forgotten; the registry can
\* be used again.
CloseRegistry ==
  /\ changes < MaxChanges /\ changes' = changes + 1
  /\ instances' = <<>>
  /\ watcher' = [w \in Watchers |->
       CASE watcher[w].state = "on" -> [watcher[w] EXCEPT !.state = "detached", !.closed = TRUE]
         [] watcher[w].state = "cancelled" -> [watcher[w] EXCEPT !.state = "ending", !.closed = TRUE]
         [] OTHER -> watcher[w]]
  /\ UNCHANGED <<panicked, missed>>

DiscoveryNext ==
  /\ ~panicked
  /\ \/ \E id \in Ids : Deregister(id) \/ Renew(id) \/ (\E s \in Services : Register(id, s))
     \/ \E w \in Watchers : Receive(w) \/ Cancel(w) \/ Unwatch(w) \/ (\E s \in Services : Watch(w, s))
     \/ CloseRegistry

DiscoverySpec == DiscoveryInit /\ [][DiscoveryNext]_discoveryVars

-----------------------------------------------------------------------------
\* The newest snapshot in a watcher's channel has every instance the service has
\* now, unless the channel was full at the last change.  An instance that moved to
\* another name stays in it: that is not announced under the old one.
WatcherSeesLatest ==
  \A w \in Watchers :
    LET q == watcher[w].queue IN
    watcher[w].state \in {"on", "cancelled"} /\ q # <<>> /\ w \notin missed =>
      Discover(watcher[w].service) \subseteq q[Len(q)]
=============================================================================
