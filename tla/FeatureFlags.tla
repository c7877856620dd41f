---------------------------- MODULE FeatureFlags ----------------------------
(***************************************************************************)
(* syncManager: feature flags in memory, every change of which is written  *)
(* to a store afterwards, outside the lock.  Enable and Disable read the   *)
(* flag again before they save it.                                         *)
(***************************************************************************)
EXTENDS Integers, FiniteSets, Functions, Maps

CONSTANTS
  Callers, Flags,
  NoName,         \* the name "" of the zero Flag
  MaxFlagCalls, MaxSaveErrors

ASSUME FlagsAssumption == NoName \notin Flags

VARIABLES
  flags,          \* Manager: name -> enabled
  saved,          \* the store: name -> enabled
  fcall,          \* fcall[p]: the call p has under way
  fcalls, saveErrors,
  doubtful        \* history: names whose last change failed or overlapped another

flagVars == <<flags, saved, fcall, fcalls, saveErrors, doubtful>>

NoCall == [pc |-> "off", name |-> NoName, row |-> NoName, on |-> FALSE, alone |-> FALSE]
Busy(n) == \E p \in Callers : fcall[p].name = n

FlagsInit ==
  /\ flags = <<>> /\ saved = <<>> /\ fcall = [p \in Callers |-> NoCall]
  /\ fcalls = 0 /\ saveErrors = 0 /\ doubtful = {}

\* Call pc on name n begins, to save row as on; it overlaps the calls under way on n.
StartCall(p, n, pc, row, on) ==
  /\ fcall[p].pc = "off" /\ fcalls < MaxFlagCalls /\ fcalls' = fcalls + 1
  /\ fcall' = [q \in Callers |->
                 IF q = p THEN [pc |-> pc, name |-> n, row |-> row, on |-> on, alone |-> ~Busy(n)]
                 ELSE IF fcall[q].name = n THEN [fcall[q] EXCEPT !.alone = FALSE]
                 ELSE fcall[q]]
  /\ doubtful' = IF Busy(n) THEN doubtful \cup {n} ELSE doubtful
  /\ UNCHANGED <<saved, saveErrors>>

\* Register refuses a name that is there, RegisterOrUpdate does not.
RegisterFlag(p, n, on, update) ==
  /\ update \/ n \notin DOMAIN flags
  /\ flags' = WithEntry(flags, n, on)
  /\ StartCall(p, n, "save", n, on)

\* Mutated SetFlag: the value asked for is not read again but the one before.
SetFlagSavesOld(p, n, on) ==
  /\ n \in DOMAIN flags
  /\ flags' = [flags EXCEPT ![n] = on]
  /\ StartCall(p, n, "save", n, flags[n])

\* Enable, Disable
SetFlag(p, n, on) ==
  /\ n \in DOMAIN flags
  /\ flags' = [flags EXCEPT ![n] = on]
  /\ StartCall(p, n, "get", NoName, FALSE)

\* Get: a flag deleted meanwhile is the zero Flag, without a name.
GetFlag(p) ==
  /\ fcall[p].pc = "get"
  /\ LET n == fcall[p].name IN
     fcall' = [fcall EXCEPT ![p] =
       [pc |-> "save", name |-> n, row |-> IF n \in DOMAIN flags THEN n ELSE NoName,
        on |-> IF n \in DOMAIN flags THEN flags[n] ELSE FALSE, alone |-> fcall[p].alone]]
  /\ UNCHANGED <<flags, saved, fcalls, saveErrors, doubtful>>

DeleteFlag(p, n) ==
  /\ n \in DOMAIN flags
  /\ flags' = Restrict(flags, DOMAIN flags \ {n})
  /\ StartCall(p, n, "delete", NoName, FALSE)

\* A call that was alone from its first step to its last settles the name.
EndCall(p, newSaved) ==
  /\ saved' = newSaved
  /\ fcall' = [fcall EXCEPT ![p] = NoCall]
  /\ doubtful' = IF fcall[p].alone THEN doubtful \ {fcall[p].name} ELSE doubtful \cup {fcall[p].name}
  /\ UNCHANGED <<flags, fcalls, saveErrors>>

\* Save: REPLACE INTO.
Save(p) == fcall[p].pc = "save" /\ EndCall(p, WithEntry(saved, fcall[p].row, fcall[p].on))

DeleteSaved(p) ==
  fcall[p].pc = "delete" /\ EndCall(p, Restrict(saved, DOMAIN saved \ {fcall[p].name}))

\* The store fails: the caller is told, memory stays changed.
SaveFails(p) ==
  /\ fcall[p].pc \in {"save", "delete"} /\ saveErrors < MaxSaveErrors /\ saveErrors' = saveErrors + 1
  /\ fcall' = [fcall EXCEPT ![p] = NoCall]
  /\ doubtful' = doubtful \cup {fcall[p].name}
  /\ UNCHANGED <<flags, saved, fcalls>>

\* The process ends; Start loads what the store has.
RestartFlags ==
  /\ fcalls < MaxFlagCalls /\ fcalls' = fcalls + 1
  /\ flags' = saved /\ fcall' = [p \in Callers |-> NoCall] /\ doubtful' = {}
  /\ UNCHANGED <<saved, saveErrors>>

FlagsNext ==
  \/ \E p \in Callers :
       \/ \E n \in Flags, on \in BOOLEAN : SetFlag(p, n, on) \/ (\E u \in BOOLEAN : RegisterFlag(p, n, on, u))
       \/ (\E n \in Flags : DeleteFlag(p, n))
       \/ GetFlag(p) \/ Save(p) \/ DeleteSaved(p) \/ SaveFails(p)
  \/ RestartFlags

FlagsSpec == FlagsInit /\ [][FlagsNext]_flagVars

-----------------------------------------------------------------------------
\* What a restart would load is what is in memory, for every name no call is at
\* work on and whose last change neither failed nor overlapped another one.
FlagsSurviveRestart ==
  \A n \in Flags : ~Busy(n) /\ n \notin doubtful =>
    /\ (n \in DOMAIN flags) = (n \in DOMAIN saved)
    /\ n \in DOMAIN flags => flags[n] = saved[n]
=============================================================================
