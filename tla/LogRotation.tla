---------------------------- MODULE LogRotation -----------------------------
(***************************************************************************)
(* dailyWriter: the log file of the day, then its numbered backups, each   *)
(* opened for appending; an hourly clean-up removes what was not written   *)
(* for MaxAge days.  Write looks at closed before it takes the lock, Close *)
(* sets it before it takes the lock, and a restart begins at the day's     *)
(* first file again.  A line is one unit of size.                          *)
(***************************************************************************)
EXTENDS Integers, Sequences, FiniteSets, Functions, Maps

CONSTANTS
  Writers,
  MaxSize, MaxAge, MaxBackup,
  MaxLines, MaxDay, MaxRestarts, MaxOpenErrors,
  NoFile          \* file == nil

ASSUME LogAssumption == MaxAge \in Nat

VARIABLES
  disk,           \* name -> [lines, mtime]; a name is <<date, index>>
  file,           \* the name w.file writes to, or NoFile
  usable,         \* w.file has not been closed
  date, logSize, index, logClosed,
  handles,        \* names of the descriptors open in the process
  writing,        \* writing[p]: the line p is about to write, 0 when none
  day, lines, restarts, openErrors,
  accepted        \* history: accepted lines, with the day and whether the file was gone

logVars == <<disk, file, usable, date, logSize, index, logClosed, handles, writing,
             day, lines, restarts, openErrors, accepted>>

\* Mutated Opened: an existing file is truncated.
OpenedAfresh(d, name) ==
  WithEntry(d, name, [lines |-> {}, mtime |-> day])

\* OpenFile with O_CREATE and O_APPEND.
Opened(d, name) ==
  IF name \in DOMAIN d THEN d
  ELSE WithEntry(d, name, [lines |-> {}, mtime |-> day])

LogInit ==
  /\ disk = [name \in {<<1, 0>>} |-> [lines |-> {}, mtime |-> 1]]
  /\ file = <<1, 0>> /\ usable = TRUE /\ date = 1 /\ logSize = 0 /\ index = 0
  /\ logClosed = FALSE /\ handles = {<<1, 0>>}
  /\ writing = [p \in Writers |-> 0]
  /\ day = 1 /\ lines = 0 /\ restarts = 0 /\ openErrors = 0
  /\ accepted = {}

\* Write up to the lock.
WriteChecks(p) ==
  /\ writing[p] = 0 /\ lines < MaxLines
  /\ ~logClosed
  /\ lines' = lines + 1
  /\ writing' = [writing EXCEPT ![p] = lines + 1]
  /\ UNCHANGED <<disk, file, usable, date, logSize, index, logClosed, handles, day,
                 restarts, openErrors, accepted>>

\* The writer's fields after openLocked: the day's first file, whose size is
\* read from the disk.  The file it replaces is not closed.
openLocked(d, s) ==
  [s EXCEPT !.disk = Opened(d, <<day, 0>>), !.file = <<day, 0>>, !.usable = TRUE,
            !.date = day, !.logSize = Cardinality(Opened(d, <<day, 0>>)[<<day, 0>>].lines),
            !.index = 0, !.handles = @ \cup {<<day, 0>>}]

\* rotateLocked: the next backup, whose size is taken to be 0.
rotateLocked(s) ==
  LET name == <<day, s.index + 1>>
  IN [s EXCEPT !.disk = Opened(s.disk, name), !.file = name, !.logSize = 0,
               !.index = @ + 1, !.handles = (@ \ {s.file}) \cup {name}]

\* rotateLocked when the backup cannot be opened: openLocked is tried, and if
\* that fails too the closed file stays.
rotateFails(s) ==
  LET shut == [s EXCEPT !.handles = @ \ {s.file}, !.index = @ + 1]
  IN {openLocked(s.disk, shut), [shut EXCEPT !.usable = FALSE]}

State ==
  [disk |-> disk, file |-> file, usable |-> usable, date |-> date, logSize |-> logSize,
   index |-> index, handles |-> handles]

\* The line at the end of the file s writes to, be it still on the disk or not.
Appended(s, line) ==
  IF s.file \in DOMAIN s.disk
  THEN [s EXCEPT !.disk[s.file].lines = @ \cup {line}, !.disk[s.file].mtime = day,
                 !.logSize = @ + 1]
  ELSE [s EXCEPT !.logSize = @ + 1]

Becomes(s) ==
  /\ disk' = s.disk /\ file' = s.file /\ usable' = s.usable /\ date' = s.date
  /\ logSize' = s.logSize /\ index' = s.index /\ handles' = s.handles

\* Write under the lock.  On a new day openLocked comes first, after Close too;
\* if it fails the old file is written on.  A nil or a closed file refuses.
WriteLine(p) ==
  /\ writing[p] # 0
  /\ \E here \in IF day = date THEN {State} ELSE {State, openLocked(disk, State)} :
       LET full == Appended(here, writing[p])
           rotate == full.logSize >= MaxSize /\ full.index < MaxBackup
           failed == day # date /\ here = State
       IN /\ failed => openErrors < MaxOpenErrors
          /\ IF here.file = NoFile \/ ~here.usable
             THEN /\ Becomes(here)
                  /\ openErrors' = openErrors + (IF failed THEN 1 ELSE 0)
                  /\ UNCHANGED accepted
             ELSE /\ \/ /\ Becomes(IF rotate THEN rotateLocked(full) ELSE full)
                        /\ openErrors' = openErrors + (IF failed THEN 1 ELSE 0)
                     \/ /\ rotate /\ ~failed /\ openErrors < MaxOpenErrors
                        /\ \E s \in rotateFails(full) : Becomes(s)
                        /\ openErrors' = openErrors + 1
                  /\ accepted' = accepted \cup
                       {[line |-> writing[p], on |-> day,
                         unlinked |-> here.file \notin DOMAIN here.disk]}
  /\ writing' = [writing EXCEPT ![p] = 0]
  /\ UNCHANGED <<logClosed, day, lines, restarts>>

\* Close: first the flag, then, under the lock, the file.
CloseFlag ==
  /\ ~logClosed
  /\ logClosed' = TRUE
  /\ UNCHANGED <<disk, file, usable, date, logSize, index, handles, writing, day,
                 lines, restarts, openErrors, accepted>>

CloseFile ==
  /\ logClosed /\ file # NoFile
  /\ handles' = handles \ {file}
  /\ file' = NoFile
  /\ UNCHANGED <<disk, usable, date, logSize, index, logClosed, writing, day, lines,
                 restarts, openErrors, accepted>>

\* cleanup: files last written before the cutoff are removed.
cleanup ==
  /\ ~logClosed
  /\ LET old == {n \in DOMAIN disk : disk[n].mtime < day - MaxAge}
     IN /\ old # {}
        /\ disk' = Restrict(disk, DOMAIN disk \ old)
  /\ UNCHANGED <<file, usable, date, logSize, index, logClosed, handles, writing, day,
                 lines, restarts, openErrors, accepted>>

NextDay ==
  /\ day < MaxDay
  /\ day' = day + 1
  /\ UNCHANGED <<disk, file, usable, date, logSize, index, logClosed, handles, writing,
                 lines, restarts, openErrors, accepted>>

\* NewRotateWriter in a new process.
Restart ==
  /\ restarts < MaxRestarts
  /\ restarts' = restarts + 1
  /\ logClosed' = FALSE
  /\ writing' = [p \in Writers |-> 0]
  /\ Becomes(openLocked(disk, [State EXCEPT !.handles = {}]))
  /\ UNCHANGED <<day, lines, openErrors, accepted>>

LogNext ==
  \/ \E p \in Writers : WriteChecks(p) \/ WriteLine(p)
  \/ CloseFlag \/ CloseFile \/ cleanup \/ NextDay \/ Restart

LogSpec == LogInit /\ [][LogNext]_logVars

-----------------------------------------------------------------------------
\* A line whose Write returned no error is on disk for MaxAge days, through
\* rotations, a failed rotation, changes of day, Close, clean-ups and restarts;
\* only a line written to a file the clean-up has already removed (the writer
\* slept past MaxAge and could not open the day's file) is gone.
AcceptedLinesAreKept ==
  \A a \in accepted :
    \/ day - MaxAge > a.on
    \/ a.unlinked
    \/ \E n \in DOMAIN disk : a.line \in disk[n].lines
=============================================================================
