-------------------------- MODULE SchemaMigrations --------------------------
(***************************************************************************)
(* SchemaMigrator: numbered SQL files in a directory and the table         *)
(* _migrations of the versions applied.  A file's statements run one after *)
(* the other without a transaction, its version is recorded after them,    *)
(* and no lock keeps two runs apart.                                       *)
(***************************************************************************)
EXTENDS Integers, FiniteSetsExt, Maps

CONSTANTS
  Migrators,    \* requests to /schema/migrate and /schema/create
  FileNames,    \* names of new migrations: a set of numbers
  Statements,   \* statements of a migration file
  MaxApplies, MaxFailures

ASSUME MigrationsAssumption == FileNames \subseteq Nat /\ Statements \in Nat \ {0}

VARIABLES
  server,       \* "mysql" or "postgres"
  dir,          \* the migration files: [ver, name]
  recorded,     \* recorded[v]: the file whose version v is in _migrations
  migr,         \* migr[p]: the request p
  applies, failures,
  ran           \* history: the files all of whose statements were executed

migrationVars == <<server, dir, recorded, migr, applies, failures, ran>>

\* todo: the file to write, or the files to apply, the first of which is at work.
NoRequest == [pc |-> "off", todo |-> {}, stmt |-> 0]

\* Module.Init: MySQL "main" if connected, else Postgres; Init creates the table.
MigrationsInit ==
  /\ server \in {"mysql", "postgres"}
  /\ dir = {} /\ recorded = <<>> /\ applies = 0 /\ failures = 0
  /\ migr = [p \in Migrators |-> NoRequest]
  /\ ran = {}

\* Applied: the version is read as int64 or float64.  Postgres hands out an int32,
\* which matches neither and counts as version 0.
Applied == IF server = "mysql" THEN DOMAIN recorded
           ELSE {0 : v \in DOMAIN recorded}

Pending == {f \in dir : f.ver \notin Applied}

\* Mutated Before: the newest file first.
After(f, g) == f.ver > g.ver \/ (f.ver = g.ver /\ f.name < g.name)

\* loadMigrations: sorted by version; the directory is read in order of names.
Before(f, g) == f.ver < g.ver \/ (f.ver = g.ver /\ f.name < g.name)

\* The file of the loop of ApplyAll.
AtWork(p, f) == f \in migr[p].todo /\ \A g \in migr[p].todo \ {f} : Before(f, g)

\* CreateMigrationFile: one more than the highest version.
NextVersion == Max({0} \cup {f.ver : f \in dir}) + 1

CreateMigrationFile(p, name) ==
  /\ migr[p].pc = "off" /\ \A f \in dir : f.name # name
  /\ migr' = [migr EXCEPT ![p] =
       [pc |-> "write", todo |-> {[ver |-> NextVersion, name |-> name]}, stmt |-> 0]]
  /\ UNCHANGED <<server, dir, recorded, applies, failures, ran>>

WriteFile(p) ==
  /\ migr[p].pc = "write"
  /\ dir' = dir \cup migr[p].todo
  /\ migr' = [migr EXCEPT ![p] = NoRequest]
  /\ UNCHANGED <<server, recorded, applies, failures, ran>>

\* applyMigrations, ApplyAll: the pending files as seen now.
ApplyAll(p) ==
  /\ migr[p].pc = "off" /\ applies < MaxApplies /\ Pending # {}
  /\ migr' = [migr EXCEPT ![p] = [pc |-> "check", todo |-> Pending, stmt |-> 0]]
  /\ applies' = applies + 1
  /\ UNCHANGED <<server, dir, recorded, failures, ran>>

\* Apply looks again; a version that is there now is an error, which ends ApplyAll.
CheckApplied(p, f) ==
  /\ migr[p].pc = "check" /\ AtWork(p, f)
  /\ migr' = [migr EXCEPT ![p] =
       IF f.ver \in Applied THEN NoRequest ELSE [migr[p] EXCEPT !.pc = "exec"]]
  /\ UNCHANGED <<server, dir, recorded, applies, failures, ran>>

\* ExecRaw: the next statement.
ExecStatement(p, f) ==
  /\ migr[p].pc = "exec" /\ AtWork(p, f)
  /\ LET last == migr[p].stmt + 1 = Statements IN
     /\ migr' = [migr EXCEPT ![p] =
          [pc |-> IF last THEN "record" ELSE "exec", todo |-> migr[p].todo,
           stmt |-> IF last THEN 0 ELSE migr[p].stmt + 1]]
     /\ ran' = IF last THEN ran \cup {f} ELSE ran
  /\ UNCHANGED <<server, dir, recorded, applies, failures>>

\* The INSERT into _migrations; its primary key refuses a version twice.
Record(p, f) ==
  /\ migr[p].pc = "record" /\ AtWork(p, f)
  /\ LET rest == migr[p].todo \ {f}  twice == f.ver \in DOMAIN recorded IN
     /\ recorded' = IF twice THEN recorded ELSE WithEntry(recorded, f.ver, f)
     /\ migr' = [migr EXCEPT ![p] = IF twice \/ rest = {} THEN NoRequest
                                    ELSE [pc |-> "check", todo |-> rest, stmt |-> 0]]
  /\ UNCHANGED <<server, dir, applies, failures, ran>>

\* A statement or the INSERT fails, or the process dies: the run is over and what
\* was executed stays.
MigrationFails(p) ==
  /\ migr[p].pc \in {"exec", "record"} /\ failures < MaxFailures
  /\ failures' = failures + 1
  /\ migr' = [migr EXCEPT ![p] = NoRequest]
  /\ UNCHANGED <<server, dir, recorded, applies, ran>>

MigrationsNext == \E p \in Migrators :
  \/ \E n \in FileNames : CreateMigrationFile(p, n)
  \/ WriteFile(p) \/ ApplyAll(p) \/ MigrationFails(p)
  \/ \E f \in migr[p].todo : CheckApplied(p, f) \/ ExecStatement(p, f) \/ Record(p, f)

MigrationsSpec == MigrationsInit /\ [][MigrationsNext]_migrationVars

-----------------------------------------------------------------------------
Twin(f) == \E g \in dir : g # f /\ g.ver = f.ver

\* Versions are recorded from the lowest up, each after all statements of the file
\* it names; a file whose version is recorded without its having run has a twin,
\* written by a request that counted the directory at the same time.
RecordedInOrder ==
  \A f \in dir : f.ver \in DOMAIN recorded =>
    /\ recorded[f.ver] \in ran
    /\ f \in ran \/ Twin(f)
    /\ \A g \in dir : g.ver < f.ver => g.ver \in DOMAIN recorded
=============================================================================
