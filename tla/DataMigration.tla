---------------------------- MODULE DataMigration ----------------------------
(***************************************************************************)
(* Dump, restore, transfer and backup of one table.  A table is read page  *)
(* by page with LIMIT and OFFSET, in primary key order on Postgres and in  *)
(* no promised order on MySQL, while other requests go on changing it; it  *)
(* is written batch by batch without a transaction.  A backup is a file of *)
(* metadata and, after it, a file of data named after the second.          *)
(***************************************************************************)
EXTENDS Integers, Sequences, FiniteSets, FiniteSetsExt, SequencesExt, Functions, Sorting

CONSTANTS
  Jobs,           \* requests to the migrate module
  MaxKey,         \* primary keys 1..MaxKey
  TypeOfRow,      \* TypeOfRow[k]: the type of row k's value, one of ValueTypes
  Algorithms,     \* what backups are compressed with, "" for not at all
  PageSize, InsertSize,   \* BatchSize of a dump and of a restore
  MaxJobs, MaxWrites, MaxSeconds

ValueTypes == {"null", "int", "bigint", "text", "statement", "blob", "bool"}

ASSUME DataAssumption ==
  /\ Algorithms \subseteq {"", "gzip", "zlib", "zip", "zstd"}
  /\ MaxKey \in Nat /\ TypeOfRow \in [1..MaxKey -> ValueTypes]
  /\ PageSize \in Nat \ {0} /\ InsertSize \in Nat \ {0}

VARIABLES
  dbms,           \* "mysql" or "postgres"
  table, other,   \* the table and a transfer's target: key -> "as it was" or "changed"
  job,            \* job[j]: the request j
  metas, files,   \* the backups on disk, by name
  second, begun, writes,
  given, twice    \* history: names given, names given more than once

dataVars == <<dbms, table, other, job, metas, files, second, begun, writes, given, twice>>

NoJob == [pc |-> "off"]
Same == "as it was"

-----------------------------------------------------------------------------
(* Conversions *)

\* The Go value a column is scanned into: MySQL hands text out as bytes.
Scanned(t) ==
  CASE t \in {"null", "int", "bigint"} -> t
    [] t = "bool" -> IF dbms = "mysql" THEN "int" ELSE "bool"
    [] t \in {"text", "statement"} -> IF dbms = "mysql" THEN "bytes" ELSE "string"
    [] t = "blob" -> "bytes"

\* dumpJSON: json.Marshal writes bytes as base64.
dumpJSON(t) == IF Scanned(t) = "bytes" THEN "base64" ELSE Scanned(t)

\* restoreJSON: base64 stays the text it is, a number is read as float64.
restoreJSON(v) == IF v \in {"base64", "bigint"} THEN "changed" ELSE Same

\* formatSQLValue: a boolean becomes 1 or 0, the rest a quoted text.
formatSQLValue(t) ==
  IF Scanned(t) = "bool" THEN "number" ELSE IF t = "statement" THEN "with semicolon" ELSE t

\* restoreSQL: Postgres refuses a number for a boolean, and splitSQL makes two
\* statements of a text with a semicolon, which are refused both.
restoreSQL(t, v) ==
  IF v = "with semicolon" \/ (v = "number" /\ t = "bool") THEN "refused" ELSE Same

\* dumpCSV writes a line with the table's name, one field, before the records,
\* which have one per column.
dumpCSV(t) == "unequal records"

\* restoreCSV: the reader refuses records of unequal length.
restoreCSV(v) == IF v = "unequal records" THEN "refused" ELSE Same

Through(format, t) ==
  CASE format = "json" -> restoreJSON(dumpJSON(t)) [] format = "sql" -> restoreSQL(t, formatSQLValue(t))
    [] format = "csv" -> restoreCSV(dumpCSV(t))

\* Statements of a script that are not rows: CREATE TABLE IF NOT EXISTS.
DDL(format) == IF format = "sql" THEN 1 ELSE 0

\* CompressAuto knows three algorithms.
Compresses(algo) == algo \in {"", "gzip", "zlib", "zip"}

\* isCompressed looks for gzip and zlib only: a zip is taken for JSON.
Decompresses(algo) == algo \in {"", "gzip", "zlib"}

\* A password's key is derived with a new salt, which is not stored: what was
\* encrypted is not decrypted again, and what was not does not authenticate.
Decrypts(sealed, password) == ~sealed /\ ~password

\* RestoreBackup gets at the rows; without metadata the data decides.
Opens(f, password) == Decrypts(f.sealed, password) /\ Decompresses(f.algo)

-----------------------------------------------------------------------------
(* Adapters *)

\* Mutated PostgresSelectAll: the next page begins one row early.
PostgresSelectOverlaps(S, offset) ==
  {SubSeq(Ascending(S), Max({1, offset}), Min({offset + PageSize - 1, Cardinality(S)}))}

\* SelectAll: ORDER BY the first column, LIMIT PageSize OFFSET offset.
PostgresSelectAll(S, offset) ==
  {SubSeq(Ascending(S), offset + 1, Min({offset + PageSize, Cardinality(S)}))}

\* MySQL is told no order: any rows, as many as the page has.
MySQLSelectAll(S, offset) ==
  {Ascending(P) : P \in kSubset(Min({PageSize, Max({0, Cardinality(S) - offset})}), S)}

SelectAll(S, offset) ==
  IF dbms = "postgres" THEN PostgresSelectAll(S, offset) ELSE MySQLSelectAll(S, offset)

\* The rows of a batch that are refused: the key is there, or earlier in the batch.
Refused(tab, rows) ==
  {i \in DOMAIN rows : rows[i] \in DOMAIN tab \/ \E h \in 1..(i - 1) : rows[h] = rows[i]}

\* The rows before the first that is refused.
Accepted(tab, rows) ==
  SubSeq(rows, 1, Cardinality({i \in DOMAIN rows : \A h \in Refused(tab, rows) : i < h}))

\* Mutated MySQLInsertBatch: the rows before the one that is refused stay.
MySQLInsertsSome(tab, rows) == Accepted(tab, rows)

\* InsertBatch: one statement, all of it or nothing.
MySQLInsertBatch(tab, rows) == IF Refused(tab, rows) = {} THEN rows ELSE <<>>

\* InsertBatch: a statement per row; those before the one that is refused stay.
PostgresInsertBatch(tab, rows) == Accepted(tab, rows)

Inserted(tab, rows) ==
  IF dbms = "mysql" THEN MySQLInsertBatch(tab, rows) ELSE PostgresInsertBatch(tab, rows)

InsertOK(tab, rows) == Refused(tab, rows) = {}

Put(tab, keys, format) ==
  [k \in DOMAIN tab \cup keys |-> IF k \in DOMAIN tab THEN tab[k] ELSE Through(format, TypeOfRow[k])]

-----------------------------------------------------------------------------
(* Requests *)

DataInit ==
  /\ dbms \in {"mysql", "postgres"}
  /\ table \in {[k \in S |-> Same] : S \in {1..n : n \in 0..MaxKey}} /\ other = <<>>
  /\ job = [j \in Jobs |-> NoJob] /\ metas = <<>> /\ files = <<>>
  /\ second = 1 /\ begun = 0 /\ writes = 0 /\ given = {} /\ twice = {}

StartRead(j, use, algo, sealed) ==
  /\ job[j].pc = "off" /\ begun < MaxJobs /\ begun' = begun + 1
  /\ job' = [job EXCEPT ![j] =
       [pc |-> "read", use |-> use, offset |-> 0, got |-> <<>>, algo |-> algo, sealed |-> sealed,
        first |-> DOMAIN table, moved |-> FALSE, put |-> <<>>, count |-> 0, errors |-> FALSE]]
  /\ UNCHANGED <<dbms, table, other, metas, files, second, writes, given, twice>>

Dump(j) == StartRead(j, "dump", "", FALSE)
Transfer(j) == StartRead(j, "transfer", "", FALSE)
CreateBackup(j, algo, sealed) == StartRead(j, "backup", algo, sealed)

\* One page of a dump.  CompressAuto refuses an algorithm after the dump is done.
DumpPage(j) ==
  /\ job[j].pc = "read" /\ job[j].use # "transfer"
  /\ \E rows \in SelectAll(DOMAIN table, job[j].offset) :
       job' = [job EXCEPT ![j].got = @ \o rows, ![j].offset = @ + PageSize,
                 ![j].pc = IF Len(rows) = PageSize THEN "read"
                           ELSE IF job[j].use = "dump" THEN "done"
                           ELSE IF Compresses(job[j].algo) THEN "name" ELSE "failed"]
  /\ UNCHANGED <<dbms, table, other, metas, files, second, begun, writes, given, twice>>

\* transferTable hands a page to the target at once; an error ends the table.
TransferPage(j) ==
  /\ job[j].pc = "read" /\ job[j].use = "transfer"
  /\ \E rows \in SelectAll(DOMAIN table, job[j].offset) :
       LET put == Inserted(other, rows)  ok == InsertOK(other, rows)
       IN /\ other' = [k \in DOMAIN other \cup ToSet(put) |-> Same]
          /\ job' = [job EXCEPT ![j].got = @ \o rows, ![j].offset = @ + PageSize,
                       ![j].put = @ \o put, ![j].errors = ~ok,
                       ![j].count = IF ok THEN @ + Len(rows) ELSE @,
                       ![j].pc = IF ok /\ Len(rows) = PageSize THEN "read" ELSE "done"]
  /\ UNCHANGED <<dbms, table, metas, files, second, begun, writes, given, twice>>

\* The name is the second and the algorithm: another such backup takes the same.
NameBackup(j) ==
  /\ job[j].pc = "name"
  /\ LET name == <<second, job[j].algo>>
     IN /\ job' = [job EXCEPT ![j] = [pc |-> "meta", name |-> name, rows |-> job[j].got,
                                      algo |-> job[j].algo, sealed |-> job[j].sealed]]
        /\ given' = given \cup {name} /\ twice' = twice \cup ({name} \cap given)
  /\ UNCHANGED <<dbms, table, other, metas, files, second, begun, writes>>

\* Mutated WriteMeta: the count is never filled in.
WriteMetaEarly(j) ==
  /\ job[j].pc = "meta"
  /\ metas' = [n \in DOMAIN metas \cup {job[j].name} |->
                 IF n = job[j].name THEN [rows |-> <<>>, sealed |-> job[j].sealed] ELSE metas[n]]
  /\ job' = [job EXCEPT ![j].pc = "data"]
  /\ UNCHANGED <<dbms, table, other, files, second, begun, writes, given, twice>>

\* The metadata, row count and checksum included, is written first.
WriteMeta(j) ==
  /\ job[j].pc = "meta"
  /\ metas' = [n \in DOMAIN metas \cup {job[j].name} |->
                 IF n = job[j].name THEN [rows |-> job[j].rows, sealed |-> job[j].sealed] ELSE metas[n]]
  /\ job' = [job EXCEPT ![j].pc = "data"]
  /\ UNCHANGED <<dbms, table, other, files, second, begun, writes, given, twice>>

WriteData(j) ==
  /\ job[j].pc = "data"
  /\ files' = [n \in DOMAIN files \cup {job[j].name} |->
                 IF n = job[j].name
                 THEN [rows |-> job[j].rows, sealed |-> job[j].sealed, algo |-> job[j].algo]
                 ELSE files[n]]
  /\ job' = [job EXCEPT ![j] = NoJob]
  /\ UNCHANGED <<dbms, table, other, metas, second, begun, writes, given, twice>>

\* ListBackups: the names with metadata, whether or not there is data beside it.
ListBackups == DOMAIN metas

\* DeleteBackup: both files go; only the data's absence is an error.
DeleteBackup(n) ==
  /\ metas' = Restrict(metas, DOMAIN metas \ {n}) /\ files' = Restrict(files, DOMAIN files \ {n})
  /\ UNCHANGED <<dbms, table, other, job, second, begun, writes, given, twice>>

\* RestoreBackup: the file is opened, or the request fails.  The checksum of the
\* metadata is not compared.
RestoreBackup(j, n, password) ==
  /\ job[j].pc = "off" /\ begun < MaxJobs /\ begun' = begun + 1
  /\ job' = [job EXCEPT ![j] =
       IF Opens(files[n], password)
       THEN [pc |-> "insert", use |-> "restore", format |-> "json", todo |-> files[n].rows,
             got |-> files[n].rows, put |-> <<>>, count |-> 0, errors |-> FALSE]
       ELSE [pc |-> "failed"]]
  /\ UNCHANGED <<dbms, table, other, metas, files, second, writes, given, twice>>

\* Rows that are only added after the last one do not shift the pages of a read.
OnlyAppends(keys) ==
  DOMAIN table \subseteq keys /\ \A k \in keys \ DOMAIN table, i \in DOMAIN table : i < k

\* The requests once the table's keys are these: the ones that read may have lost
\* their place.
Shifted(reqs, keys) ==
  [i \in Jobs |-> IF reqs[i].pc = "read" /\ ~OnlyAppends(keys)
                  THEN [reqs[i] EXCEPT !.moved = TRUE] ELSE reqs[i]]

\* restore: the rows of a finished download come back in, after a TRUNCATE if one
\* was begun for and there is at least one row; the SQL script has no TRUNCATE and
\* its CREATE TABLE counts as a row.  A CSV file is refused as a whole.
Upload(j, format, truncate) ==
  /\ job[j].pc = "done" /\ job[j].use = "dump"
  /\ LET rows == job[j].got
     IN /\ table' = IF truncate /\ format = "json" /\ rows # <<>> THEN <<>> ELSE table
        /\ job' = Shifted([job EXCEPT ![j] =
             IF format = "csv" THEN [pc |-> "failed"]
             ELSE [pc |-> "insert", use |-> "restore", format |-> format, todo |-> rows, got |-> rows,
                   put |-> <<>>, count |-> DDL(format), errors |-> FALSE]], DOMAIN table')
  /\ UNCHANGED <<dbms, other, metas, files, second, begun, writes, given, twice>>

\* One batch, or one statement of a script; the next is tried whatever became of it.
\* A statement that cannot be read back puts nothing in.
RestoreBatch(j) ==
  /\ job[j].pc = "insert"
  /\ LET size == IF job[j].format = "sql" THEN 1 ELSE InsertSize
         rows == SubSeq(job[j].todo, 1, Min({size, Len(job[j].todo)}))
         legible == \A i \in DOMAIN rows : Through(job[j].format, TypeOfRow[rows[i]]) # "refused"
         ok == legible /\ InsertOK(table, rows)
         put == IF legible THEN Inserted(table, rows) ELSE <<>>
     IN /\ table' = Put(table, ToSet(put), job[j].format)
        /\ job' = Shifted([job EXCEPT ![j].todo = SubSeq(@, Len(rows) + 1, Len(@)),
                     ![j].put = @ \o put, ![j].errors = @ \/ ~ok,
                     ![j].count = IF ok THEN @ + Len(rows) ELSE @,
                     ![j].pc = IF Len(job[j].todo) <= size THEN "done" ELSE "insert"], DOMAIN table')
  /\ UNCHANGED <<dbms, other, metas, files, second, begun, writes, given, twice>>

\* Other requests insert and delete rows while a job reads.
InsertRow(k) ==
  /\ writes < MaxWrites /\ writes' = writes + 1 /\ k \notin DOMAIN table
  /\ table' = [i \in DOMAIN table \cup {k} |-> IF i = k THEN Same ELSE table[i]]
  /\ job' = Shifted(job, DOMAIN table \cup {k})
  /\ UNCHANGED <<dbms, other, metas, files, second, begun, given, twice>>

DeleteRow(k) ==
  /\ writes < MaxWrites /\ writes' = writes + 1 /\ k \in DOMAIN table
  /\ table' = Restrict(table, DOMAIN table \ {k})
  /\ job' = Shifted(job, DOMAIN table \ {k})
  /\ UNCHANGED <<dbms, other, metas, files, second, begun, given, twice>>

\* The process dies; the database keeps what was written.
JobDies(j) ==
  /\ job[j].pc \in {"read", "meta", "data", "insert"} /\ writes < MaxWrites /\ writes' = writes + 1
  /\ job' = [job EXCEPT ![j] = NoJob]
  /\ UNCHANGED <<dbms, table, other, metas, files, second, begun, given, twice>>

Answer(j) ==
  /\ job[j].pc \in {"done", "failed"} /\ job' = [job EXCEPT ![j] = NoJob]
  /\ UNCHANGED <<dbms, table, other, metas, files, second, begun, writes, given, twice>>

NextSecond ==
  /\ second < MaxSeconds /\ second' = second + 1
  /\ UNCHANGED <<dbms, table, other, job, metas, files, begun, writes, given, twice>>

DataNext ==
  \/ NextSecond
  \/ \E k \in 1..MaxKey : InsertRow(k) \/ DeleteRow(k)
  \/ \E n \in DOMAIN metas \cup DOMAIN files : DeleteBackup(n)
  \/ \E j \in Jobs :
       \/ Dump(j) \/ Transfer(j)
       \/ \E algo \in Algorithms, sealed \in BOOLEAN : CreateBackup(j, algo, sealed)
       \/ DumpPage(j) \/ TransferPage(j) \/ NameBackup(j) \/ WriteMeta(j) \/ WriteData(j)
       \/ \E n \in DOMAIN files, password \in BOOLEAN : RestoreBackup(j, n, password)
       \/ \E format \in {"json", "sql", "csv"}, truncate \in BOOLEAN : Upload(j, format, truncate)
       \/ RestoreBatch(j) \/ JobDies(j) \/ Answer(j)

DataSpec == DataInit /\ [][DataNext]_dataVars

-----------------------------------------------------------------------------
\* A dump of Postgres, or of one page, has every row that was there throughout,
\* once, if meanwhile rows were only appended.  Nothing more is promised by pages
\* that are separate statements.
PagedReadIsComplete ==
  \A j \in Jobs :
    job[j].pc \in {"name", "done"} /\ job[j].use \in {"dump", "backup"} /\ ~job[j].moved
      /\ (dbms = "postgres" \/ Len(job[j].got) < PageSize) =>
        IsInjective(job[j].got) /\ job[j].first \subseteq ToSet(job[j].got)

\* What a restore or transfer reports: without errors every row it was given was
\* put in, and the rows it counts, a script's CREATE TABLE apart, are rows it put
\* there, all of them on MySQL.  A Postgres batch that fails half way leaves rows
\* that are not counted.
ReportIsTrue ==
  \A j \in Jobs : job[j].pc = "done" /\ job[j].use \in {"restore", "transfer"} =>
    LET count == job[j].count - (IF job[j].use = "restore" THEN DDL(job[j].format) ELSE 0)
    IN /\ ~job[j].errors => job[j].put = job[j].got
       /\ count <= Len(job[j].put)
       /\ dbms = "mysql" => count = Len(job[j].put)

\* The metadata beside a backup describes it, unless two backups of one second
\* wrote the two files by turns: a writer that dies between the two files leaves
\* metadata without data.
MetaDescribesBackup ==
  \A n \in ListBackups \cap DOMAIN files :
    n \notin twice => metas[n].rows = files[n].rows /\ metas[n].sealed = files[n].sealed
=============================================================================
