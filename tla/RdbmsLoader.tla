---------------------------- MODULE RdbmsLoader ----------------------------
(***************************************************************************)
(* PostgresLoader and SQLiteLoader: blocks of pipelines that run           *)
(* concurrently write their tables into a database, one statement after    *)
(* the other, each awaited, without a transaction.  The database and its   *)
(* drivers are external: a statement is applied at once; it may fail, and  *)
(* its answer may be lost, which the driver reports as an error too.       *)
(*                                                                         *)
(* The rows of one INSERT stay together, so a table's content is the list  *)
(* of the loaders whose rows it holds, OLD standing for rows from before.  *)
(***************************************************************************)
EXTENDS Integers, Sequences

CONSTANTS
    Loaders,   \* the loader blocks of the pipelines that run
    Tables,    \* the tables they name
    Layouts,   \* lists of columns
    OLD,       \* not a loader: whoever filled the tables before
    NOTABLE,   \* in place of a table that does not exist
    Jobs,      \* what a loader may be given to do
    MayFail    \* the databases that may fail a statement or lose its answer

Job ==
    [database  : {"postgres", "sqlite"},
     table     : Tables,
     layout    : Layouts,
     empty     : BOOLEAN,    \* the table to load has no row
     dropTable : BOOLEAN]    \* a property of SQLiteLoader only

ASSUME LoaderAssumption ==
    /\ Jobs \subseteq Job
    /\ OLD \notin Loaders
    /\ MayFail \subseteq {"postgres", "sqlite"}

Content == [layout : Layouts, rows : Seq(Loaders \cup {OLD})]

ASSUME NoTableAssumption == NOTABLE \notin Content

VARIABLES
    job,         \* what each loader does
    stored,      \* the tables of the database
    step,        \* the statement each loader awaits next
    connection,  \* "none", "open" or "closed"
    result,      \* "none", "ok" or "err"
    inserted,    \* history: the loaders whose INSERT was applied
    overlapped   \* history: the pairs of loaders that ran at the same time

vars == <<job, stored, step, connection, result, inserted, overlapped>>

TableOf(l) == job[l].table

(* PostgresLoader always drops the table. *)
Drops(j) == j.database = "postgres" \/ j.dropTable

Running(l) == step[l] \notin {"start", "done"}

(* A table is in one database, which all loaders that name it write into. *)
Init ==
    /\ job \in [Loaders -> Jobs]
    /\ \A l, m \in Loaders :
          TableOf(l) = TableOf(m) => job[l].database = job[m].database
    /\ stored \in [Tables -> {NOTABLE} \cup [layout : Layouts, rows : {<<OLD>>}]]
    /\ step = [l \in Loaders |-> "start"]
    /\ connection = [l \in Loaders |-> "none"]
    /\ result = [l \in Loaders |-> "none"]
    /\ inserted = {}
    /\ overlapped = {}

-----------------------------------------------------------------------------
(* The statements, by what the database does with them *)

(* CREATE TABLE IF NOT EXISTS keeps a table of any layout. *)
Created(content, layout) ==
    IF content = NOTABLE THEN [layout |-> layout, rows |-> << >>] ELSE content

(* INSERT names the columns; without a row it is not valid SQL. *)
CanInsert(content, j) ==
    /\ content # NOTABLE
    /\ content.layout = j.layout
    /\ ~j.empty

Inserted(content, l) == [content EXCEPT !.rows = Append(@, l)]

(* Mutant of PostgresAnswer: an error starts the loader again. *)
PostgresAnswerWithRetry(l, ok, next) ==
    IF ok THEN /\ step' = [step EXCEPT ![l] = next]
               /\ result' = [result EXCEPT ![l] = IF next = "close" THEN "ok" ELSE @]
          ELSE step' = [step EXCEPT ![l] = "start"] /\ UNCHANGED result

(* The first error ends a PostgresLoader's doExecute with an error. *)
PostgresAnswer(l, ok, next) ==
    IF ok THEN /\ step' = [step EXCEPT ![l] = next]
               /\ result' = [result EXCEPT ![l] = IF next = "close" THEN "ok" ELSE @]
          ELSE /\ step' = [step EXCEPT ![l] = "close"]
               /\ result' = [result EXCEPT ![l] = "err"]

(* runQuery takes the callback's first parameter, where sqlite3 passes an   *)
(* error, for the result, and looks for the error in the second.            *)
SqliteAnswer(l, ok, next) ==
    /\ step' = [step EXCEPT ![l] = next]
    /\ result' = [result EXCEPT ![l] = IF next = "close" THEN "ok" ELSE @]

Answer(l, ok, next) ==
    IF job[l].database = "postgres" THEN PostgresAnswer(l, ok, next)
                                    ELSE SqliteAnswer(l, ok, next)

Failing(l) == job[l].database \in MayFail

-----------------------------------------------------------------------------
(* The loaders *)

Start(l) ==
    overlapped' = overlapped \cup {<<l, m>> : m \in {n \in Loaders : Running(n)}}
                             \cup {<<m, l>> : m \in {n \in Loaders : Running(n)}}

(* Mutant of PostgresConnect: the table is not dropped. *)
PostgresConnectWithoutDrop(l) ==
    /\ step[l] = "start"
    /\ job[l].database = "postgres"
    /\ Start(l)
    /\ \/ /\ connection' = [connection EXCEPT ![l] = "open"]
          /\ step' = [step EXCEPT ![l] = "create"]
          /\ UNCHANGED result
       \/ /\ step' = [step EXCEPT ![l] = "close"]
          /\ result' = [result EXCEPT ![l] = "err"]
          /\ UNCHANGED connection
    /\ UNCHANGED <<job, stored, inserted>>

(* The connection may be refused; the client is ended all the same. *)
PostgresConnect(l) ==
    /\ step[l] = "start"
    /\ job[l].database = "postgres"
    /\ Start(l)
    /\ \/ /\ connection' = [connection EXCEPT ![l] = "open"]
          /\ step' = [step EXCEPT ![l] = "drop"]
          /\ UNCHANGED result
       \/ /\ step' = [step EXCEPT ![l] = "close"]
          /\ result' = [result EXCEPT ![l] = "err"]
          /\ UNCHANGED connection
    /\ UNCHANGED <<job, stored, inserted>>

(* The constructor of the database may throw: there is nothing to close. *)
SqliteOpen(l) ==
    /\ step[l] = "start"
    /\ job[l].database = "sqlite"
    /\ Start(l)
    /\ \/ /\ connection' = [connection EXCEPT ![l] = "open"]
          /\ step' = [step EXCEPT ![l] = IF job[l].dropTable THEN "drop" ELSE "create"]
          /\ UNCHANGED result
       \/ /\ step' = [step EXCEPT ![l] = "done"]
          /\ result' = [result EXCEPT ![l] = "err"]
          /\ UNCHANGED connection
    /\ UNCHANGED <<job, stored, inserted>>

(* A statement that turns the table into content is applied and answered,   *)
(* or fails, or is applied and its answer lost.                             *)
Execute(l, content, next) ==
    /\ \/ stored' = [stored EXCEPT ![TableOf(l)] = content] /\ Answer(l, TRUE, next)
       \/ /\ Failing(l)
          /\ stored' \in {stored, [stored EXCEPT ![TableOf(l)] = content]}
          /\ Answer(l, FALSE, next)
    /\ UNCHANGED <<job, connection, overlapped>>

DropTable(l) ==
    /\ step[l] = "drop"
    /\ Execute(l, NOTABLE, "create")
    /\ UNCHANGED inserted

CreateTable(l) ==
    /\ step[l] = "create"
    /\ Execute(l, Created(stored[TableOf(l)], job[l].layout), "insert")
    /\ UNCHANGED inserted

InsertValues(l) ==
    /\ step[l] = "insert"
    /\ \/ /\ CanInsert(stored[TableOf(l)], job[l])
          /\ Execute(l, Inserted(stored[TableOf(l)], l), "close")
          /\ inserted' = IF stored' # stored THEN inserted \cup {l} ELSE inserted
       \/ /\ ~CanInsert(stored[TableOf(l)], job[l])
          /\ Answer(l, FALSE, "close")
          /\ UNCHANGED <<job, stored, connection, inserted, overlapped>>

(* Mutant of PostgresEnd: the client is ended on success only. *)
PostgresEndOnSuccess(l) ==
    /\ step[l] = "close"
    /\ job[l].database = "postgres"
    /\ connection' = IF result[l] = "ok" THEN [connection EXCEPT ![l] = "closed"]
                                         ELSE connection
    /\ step' = [step EXCEPT ![l] = "done"]
    /\ UNCHANGED <<job, stored, result, inserted, overlapped>>

(* The finally block awaits the end of the client: if that rejects, the     *)
(* rejection takes the place of the result.                                 *)
PostgresEnd(l) ==
    /\ step[l] = "close"
    /\ job[l].database = "postgres"
    /\ \/ UNCHANGED result
       \/ Failing(l) /\ result' = [result EXCEPT ![l] = "err"]
    /\ connection' = [connection EXCEPT ![l] = "closed"]
    /\ step' = [step EXCEPT ![l] = "done"]
    /\ UNCHANGED <<job, stored, inserted, overlapped>>

(* db.close() is not awaited. *)
SqliteClose(l) ==
    /\ step[l] = "close"
    /\ job[l].database = "sqlite"
    /\ connection' = [connection EXCEPT ![l] = "closed"]
    /\ step' = [step EXCEPT ![l] = "done"]
    /\ UNCHANGED <<job, stored, result, inserted, overlapped>>

Advance(l) ==
    \/ PostgresConnect(l) \/ SqliteOpen(l)
    \/ DropTable(l) \/ CreateTable(l) \/ InsertValues(l)
    \/ PostgresEnd(l) \/ SqliteClose(l)

Next == \E l \in Loaders : Advance(l)

(* Every statement is answered at some time, if only with an error. *)
Spec == Init /\ [][Next]_vars /\ \A l \in Loaders : WF_vars(Advance(l))

-----------------------------------------------------------------------------
(* Properties *)

(* Every variable has its type. *)
TypeOK ==
    /\ job \in [Loaders -> Jobs]
    /\ stored \in [Tables -> {NOTABLE} \cup Content]
    /\ step \in [Loaders -> {"start", "drop", "create", "insert", "close", "done"}]
    /\ connection \in [Loaders -> {"none", "open", "closed"}]
    /\ result \in [Loaders -> {"none", "ok", "err"}]
    /\ inserted \subseteq Loaders
    /\ overlapped \subseteq Loaders \X Loaders

Holds(t, l) ==
    /\ stored[t] # NOTABLE
    /\ \E i \in DOMAIN stored[t].rows : stored[t].rows[i] = l

(* If every loader of a table drops it, the rows from before are never     *)
(* found beside loaded ones, whatever fails and however the loaders         *)
(* interleave.                                                             *)
NothingMixesWithOldRows ==
    \A t \in Tables :
        (\A l \in Loaders : TableOf(l) = t => Drops(job[l])) =>
            ~ \E l \in Loaders : Holds(t, OLD) /\ Holds(t, l)

(* Two loaders that drop the table leave rows of both of them in it only   *)
(* if they ran at the same time.                                           *)
OnlyConcurrentLoadsMix ==
    \A l, m \in Loaders :
        /\ l # m
        /\ Drops(job[l]) /\ Drops(job[m])
        /\ Holds(TableOf(l), l) /\ Holds(TableOf(l), m)
        => <<l, m>> \in overlapped

(* A PostgresLoader that reports success and had the table for itself      *)
(* leaves exactly its rows, in columns of its layout.                      *)
SuccessReplacesTheTable ==
    \A l \in Loaders :
        /\ job[l].database = "postgres"
        /\ result[l] = "ok"
        /\ \A m \in Loaders \ {l} : TableOf(m) = TableOf(l) => step[m] = "start"
        => stored[TableOf(l)] = [layout |-> job[l].layout, rows |-> <<l>>]

(* What is in the table after all is what the loaders, their failures and  *)
(* their overlaps account for.                                             *)
TableIsAccountedFor ==
    NothingMixesWithOldRows /\ OnlyConcurrentLoadsMix /\ SuccessReplacesTheTable

(* The connection is closed in the end, whatever fails. *)
ConnectionsAreClosed ==
    \A l \in Loaders : step[l] = "done" => connection[l] # "open"

(* Every loader comes to an end. *)
EveryLoaderEnds == <>(\A l \in Loaders : step[l] = "done")

(* A loader that reports "The data was successfully loaded into the        *)
(* database" has inserted it.                                              *)
LoadedWhenReported == \A l \in Loaders : result[l] = "ok" => l \in inserted

=============================================================================
