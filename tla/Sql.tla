-------------------------------- MODULE Sql --------------------------------
(***************************************************************************)
(* The SQL component of klib (src/sql.cpp, include/klib/sql.h): one         *)
(* SqlDatabase, the SqlQuery objects made from it and the Column handles    *)
(* those give out, all driven from one thread.  SQLite is external: the     *)
(* operators under "SQLite" say what the calls klib makes do to the         *)
(* connection, to the prepared statements and to one table.                 *)
(*                                                                          *)
(* C++ destroys objects and SQLite frees memory at different moments, so a  *)
(* pointer a klib object keeps may outlive what it points to.  A call that  *)
(* would hand such a pointer to SQLite ends the behaviour with a fault.     *)
(***************************************************************************)
EXTENDS Integers, FiniteSets

CONSTANTS
  Queries,  \* the SqlQuery objects of the client
  Columns,  \* the Column objects of the client
  Stmts,    \* addresses SQLite may give to a prepared statement
  Null,     \* the null pointer
  NoColumn, \* "no Column object has been made here"
  MaxRows,  \* bound: an INSERT into a table of MaxRows rows fails (disk full)
  Lapses    \* the precautions this client does not take (see "The client")

Precautions == {"abandon_failed", "outlive_database", "stale_column",
                "name_without_statement"}

ASSUME SqlAssumption ==
  /\ Null \notin Stmts
  /\ NoColumn \notin Stmts \cup {Null}
  /\ MaxRows \in Nat
  /\ Lapses \subseteq Precautions

VARIABLES
  proc,     \* "running", "exited" (std::exit) or the fault that ended it
  conn,     \* the sqlite3 object behind SqlDatabaseImpl::db_
  table,    \* rows of the table as the connection sees it, NoTable if none
  disk,     \* rows of the table as last committed
  inTx,     \* an explicit transaction is open
  changes,  \* sqlite3_changes()
  heap,     \* the prepared statements SQLite has allocated
  alive,    \* the SqlQuery objects between constructor and destructor
  stmt,     \* SqlQueryImpl::stmt_
  colCount, \* SqlQueryImpl::column_count_
  col,      \* ColumnImpl::stmt_
  ret       \* how the last call of the client ended

file == <<table, disk, inTx, changes>>
query == <<alive, stmt, colCount>>
vars == <<proc, conn, file, heap, query, col, ret>>

NoTable == -1
Tables == NoTable .. MaxRows

\* SQL texts, by what they do.  "bad" does not compile, "empty" compiles to
\* no statement at all (a comment, or white space).
Compiled == {"insert", "delete", "select"}
Texts == Compiled \cup {"bad", "empty"}

Freed == [sql |-> "none", run |-> "freed", pos |-> 0]
Statements == [sql : Compiled \cup {"none"},
               run : {"freed", "ready", "row", "failed"},
               pos : 0 .. MaxRows]

Faults == {"double_finalize", "freed_statement", "freed_connection",
           "null_column_name"}

TypeOK ==
  /\ proc \in {"running", "exited"} \cup Faults
  /\ conn \in {"none", "open", "zombie", "freed", "leaked"}
  /\ table \in Tables
  /\ disk \in Tables
  /\ inTx \in BOOLEAN
  /\ changes \in 0 .. MaxRows + 1
  /\ heap \in [Stmts -> Statements]
  /\ alive \in [Queries -> BOOLEAN]
  /\ stmt \in [Queries -> Stmts \cup {Null}]
  /\ colCount \in [Queries -> 0 .. 1]
  /\ col \in [Columns -> Stmts \cup {Null, NoColumn}]
  /\ ret \in {"ok", "throw", "true", "false"}

Init ==
  /\ proc = "running"
  /\ conn = "none"
  /\ disk \in Tables  \* the file may have been written before
  /\ table = disk
  /\ inTx = FALSE
  /\ changes = 0
  /\ heap = [s \in Stmts |-> Freed]
  /\ alive = [q \in Queries |-> FALSE]
  /\ stmt = [q \in Queries |-> Null]
  /\ colCount = [q \in Queries |-> 0]
  /\ col = [k \in Columns |-> NoColumn]
  /\ ret = "ok"

-----------------------------------------------------------------------------
(* SQLite *)

Live(s) == s \in Stmts /\ heap[s].run # "freed"
Dangling(s) == s \in Stmts /\ heap[s].run = "freed"

\* A statement between two rows of its result keeps a read transaction open.
Busy == \E s \in Stmts : heap[s].run = "row"

\* A change of the table is published at once outside a transaction.
Write(rows) ==
  /\ table' = rows
  /\ disk' = IF inTx THEN disk ELSE rows

\* An error leaves the table alone, or (SQLITE_FULL, SQLITE_IOERR,
\* SQLITE_NOMEM...) rolls the whole transaction back.  A DML statement that
\* got as far as running has changed 0 rows.
Fail ==
  /\ \/ UNCHANGED <<table, inTx>>
     \/ inTx /\ table' = disk /\ inTx' = FALSE
  /\ changes' \in {changes, 0}
  /\ UNCHANGED disk

\* INSERT of one row, DELETE of all rows.
RunInsert ==
  /\ table \in 0 .. MaxRows - 1
  /\ Write(table + 1)
  /\ changes' = 1
  /\ UNCHANGED inTx

RunDelete ==
  /\ table # NoTable
  /\ Write(0)
  /\ changes' = table
  /\ UNCHANGED inTx

\* sqlite3_step() on statement s returns res: any step may fail, a failed or
\* finished statement starts again, and every step of a DML statement is its
\* last.
Step(s, res) ==
  \/ /\ res = "error"
     /\ Fail
  \/ /\ heap[s].sql = "insert"
     /\ res = "done"
     /\ RunInsert
  \/ /\ heap[s].sql = "delete"
     /\ res = "done"
     /\ RunDelete
  \/ /\ heap[s].sql = "select"
     /\ table # NoTable
     /\ res = IF heap[s].pos < table THEN "row" ELSE "done"
     /\ UNCHANGED file

\* The statement after the step, and after sqlite3_reset() where it is called.
At(s, run, pos) == [sql |-> heap[s].sql, run |-> run, pos |-> pos]
AtRow(s) == At(s, "row", heap[s].pos + 1)
PastTheEnd(s) == At(s, "row", heap[s].pos + 1)  \* mutant of AtStart: no reset
AtStart(s) == At(s, "ready", 0)
AtError(s) == At(s, "failed", 0)

\* sqlite3_finalize(p) frees the statement and, when the connection is a
\* zombie and this was its last statement, the connection, rolling back.
HeapWithout(p) == [s \in Stmts |-> IF s = p THEN Freed ELSE heap[s]]
LastOfZombie(p) ==
  conn = "zombie" /\ \A s \in Stmts : s # p => heap[s].run = "freed"

sqlite3_finalize(p) ==
  IF LastOfZombie(p)
    THEN /\ conn' = "freed"
         /\ table' = disk
         /\ inTx' = FALSE
         /\ UNCHANGED <<disk, changes>>
    ELSE UNCHANGED <<conn, file>>

\* Addresses free to be handed out.  One that some pointer still names is not
\* given out again, so that the use of that pointer stays visible as a fault.
Fresh(q) ==
  {s \in Stmts : /\ heap[s].run = "freed" \/ s = stmt[q]
                 /\ \A p \in Queries \ {q} : stmt[p] # s
                 /\ \A k \in Columns : col[k] # s}

-----------------------------------------------------------------------------
(* The client.  Each precaution it takes is a guard on its calls:            *)
(*   abandon_failed: after exec() threw on an error, do not finalize(),      *)
(*     re-prepare or destroy the query before another exec() or next()       *)
(*   outlive_database: once the SqlDatabase is gone, only run, finalize or   *)
(*     destroy what was prepared before                                      *)
(*   stale_column: do not read a Column after its statement is destroyed     *)
(*   name_without_statement: ask for a column name only after a successful   *)
(*     prepare()                                                             *)

MayRelease(q) ==
  "abandon_failed" \in Lapses \/ ~ (Live(stmt[q]) /\ heap[stmt[q]].run = "failed")
MayUseDatabase == "outlive_database" \in Lapses \/ conn = "open"
MayRead(k) == "stale_column" \in Lapses \/ ~ Dangling(col[k])
MayName(q) == "name_without_statement" \in Lapses \/ Live(stmt[q])

Calls(q) == proc = "running" /\ alive[q]
CallsDb == proc = "running" /\ conn = "open"
Fault(f) == proc' = f /\ UNCHANGED <<conn, file, heap, query, col, ret>>

-----------------------------------------------------------------------------
(* SqlDatabase *)

\* SqlDatabaseImpl(): a failed open closes what it opened; a failed
\* sqlite3_key() throws out of the constructor, whose destructor never runs.
\* An empty password is refused before anything is opened.
OpenDatabase ==
  /\ proc = "running"
  /\ conn = "none"
  /\ \/ conn' = "open" /\ ret' = "ok"
     \/ conn' = "none" /\ ret' = "throw"
     \/ conn' = "leaked" /\ ret' = "throw"
  /\ UNCHANGED <<proc, file, heap, query, col>>

\* Mutants of DestroyDatabase: a destructor that commits what is pending, and
\* one that frees the connection under the statements still using it.
CloseCommitting ==
  /\ CallsDb
  /\ conn' = IF \E s \in Stmts : heap[s].run # "freed" THEN "zombie" ELSE "freed"
  /\ disk' = table
  /\ inTx' = FALSE
  /\ ret' = "ok"
  /\ UNCHANGED <<proc, table, changes, heap, query, col>>

CloseAtOnce ==
  /\ CallsDb
  /\ conn' = "freed"
  /\ table' = disk
  /\ inTx' = FALSE
  /\ ret' = "ok"
  /\ UNCHANGED <<proc, disk, changes, heap, query, col>>

\* ~SqlDatabaseImpl(): sqlite3_close_v2() leaves a zombie while statements
\* of the connection remain, and its transaction with it.
DestroyDatabase ==
  /\ CallsDb
  /\ IF \E s \in Stmts : heap[s].run # "freed"
       THEN conn' = "zombie" /\ UNCHANGED file
       ELSE /\ conn' = "freed"
            /\ table' = disk
            /\ inTx' = FALSE
            /\ UNCHANGED <<disk, changes>>
  /\ ret' = "ok"
  /\ UNCHANGED <<proc, heap, query, col>>

\* SqlDatabaseImpl::exec() of a text that fails.
DbExecFails ==
  /\ CallsDb
  /\ Fail
  /\ ret' = "throw"
  /\ UNCHANGED <<proc, conn, heap, query, col>>

DbExecOk(result) ==
  /\ CallsDb
  /\ ret' = result
  /\ UNCHANGED <<proc, conn, heap, query, col>>

CreateTable == 
  /\ DbExecOk("ok")
  /\ table = NoTable
  /\ Write(0)
  /\ UNCHANGED <<inTx, changes>>

DbInsert == DbExecOk("ok") /\ RunInsert
DbDelete == DbExecOk("ok") /\ RunDelete

transaction ==
  /\ DbExecOk("ok")
  /\ ~ inTx
  /\ inTx' = TRUE
  /\ UNCHANGED <<table, disk, changes>>

commit ==
  /\ DbExecOk("ok")
  /\ inTx
  /\ inTx' = FALSE
  /\ disk' = table
  /\ UNCHANGED <<table, changes>>

rollback ==
  /\ DbExecOk("ok")
  /\ inTx
  /\ inTx' = FALSE
  /\ table' = disk
  /\ UNCHANGED <<disk, changes>>

vacuum ==
  /\ DbExecOk("ok")
  /\ ~ inTx
  /\ ~ Busy
  /\ UNCHANGED file

\* DROP TABLE is no INSERT, UPDATE or DELETE: it leaves sqlite3_changes() at
\* the count of whichever of those ran last.
drop_table ==
  /\ DbExecOk(IF changes = 1 THEN "ok" ELSE "throw")
  /\ table # NoTable
  /\ ~ Busy
  /\ Write(NoTable)
  /\ UNCHANGED <<inTx, changes>>

drop_table_if_exists ==
  /\ DbExecOk(IF changes # 0 THEN "true" ELSE "false")
  /\ \/ table = NoTable /\ UNCHANGED <<table, disk>>
     \/ table # NoTable /\ ~ Busy /\ Write(NoTable)
  /\ UNCHANGED <<inTx, changes>>

\* The SqlQuery these make is destroyed before they return; its statement is
\* reset by next() if it fails, so the destructor finalizes it cleanly.
table_exists ==
  /\ CallsDb
  /\ ret' \in {"throw", IF table = NoTable THEN "false" ELSE "true"}
  /\ UNCHANGED <<proc, conn, file, heap, query, col>>

table_line_count ==
  /\ CallsDb
  /\ ret' \in {"throw"} \cup (IF table = NoTable THEN {} ELSE {"ok"})
  /\ UNCHANGED <<proc, conn, file, heap, query, col>>

-----------------------------------------------------------------------------
(* SqlQuery *)

ConstructQuery(q) ==
  /\ CallsDb
  /\ ~ alive[q]
  /\ alive' = [alive EXCEPT ![q] = TRUE]
  /\ stmt' = [stmt EXCEPT ![q] = Null]
  /\ colCount' = [colCount EXCEPT ![q] = 0]
  /\ ret' = "ok"
  /\ UNCHANGED <<proc, conn, file, heap, col>>

\* finalize(): sqlite3_finalize() returns the error the statement last failed
\* with, although it did free it.  Then the check throws before stmt_ is
\* cleared, after reading the message from db_.
FinalizeFails(q) ==
  /\ Live(stmt[q])
  /\ heap[stmt[q]].run = "failed"
  /\ heap' = HeapWithout(stmt[q])
  /\ sqlite3_finalize(stmt[q])
  /\ UNCHANGED <<query, col>>

FinalizeTwice(q) == Dangling(stmt[q]) /\ Fault("double_finalize")

FinalizeOk(q) ==
  /\ ~ Dangling(stmt[q])
  /\ Live(stmt[q]) => heap[stmt[q]].run # "failed"

\* The exception of finalize() reaches the caller.
FinalizeThrows(q) ==
  /\ FinalizeFails(q)
  /\ proc' = IF LastOfZombie(stmt[q]) THEN "freed_connection" ELSE proc
  /\ ret' = "throw"

finalize(q) ==
  /\ Calls(q)
  /\ MayRelease(q)
  /\ \/ FinalizeTwice(q)
     \/ FinalizeThrows(q)
     \/ /\ FinalizeOk(q)
        /\ heap' = HeapWithout(stmt[q])
        /\ sqlite3_finalize(stmt[q])
        /\ stmt' = [stmt EXCEPT ![q] = Null]
        /\ ret' = "ok"
        /\ UNCHANGED <<proc, alive, colCount, col>>

\* ~SqlQueryImpl(): an exception of finalize() is logged with error(), which
\* exits the process.
DestroyQuery(q) ==
  /\ Calls(q)
  /\ MayRelease(q)
  /\ \/ FinalizeTwice(q)
     \/ /\ FinalizeFails(q)
        /\ proc' = IF LastOfZombie(stmt[q]) THEN "freed_connection" ELSE "exited"
        /\ UNCHANGED ret
     \/ /\ FinalizeOk(q)
        /\ heap' = HeapWithout(stmt[q])
        /\ sqlite3_finalize(stmt[q])
        /\ alive' = [alive EXCEPT ![q] = FALSE]
        /\ stmt' = [stmt EXCEPT ![q] = Null]
        /\ colCount' = [colCount EXCEPT ![q] = 0]
        /\ ret' = "ok"
        /\ UNCHANGED <<proc, col>>

\* prepare() once its own finalize() has returned.  Only a successful compile
\* updates column_count_; a failed one leaves it with the former statement's.
PrepareFreedConnection(q) ==
  /\ conn = "freed" \/ LastOfZombie(stmt[q])
  /\ Fault("freed_connection")

\* Mutant of PrepareFails: the second finalize() of prepare() left out, with a
\* compiler that leaves *ppStmt alone.
PrepareFailsKeepingPointer(q) ==
  /\ conn # "freed" /\ ~ LastOfZombie(stmt[q])
  /\ heap' = HeapWithout(stmt[q])
  /\ ret' = "throw"
  /\ UNCHANGED <<proc, conn, file, query, col>>

PrepareFails(q) ==
  /\ conn # "freed" /\ ~ LastOfZombie(stmt[q])
  /\ heap' = HeapWithout(stmt[q])
  /\ stmt' = [stmt EXCEPT ![q] = Null]
  /\ ret' = "throw"
  /\ UNCHANGED <<proc, conn, file, alive, colCount, col>>

PrepareEmpty(q) ==
  /\ conn = "open"
  /\ heap' = HeapWithout(stmt[q])
  /\ stmt' = [stmt EXCEPT ![q] = Null]
  /\ colCount' = [colCount EXCEPT ![q] = 0]
  /\ ret' = "ok"
  /\ UNCHANGED <<proc, conn, file, alive, col>>

\* Mutants of PrepareCompiles: without the finalize() that comes first, and
\* without the update of column_count_.
PrepareWithoutFinalize(q, sql) ==
  /\ conn = "open"
  /\ table # NoTable
  /\ \E s \in Fresh(q) \ {stmt[q]} :
       /\ heap' = [heap EXCEPT ![s] = [sql |-> sql, run |-> "ready", pos |-> 0]]
       /\ stmt' = [stmt EXCEPT ![q] = s]
  /\ colCount' = [colCount EXCEPT ![q] = IF sql = "select" THEN 1 ELSE 0]
  /\ ret' = "ok"
  /\ UNCHANGED <<proc, conn, file, alive, col>>

PrepareKeepingCount(q, sql) ==
  /\ conn = "open"
  /\ table # NoTable
  /\ \E s \in Fresh(q) :
       /\ heap' = [HeapWithout(stmt[q]) EXCEPT
                     ![s] = [sql |-> sql, run |-> "ready", pos |-> 0]]
       /\ stmt' = [stmt EXCEPT ![q] = s]
  /\ ret' = "ok"
  /\ UNCHANGED <<proc, conn, file, alive, colCount, col>>

PrepareCompiles(q, sql) ==
  /\ conn = "open"
  /\ table # NoTable
  /\ \E s \in Fresh(q) :
       /\ heap' = [HeapWithout(stmt[q]) EXCEPT
                     ![s] = [sql |-> sql, run |-> "ready", pos |-> 0]]
       /\ stmt' = [stmt EXCEPT ![q] = s]
  /\ colCount' = [colCount EXCEPT ![q] = IF sql = "select" THEN 1 ELSE 0]
  /\ ret' = "ok"
  /\ UNCHANGED <<proc, conn, file, alive, col>>

prepare(q, sql) ==
  /\ Calls(q)
  /\ MayRelease(q)
  /\ MayUseDatabase
  /\ \/ FinalizeTwice(q)
     \/ FinalizeThrows(q)
     \/ FinalizeOk(q) /\ PrepareFreedConnection(q)
     \/ FinalizeOk(q) /\ PrepareFails(q)
     \/ sql = "empty" /\ FinalizeOk(q) /\ PrepareEmpty(q)
     \/ sql \in Compiled /\ FinalizeOk(q) /\ PrepareCompiles(q, sql)

\* bind(): SQLite refuses a null statement and one that has not been reset;
\* the message of the refusal is read from db_.
bind(q) ==
  /\ Calls(q)
  /\ MayUseDatabase
  /\ \/ Dangling(stmt[q]) /\ Fault("freed_statement")
     \/ stmt[q] = Null /\ conn = "freed" /\ Fault("freed_connection")
     \/ /\ ~ Dangling(stmt[q])
        /\ stmt[q] = Null => conn # "freed"
        /\ ret' = IF stmt[q] # Null /\ heap[stmt[q]].run = "ready"
                    THEN "ok" ELSE "throw"
        /\ UNCHANGED <<proc, conn, file, heap, query, col>>

\* exec() and next() without a statement: LogicError.
CallPrepareFirst(q) ==
  /\ stmt[q] = Null
  /\ ret' = "throw"
  /\ UNCHANGED <<proc, conn, file, heap, query, col>>

\* exec() throws without a reset when the step is anything but the last one.
exec(q) ==
  /\ Calls(q)
  /\ \/ CallPrepareFirst(q)
     \/ Dangling(stmt[q]) /\ Fault("freed_statement")
     \/ /\ Live(stmt[q])
        /\ \E res \in {"row", "done", "error"} :
             /\ Step(stmt[q], res)
             /\ heap' = [heap EXCEPT ![stmt[q]] =
                           CASE res = "row" -> AtRow(stmt[q])
                             [] res = "done" -> AtStart(stmt[q])
                             [] res = "error" -> AtError(stmt[q])]
             /\ ret' = IF res = "done" THEN "ok" ELSE "throw"
        /\ UNCHANGED <<proc, conn, query, col>>

NextLikeExec(q) == exec(q)  \* mutant of next: an error is not reset either

\* next() resets whenever there is no row; the reset reports the error.
next(q) ==
  /\ Calls(q)
  /\ \/ CallPrepareFirst(q)
     \/ Dangling(stmt[q]) /\ Fault("freed_statement")
     \/ /\ Live(stmt[q])
        /\ \E res \in {"row", "done", "error"} :
             /\ Step(stmt[q], res)
             /\ heap' = [heap EXCEPT ![stmt[q]] =
                           IF res = "row" THEN AtRow(stmt[q]) ELSE AtStart(stmt[q])]
             /\ ret' = CASE res = "row" -> "true"
                         [] res = "done" -> "false"
                         [] res = "error" -> "throw"
        /\ UNCHANGED <<proc, conn, query, col>>

\* get_column_name(0): the only guard is the upper bound.
get_column_name(q) ==
  /\ Calls(q)
  /\ MayName(q)
  /\ \/ /\ colCount[q] = 0 \/ Live(stmt[q])
        /\ ret' = IF colCount[q] = 0 THEN "throw" ELSE "ok"
        /\ UNCHANGED <<proc, conn, file, heap, query, col>>
     \/ colCount[q] > 0 /\ stmt[q] = Null /\ Fault("null_column_name")
     \/ colCount[q] > 0 /\ Dangling(stmt[q]) /\ Fault("freed_statement")

\* get_column(0): the handle copies stmt_, whatever it is.
get_column(q, k) ==
  /\ Calls(q)
  /\ IF colCount[q] = 0
       THEN ret' = "throw" /\ UNCHANGED col
       ELSE /\ ret' = "ok"
            /\ col' = [col EXCEPT ![k] = stmt[q]]
  /\ UNCHANGED <<proc, conn, file, heap, query>>

\* is_null(), as_int32()...: a null statement, or one that is at no row, has
\* the type NULL; a value of another type than the one asked for throws.
ReadColumn(k) ==
  /\ proc = "running"
  /\ col[k] # NoColumn
  /\ MayRead(k)
  /\ \/ Dangling(col[k]) /\ Fault("freed_statement")
     \/ /\ ~ Dangling(col[k])
        /\ ret' \in {"throw"} \cup
             (IF Live(col[k]) /\ heap[col[k]].run = "row"
                THEN {"ok"} ELSE {})
        /\ UNCHANGED <<proc, conn, file, heap, query, col>>

DestroyColumn(k) ==
  /\ proc = "running"
  /\ col[k] # NoColumn
  /\ col' = [col EXCEPT ![k] = NoColumn]
  /\ ret' = "ok"
  /\ UNCHANGED <<proc, conn, file, heap, query>>

-----------------------------------------------------------------------------
DatabaseCall ==
  \/ OpenDatabase
  \/ DestroyDatabase
  \/ DbExecFails
  \/ CreateTable
  \/ DbInsert
  \/ DbDelete
  \/ transaction
  \/ commit
  \/ rollback
  \/ vacuum
  \/ drop_table
  \/ drop_table_if_exists
  \/ table_exists
  \/ table_line_count

QueryCall(q) ==
  \/ ConstructQuery(q)
  \/ DestroyQuery(q)
  \/ finalize(q)
  \/ \E sql \in Texts : prepare(q, sql)
  \/ bind(q)
  \/ exec(q)
  \/ next(q)
  \/ get_column_name(q)
  \/ \E k \in Columns : get_column(q, k)

ColumnCall(k) == ReadColumn(k) \/ DestroyColumn(k)

Next ==
  \/ DatabaseCall
  \/ \E q \in Queries : QueryCall(q)
  \/ \E k \in Columns : ColumnCall(k)

Spec == Init /\ [][Next]_vars

-----------------------------------------------------------------------------
(* Correctness *)

\* Every way this code can reach undefined behaviour, or have its destructor
\* exit the process, takes a client that gave up the precaution against it:
\* the precautions are sufficient, each for its own faults, whatever fails and
\* in whatever order the objects die (finalize(), prepare(), bind(), exec(),
\* next(), get_column_name(), the destructors).
EachFaultHasItsLapse ==
  /\ proc \in {"exited", "double_finalize"} => "abandon_failed" \in Lapses
  /\ proc = "freed_statement" =>
       Lapses \cap {"abandon_failed", "stale_column"} # {}
  /\ proc = "freed_connection" =>
       Lapses \cap {"abandon_failed", "outlive_database"} # {}
  /\ proc = "null_column_name" => "name_without_statement" \in Lapses

\* Statements are neither leaked nor shared: as long as the process lives,
\* every statement SQLite holds is the stmt_ of exactly one SqlQuery, through
\* failed prepares, finalizes that throw and the death of the SqlDatabase.
StatementsOwned ==
  proc = "running" =>
    \A s \in Stmts : Live(s) => \E q \in Queries :
      alive[q] /\ stmt[q] = s /\ \A p \in Queries \ {q} : stmt[p] # s

\* ~SqlDatabase() may run before ~SqlQuery(): the connection stays for as long
\* as a statement of it does, and no longer.
ConnectionHeld ==
  /\ (\E s \in Stmts : Live(s)) => conn \in {"open", "zombie"}
  /\ conn = "zombie" => \E s \in Stmts : Live(s)

\* The bound get_column() and get_column_name() check against is that of the
\* statement they go on to use, if there is one.
CountMatches ==
  \A q \in Queries : Live(stmt[q]) =>
    colCount[q] = IF heap[stmt[q]].sql = "select" THEN 1 ELSE 0

\* When next() ends without a row, normally or by an exception, the statement
\* is reset: parameters can be bound and VACUUM is not held up by it.
NextLeavesReset ==
  [][\A q \in Queries :
       next(q) /\ ret' # "true" /\ Live(stmt[q]) =>
         heap'[stmt[q]].run = "ready"]_vars

\* Whatever dies first, the work of an open transaction reaches the file only
\* whole, by commit() of a SqlDatabase that still exists: not by ~SqlDatabase(),
\* not by the last ~SqlQuery() after it, not by a statement that fails.
OnlyCommitPublishes ==
  [][inTx /\ disk' # disk =>
       conn = "open" /\ conn' = "open" /\ disk' = table /\ ~ inTx']_vars

\* What a client may rely on without knowing of statements and connections: the
\* objects, their failures and the order they die in implement the table of
\* SqlTable, where a SqlDatabase destroyed before its queries leaves a session
\* that lingers and can no longer commit.
Session ==
  CASE conn \in {"none", "leaked"} -> "closed"
    [] conn = "open" -> "open"
    [] conn = "zombie" -> "lingering"
    [] conn = "freed" -> "ended"

Promised == INSTANCE SqlTable WITH
  Rows <- Tables, session <- Session, pending <- inTx, committed <- disk, view <- table

ImplementsTable == Promised!Spec

\* The inductive invariant of SqlProofs.  A pointer to a freed statement is
\* left only by a finalize() that threw, so it needs the lapse that lets one
\* happen; and no address is held twice, not even by such a pointer.
PointersTraced ==
  /\ \A q \in Queries : stmt[q] # Null => alive[q]
  /\ \A q \in Queries : Dangling(stmt[q]) => "abandon_failed" \in Lapses
  /\ \A p, q \in Queries : stmt[p] = stmt[q] /\ stmt[p] # Null => p = q
  /\ \A s \in Stmts : Live(s) => \E q \in Queries : stmt[q] = s

IInv ==
  /\ TypeOK
  /\ EachFaultHasItsLapse
  /\ ConnectionHeld
  /\ CountMatches
  /\ PointersTraced

-----------------------------------------------------------------------------
(* What the documentation says and the code does not do *)

\* sql.h:258, drop_table_if_exists(): "Return true if dropped".
DropReported ==
  [][drop_table_if_exists => ret' = IF table = NoTable THEN "false" ELSE "true"]_vars
=============================================================================
