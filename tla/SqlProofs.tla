----------------------------- MODULE SqlProofs -----------------------------
(* Proofs about Sql for every set of queries, columns and addresses, every   *)
(* bound on the rows and every set of lapses of the client.                  *)
EXTENDS Sql, TLAPS

FileTyped ==
  /\ table \in Tables
  /\ disk \in Tables
  /\ inTx \in BOOLEAN
  /\ changes \in 0 .. MaxRows + 1

QueryTyped ==
  /\ alive \in [Queries -> BOOLEAN]
  /\ stmt \in [Queries -> Stmts \cup {Null}]
  /\ colCount \in [Queries -> 0 .. 1]

RestTyped ==
  /\ proc \in {"running", "exited"} \cup Faults
  /\ conn \in {"none", "open", "zombie", "freed", "leaked"}
  /\ ret \in {"ok", "throw", "true", "false"}

HeapTyped == heap \in [Stmts -> Statements]
ColTyped ==
  col \in [Columns -> Stmts \cup {Null, NoColumn}]

LEMMA TypeParts ==
  TypeOK <=> FileTyped /\ QueryTyped /\ RestTyped /\ HeapTyped /\ ColTyped
BY DEF TypeOK, FileTyped, QueryTyped, RestTyped, HeapTyped, ColTyped

\* What the parts of a step do to the database file.
LEMMA WritesTyped ==
  ASSUME FileTyped, Fail \/ RunInsert \/ RunDelete \/ UNCHANGED file
  PROVE  FileTyped'
<1> USE SqlAssumption DEF FileTyped, Tables, NoTable, Write
<1>1. CASE Fail
  <2>1. changes' \in 0 .. MaxRows + 1 /\ disk' \in Tables /\ table' \in Tables
    BY <1>1 DEF Fail
  <2>2. inTx' \in BOOLEAN
    BY <1>1, Zenon DEF Fail
  <2> QED BY <2>1, <2>2
<1>2. CASE RunInsert
  <2>1. table + 1 \in Tables
    BY <1>2 DEF RunInsert
  <2> QED BY <1>2, <2>1 DEF RunInsert
<1>3. CASE RunDelete
  BY <1>3 DEF RunDelete
<1>4. CASE UNCHANGED file
  BY <1>4 DEF file
<1> QED BY <1>1, <1>2, <1>3, <1>4

LEMMA StepTyped ==
  ASSUME FileTyped, NEW s, NEW res, Step(s, res)
  PROVE  FileTyped'
BY WritesTyped DEF Step

LEMMA HeapWithoutTyped ==
  ASSUME HeapTyped, NEW p
  PROVE  HeapWithout(p) \in [Stmts -> Statements]
BY SqlAssumption DEF HeapTyped, HeapWithout, Statements, Freed, Compiled

LEMMA FinalizeTyped ==
  ASSUME FileTyped, RestTyped, NEW p, sqlite3_finalize(p)
  PROVE  FileTyped' /\ conn' \in {"none", "open", "zombie", "freed", "leaked"}
<1>1. CASE LastOfZombie(p)
  BY <1>1 DEF sqlite3_finalize, FileTyped, RestTyped
<1>2. CASE ~ LastOfZombie(p)
  BY <1>2 DEF sqlite3_finalize, FileTyped, RestTyped, file
<1> QED BY <1>1, <1>2

\* Where a step leaves the statement it ran.
LEMMA StatementTyped ==
  ASSUME FileTyped, HeapTyped, NEW s \in Stmts
  PROVE  /\ AtStart(s) \in Statements
         /\ AtError(s) \in Statements
         /\ Step(s, "row") => AtRow(s) \in Statements
<1> USE SqlAssumption DEF HeapTyped, Statements
<1>1. heap[s] \in Statements
  OBVIOUS
<1>2. AtStart(s) \in Statements /\ AtError(s) \in Statements
  BY <1>1 DEF At, AtStart, AtError
<1>3. ASSUME Step(s, "row")
      PROVE  AtRow(s) \in Statements
  <2>1. heap[s].pos < table
    BY <1>3 DEF Step
  <2>2. heap[s].pos + 1 \in 0 .. MaxRows
    BY <1>1, <2>1 DEF FileTyped, Tables, NoTable
  <2> QED BY <1>1, <2>2 DEF At, AtRow
<1> QED BY <1>2, <1>3

LEMMA DatabaseCallTyped ==
  ASSUME TypeOK, DatabaseCall
  PROVE  TypeOK'
<1> USE DEF query, DbExecOk
<1>0. FileTyped /\ QueryTyped /\ RestTyped /\ HeapTyped /\ ColTyped
  BY TypeParts
<1>1. HeapTyped' /\ QueryTyped' /\ ColTyped'
  BY <1>0 DEF HeapTyped, QueryTyped, ColTyped, DatabaseCall, OpenDatabase,
     DestroyDatabase, DbExecFails, CreateTable, DbInsert, DbDelete, transaction,
     commit, rollback, vacuum, drop_table, drop_table_if_exists, table_exists,
     table_line_count
<1>2. RestTyped'
  BY <1>0 DEF RestTyped, DatabaseCall, OpenDatabase, DestroyDatabase,
     DbExecFails, CreateTable, DbInsert, DbDelete, transaction, commit, rollback,
     vacuum, drop_table, drop_table_if_exists, table_exists, table_line_count
<1>3. FileTyped'
  <2>1. CASE DbExecFails \/ DbInsert \/ DbDelete
    BY <1>0, <2>1, WritesTyped DEF DbExecFails, DbInsert, DbDelete
  <2>2. CASE OpenDatabase \/ vacuum \/ table_exists \/ table_line_count
    BY <1>0, <2>2, WritesTyped DEF OpenDatabase, vacuum, table_exists,
       table_line_count
  <2>3. CASE DestroyDatabase
    BY <1>0, <2>3, WritesTyped DEF DestroyDatabase, FileTyped
  <2>4. CASE CreateTable \/ drop_table \/ drop_table_if_exists
    BY <1>0, <2>4, SqlAssumption DEF FileTyped, CreateTable, drop_table,
       drop_table_if_exists, Write, Tables, NoTable
  <2>5. CASE transaction \/ commit \/ rollback
    BY <1>0, <2>5 DEF FileTyped, transaction, commit, rollback
  <2> QED BY <2>1, <2>2, <2>3, <2>4, <2>5 DEF DatabaseCall
<1> QED BY <1>1, <1>2, <1>3
     DEF TypeOK, FileTyped, QueryTyped, RestTyped, HeapTyped, ColTyped

LEMMA QueryCallTyped ==
  ASSUME TypeOK, NEW q \in Queries, QueryCall(q)
  PROVE  TypeOK'
<1>0. FileTyped /\ QueryTyped /\ RestTyped /\ HeapTyped /\ ColTyped
  BY TypeParts
<1> USE <1>0
<1> DEFINE Pieces == /\ FileTyped' /\ QueryTyped' /\ RestTyped'
                     /\ HeapTyped' /\ ColTyped'
<1> SUFFICES Pieces
  BY DEF TypeOK, FileTyped, QueryTyped, RestTyped, HeapTyped, ColTyped
<1>1. ASSUME NEW f \in Faults, Fault(f)
      PROVE  Pieces
  BY <1>1 DEF Fault, FileTyped, QueryTyped, RestTyped, HeapTyped, ColTyped,
     file, query
<1>2. CASE ConstructQuery(q)
  BY <1>2 DEF ConstructQuery, FileTyped, QueryTyped, RestTyped, HeapTyped,
     ColTyped, file
<1>3. ASSUME FinalizeFails(q), UNCHANGED ret \/ ret' = "throw",
             proc' \in {proc, "exited", "freed_connection"}
      PROVE  Pieces
  <2>1. HeapTyped'
    BY <1>3, HeapWithoutTyped DEF FinalizeFails, HeapTyped
  <2>2. FileTyped' /\ RestTyped'
    BY <1>3, FinalizeTyped DEF FinalizeFails, RestTyped, Faults
  <2> QED BY <1>3, <2>1, <2>2 DEF FinalizeFails, QueryTyped, ColTyped, query
<1>4. CASE finalize(q)
  <2>1. CASE FinalizeTwice(q)
    BY <2>1, <1>1 DEF FinalizeTwice, Faults
  <2>2. CASE FinalizeThrows(q)
    BY <2>2, <1>3 DEF FinalizeThrows
  <2>3. CASE FinalizeOk(q) /\ ~ FinalizeTwice(q) /\ ~ FinalizeThrows(q)
    <3>1. HeapTyped'
      BY <1>4, <2>3, HeapWithoutTyped DEF finalize, HeapTyped
    <3>2. FileTyped' /\ conn' \in {"none", "open", "zombie", "freed", "leaked"}
      BY <1>4, <2>3, FinalizeTyped DEF finalize
    <3> QED BY <1>4, <2>3, <3>1, <3>2 DEF finalize, QueryTyped, RestTyped, ColTyped
  <2> QED BY <1>4, <2>1, <2>2, <2>3 DEF finalize
<1>5. CASE DestroyQuery(q)
  <2>1. CASE FinalizeTwice(q)
    BY <2>1, <1>1 DEF FinalizeTwice, Faults
  <2>2. CASE FinalizeFails(q)
    BY <1>5, <2>2, <1>3 DEF DestroyQuery, FinalizeTwice, FinalizeFails, FinalizeOk,
       Live, Dangling
  <2>3. CASE FinalizeOk(q) /\ ~ FinalizeTwice(q) /\ ~ FinalizeFails(q)
    <3>1. HeapTyped'
      BY <1>5, <2>3, HeapWithoutTyped DEF DestroyQuery, HeapTyped
    <3>2. FileTyped' /\ conn' \in {"none", "open", "zombie", "freed", "leaked"}
      BY <1>5, <2>3, FinalizeTyped DEF DestroyQuery
    <3>3. QueryTyped'
      <4>1. /\ alive' = [alive EXCEPT ![q] = FALSE]
            /\ stmt' = [stmt EXCEPT ![q] = Null]
            /\ colCount' = [colCount EXCEPT ![q] = 0]
        BY <1>5, <2>3 DEF DestroyQuery
      <4> QED BY <4>1 DEF QueryTyped
    <3>4. RestTyped' /\ ColTyped'
      BY <1>5, <2>3, <3>2 DEF DestroyQuery, RestTyped, ColTyped
    <3> QED BY <3>1, <3>2, <3>3, <3>4
  <2> QED BY <1>5, <2>1, <2>2, <2>3 DEF DestroyQuery
<1>6. ASSUME NEW sql \in Texts, prepare(q, sql)
      PROVE  Pieces
  <2>1. CASE FinalizeTwice(q)
    BY <2>1, <1>1 DEF FinalizeTwice, Faults
  <2>2. CASE FinalizeThrows(q)
    BY <2>2, <1>3 DEF FinalizeThrows
  <2>3. CASE PrepareFreedConnection(q)
    BY <2>3, <1>1 DEF PrepareFreedConnection, Faults
  <2>4. CASE PrepareFails(q) \/ PrepareEmpty(q)
    BY <2>4, HeapWithoutTyped DEF PrepareFails, PrepareEmpty, FileTyped, QueryTyped,
       RestTyped, HeapTyped, ColTyped, file
  <2>5. CASE sql \in Compiled /\ PrepareCompiles(q, sql)
    <3>1. [sql |-> sql, run |-> "ready", pos |-> 0] \in Statements
      BY <2>5, SqlAssumption DEF Statements
    <3>2. HeapTyped'
      BY <2>5, <3>1, HeapWithoutTyped DEF PrepareCompiles, HeapTyped
    <3>3. QueryTyped'
      BY <2>5 DEF PrepareCompiles, QueryTyped, Fresh
    <3>4. FileTyped' /\ RestTyped' /\ ColTyped'
      BY <2>5 DEF PrepareCompiles, FileTyped, RestTyped, ColTyped, file
    <3> QED BY <3>2, <3>3, <3>4
  <2> QED BY <1>6, <2>1, <2>2, <2>3, <2>4, <2>5 DEF prepare
<1>7. CASE bind(q)
  <2>1. CASE Fault("freed_statement") \/ Fault("freed_connection")
    BY <2>1, <1>1 DEF Faults
  <2>2. CASE ret' \in {"ok", "throw"} /\ UNCHANGED <<proc, conn, file, heap, query, col>>
    BY <2>2 DEF FileTyped, QueryTyped, RestTyped, HeapTyped, ColTyped, file, query
  <2> QED BY <1>7, <2>1, <2>2 DEF bind
<1>8. CASE CallPrepareFirst(q)
  BY <1>8 DEF CallPrepareFirst, FileTyped, QueryTyped, RestTyped, HeapTyped,
     ColTyped, file, query
<1>9. CASE exec(q) \/ next(q)
  <2>1. CASE Fault("freed_statement")
    BY <2>1, <1>1 DEF Faults
  <2>2. ASSUME Live(stmt[q]), NEW res \in {"row", "done", "error"},
               Step(stmt[q], res),
               \/ heap' = [heap EXCEPT ![stmt[q]] = AtStart(stmt[q])]
               \/ heap' = [heap EXCEPT ![stmt[q]] = AtError(stmt[q])]
               \/ res = "row" /\ heap' = [heap EXCEPT ![stmt[q]] = AtRow(stmt[q])],
               ret' \in {"ok", "throw", "true", "false"},
               UNCHANGED <<proc, conn, query, col>>
        PROVE  Pieces
    <3>1. HeapTyped'
      BY <2>2, StatementTyped DEF HeapTyped, Live
    <3>2. FileTyped'
      BY <2>2, StepTyped
    <3> QED BY <2>2, <3>1, <3>2 DEF QueryTyped, RestTyped, ColTyped, query
  <2>3. CASE exec(q) /\ Live(stmt[q])
    BY <2>2, <2>3, <1>8, <2>1 DEF exec, CallPrepareFirst
  <2>4. CASE next(q) /\ Live(stmt[q])
    BY <2>2, <2>4, <1>8, <2>1 DEF next, CallPrepareFirst
  <2> QED BY <1>8, <1>9, <2>1, <2>3, <2>4 DEF exec, next
<1>10. CASE get_column_name(q)
  <2>1. CASE Fault("freed_statement") \/ Fault("null_column_name")
    BY <2>1, <1>1 DEF Faults
  <2>2. CASE ret' \in {"ok", "throw"} /\ UNCHANGED <<proc, conn, file, heap, query, col>>
    BY <2>2 DEF FileTyped, QueryTyped, RestTyped, HeapTyped, ColTyped, file, query
  <2> QED BY <1>10, <2>1, <2>2 DEF get_column_name
<1>11. ASSUME NEW k \in Columns, get_column(q, k)
       PROVE  Pieces
  <2>1. ColTyped'
    <3>1. stmt[q] # Null => heap[stmt[q]].pos \in 0 .. MaxRows
      BY DEF QueryTyped, HeapTyped, Statements
    <3> QED BY <1>11, <3>1, SqlAssumption DEF get_column, ColTyped, QueryTyped
  <2> QED BY <1>11, <2>1 DEF get_column, FileTyped, QueryTyped, RestTyped,
         HeapTyped, file, query
<1> QED BY <1>2, <1>4, <1>5, <1>6, <1>7, <1>9, <1>10, <1>11 DEF QueryCall

LEMMA ColumnCallTyped ==
  ASSUME TypeOK, NEW k \in Columns, ColumnCall(k)
  PROVE  TypeOK'
<1>1. CASE ReadColumn(k)
  BY <1>1 DEF ReadColumn, Fault, TypeOK, Faults, file, query
<1>2. CASE DestroyColumn(k)
  BY <1>2, SqlAssumption DEF DestroyColumn, TypeOK, file, query
<1> QED BY <1>1, <1>2 DEF ColumnCall

LEMMA InitTyped ==
  ASSUME Init
  PROVE  TypeOK
<1> USE SqlAssumption DEF Init
<1>1. FileTyped
  <2>1. inTx \in BOOLEAN
    BY Zenon
  <2>2. changes \in 0 .. MaxRows + 1
    OBVIOUS
  <2> QED BY <2>1, <2>2 DEF FileTyped
<1>4. QueryTyped /\ RestTyped
  BY DEF QueryTyped, RestTyped
<1>2. HeapTyped
  BY DEF HeapTyped, Statements, Freed
<1>3. ColTyped
  BY DEF ColTyped
<1> QED BY <1>1, <1>2, <1>3, <1>4, TypeParts

LEMMA NextTyped ==
  ASSUME TypeOK, [Next]_vars
  PROVE  TypeOK'
<1>1. CASE UNCHANGED vars
  BY <1>1 DEF vars, file, query, TypeOK
<1> QED BY <1>1, DatabaseCallTyped, QueryCallTyped, ColumnCallTyped DEF Next

\* Every variable keeps its type, whatever the client calls.
THEOREM TypeCorrect == Spec => []TypeOK
BY InitTyped, NextTyped, PTL DEF Spec
-----------------------------------------------------------------------------
(* Faults.  Each conjunct of EachFaultHasItsLapse is about proc and Lapses    *)
(* alone, so only the steps that end the behaviour can disturb it: under      *)
(* each, the guard of the client or PointersTraced yields the lapse.          *)

LEMMA FinalizeFault ==
  ASSUME IInv, NEW q \in Queries, MayRelease(q),
         FinalizeTwice(q) \/ FinalizeFails(q)
  PROVE  "abandon_failed" \in Lapses
BY DEF MayRelease, FinalizeTwice, FinalizeFails, IInv, PointersTraced

LEMMA NextFaults ==
  ASSUME IInv, Next
  PROVE  EachFaultHasItsLapse'
<1> USE DEF EachFaultHasItsLapse
<1>0. EachFaultHasItsLapse
  BY DEF IInv
<1>1. CASE proc' = proc
  BY <1>0, <1>1
<1>2. ASSUME NEW q \in Queries, Dangling(stmt[q])
      PROVE  "abandon_failed" \in Lapses
  BY <1>2 DEF IInv, PointersTraced
<1>3. CASE DatabaseCall
  BY <1>1, <1>3 DEF DatabaseCall, OpenDatabase, DestroyDatabase, DbExecFails,
     DbExecOk, CreateTable, DbInsert, DbDelete, transaction, commit, rollback,
     vacuum, drop_table, drop_table_if_exists, table_exists, table_line_count
<1>4. ASSUME NEW q \in Queries, QueryCall(q)
      PROVE  EachFaultHasItsLapse'
  <2>1. CASE ConstructQuery(q)
    BY <1>1, <2>1 DEF ConstructQuery
  <2>2. CASE DestroyQuery(q)
    <3>1. CASE FinalizeTwice(q) \/ FinalizeFails(q)
      <4>1. "abandon_failed" \in Lapses
        BY <2>2, <3>1, FinalizeFault DEF DestroyQuery
      <4>2. proc' \in {"double_finalize", "freed_connection", "exited"}
        BY <2>2, <3>1 DEF DestroyQuery, FinalizeTwice, FinalizeFails, FinalizeOk,
           Fault, Live, Dangling
      <4> QED BY <4>1, <4>2
    <3> QED BY <1>1, <2>2, <3>1 DEF DestroyQuery
  <2>3. ASSUME MayRelease(q), FinalizeTwice(q) \/ FinalizeThrows(q)
        PROVE  EachFaultHasItsLapse'
    <3>1. "abandon_failed" \in Lapses
      BY <2>3, FinalizeFault DEF FinalizeThrows
    <3>2. proc' \in {"double_finalize", "freed_connection", proc}
      BY <2>3 DEF FinalizeTwice, FinalizeThrows, Fault
    <3> QED BY <1>0, <3>1, <3>2
  <2>4. CASE finalize(q)
    BY <1>1, <2>3, <2>4 DEF finalize
  <2>5. ASSUME NEW sql \in Texts, prepare(q, sql)
        PROVE  EachFaultHasItsLapse'
    <3>1. CASE PrepareFreedConnection(q)
      BY <2>5, <3>1 DEF prepare, PrepareFreedConnection, MayUseDatabase,
         LastOfZombie, Fault
    <3> QED BY <1>1, <2>3, <2>5, <3>1 DEF prepare, PrepareFails, PrepareEmpty,
           PrepareCompiles
  <2>6. CASE bind(q)
    BY <1>1, <1>2, <2>6 DEF bind, Fault, MayUseDatabase
  <2>7. CASE exec(q) \/ next(q)
    BY <1>1, <1>2, <2>7 DEF exec, next, CallPrepareFirst, Fault
  <2>8. CASE get_column_name(q)
    BY <1>1, <1>2, <2>8, SqlAssumption DEF get_column_name, Fault, MayName, Live
  <2>9. CASE \E k \in Columns : get_column(q, k)
    BY <1>1, <2>9 DEF get_column
  <2> QED BY <1>4, <2>1, <2>2, <2>4, <2>5, <2>6, <2>7, <2>8, <2>9 DEF QueryCall
<1>5. ASSUME NEW k \in Columns, ColumnCall(k)
      PROVE  EachFaultHasItsLapse'
  BY <1>1, <1>5 DEF ColumnCall, ReadColumn, DestroyColumn, Fault, MayRead
<1> QED BY <1>3, <1>4, <1>5 DEF Next

-----------------------------------------------------------------------------
(* Ownership: which object holds which statement, and the connection with     *)
(* them.  Three kinds of step disturb it: those that change no pointer and    *)
(* free nothing, those that free a statement, and the prepare() that          *)
(* allocates one.                                                             *)

Ownership == ConnectionHeld /\ CountMatches /\ PointersTraced

\* A step that keeps every pointer and the state of freed statements.
LEMMA OwnershipKept ==
  ASSUME IInv, UNCHANGED <<stmt, alive, colCount, conn>>,
         \A s \in Stmts : /\ heap'[s].run = "freed" <=> heap[s].run = "freed"
                         /\ heap'[s].sql = heap[s].sql
  PROVE  Ownership'
<1> USE DEF IInv
<1>1. \A s : Live(s)' <=> Live(s)
  BY DEF Live
<1>2. \A s : Dangling(s)' <=> Dangling(s)
  BY DEF Dangling
<1>3. ConnectionHeld'
  BY <1>1 DEF ConnectionHeld
<1>4. CountMatches'
  BY <1>1 DEF CountMatches, Live
<1>5. PointersTraced'
  BY <1>1, <1>2 DEF PointersTraced
<1> QED BY <1>3, <1>4, <1>5 DEF Ownership

\* A step that frees the statement of q.  Its pointer is cleared, unless
\* finalize() threw, which takes the lapse.
LEMMA OwnershipFreed ==
  ASSUME IInv, NEW q \in Queries,
         heap' = HeapWithout(stmt[q]),
         conn' = IF LastOfZombie(stmt[q]) THEN "freed" ELSE conn,
         \A p \in Queries \ {q} : /\ stmt'[p] = stmt[p]
                                 /\ alive'[p] = alive[p]
                                 /\ colCount'[p] = colCount[p],
         \/ stmt'[q] = Null
         \/ /\ stmt'[q] = stmt[q]
            /\ alive'[q] = alive[q]
            /\ "abandon_failed" \in Lapses
  PROVE  Ownership'
<1> USE SqlAssumption
<1>0. stmt \in [Queries -> Stmts \cup {Null}]
  BY DEF IInv, TypeOK
<1>1. \A s \in Stmts : heap'[s] = IF s = stmt[q] THEN Freed ELSE heap[s]
  BY DEF HeapWithout
<1>2. \A s : Live(s)' <=> Live(s) /\ s # stmt[q]
  BY <1>1 DEF Live, Freed
<1>3. ConnectionHeld'
  <2>1. CASE LastOfZombie(stmt[q])
    BY <1>2, <2>1 DEF ConnectionHeld, LastOfZombie, Live
  <2>2. CASE ~ LastOfZombie(stmt[q])
    BY <1>2, <2>2 DEF IInv, ConnectionHeld, LastOfZombie, Live
  <2> QED BY <2>1, <2>2
<1>4. CountMatches'
  <2>1. ASSUME NEW p \in Queries, Live(stmt[p])'
        PROVE  p # q /\ Live(stmt[p]) /\ heap'[stmt'[p]] = heap[stmt[p]]
    BY <1>1, <1>2, <2>1 DEF Live
  <2> QED BY <2>1 DEF IInv, CountMatches
<1>5. PointersTraced'
  <2>1. \A p \in Queries : stmt'[p] # Null => alive'[p]
    BY DEF IInv, PointersTraced
  <2>2. ASSUME NEW p \in Queries, Dangling(stmt[p])'
        PROVE  "abandon_failed" \in Lapses
    <3>1. CASE p = q
      BY <2>2, <3>1 DEF Dangling
    <3>2. CASE p # q
      <4>1. stmt[p] # stmt[q] /\ stmt[p] \in Stmts
        BY <2>2, <3>2 DEF Dangling, IInv, PointersTraced
      <4> QED BY <1>1, <2>2, <3>2, <4>1 DEF Dangling, IInv, PointersTraced
    <3> QED BY <3>1, <3>2
  <2>3. \A r, p \in Queries : stmt'[r] = stmt'[p] /\ stmt'[r] # Null => r = p
    BY DEF IInv, PointersTraced
  <2>4. \A s \in Stmts : Live(s)' => \E p \in Queries : stmt'[p] = s
    BY <1>2 DEF IInv, PointersTraced
  <2> QED BY <2>1, <2>2, <2>3, <2>4 DEF PointersTraced
<1> QED BY <1>3, <1>4, <1>5 DEF Ownership

LEMMA OwnershipAllocated ==
  ASSUME IInv, NEW q \in Queries, NEW sql \in Compiled, Calls(q),
         PrepareCompiles(q, sql)
  PROVE  Ownership'
<1> USE SqlAssumption
<1>0. /\ stmt \in [Queries -> Stmts \cup {Null}]
      /\ colCount \in [Queries -> 0 .. 1]
      /\ heap \in [Stmts -> Statements]
  BY DEF IInv, TypeOK
<1>1. PICK s \in Fresh(q) :
        /\ heap' = [HeapWithout(stmt[q]) EXCEPT
                      ![s] = [sql |-> sql, run |-> "ready", pos |-> 0]]
        /\ stmt' = [stmt EXCEPT ![q] = s]
  BY DEF PrepareCompiles
<1>2. s \in Stmts /\ \A p \in Queries \ {q} : stmt[p] # s
  BY DEF Fresh
<1>3. \A t \in Stmts : heap'[t] =
        IF t = s THEN [sql |-> sql, run |-> "ready", pos |-> 0]
        ELSE IF t = stmt[q] THEN Freed ELSE heap[t]
  BY <1>1, <1>2 DEF HeapWithout
<1>4. \A t : Live(t)' <=> t = s \/ (Live(t) /\ t # stmt[q])
  BY <1>2, <1>3 DEF Live, Freed
<1>5. \A p \in Queries : stmt'[p] = IF p = q THEN s ELSE stmt[p]
  BY <1>0, <1>1
<1>6. ASSUME NEW p \in Queries, p # q, stmt[p] \in Stmts
      PROVE  heap'[stmt'[p]] = heap[stmt[p]]
  BY <1>2, <1>3, <1>5, <1>6 DEF IInv, PointersTraced
<1>7. ConnectionHeld'
  BY <1>2, <1>4 DEF PrepareCompiles, ConnectionHeld
<1>8. CountMatches'
  <2>1. ASSUME NEW p \in Queries, Live(stmt[p])', p # q
        PROVE  Live(stmt[p]) /\ colCount'[p] = colCount[p]
    BY <1>0, <1>4, <1>5, <2>1, <1>2 DEF PrepareCompiles
  <2>2. /\ heap'[stmt'[q]].sql = sql
        /\ colCount'[q] = IF sql = "select" THEN 1 ELSE 0
    BY <1>0, <1>2, <1>3, <1>5 DEF PrepareCompiles
  <2> QED BY <1>6, <2>1, <2>2 DEF IInv, CountMatches, Live
<1>9. PointersTraced'
  <2>1. \A p \in Queries : stmt'[p] # Null => alive'[p]
    BY <1>5 DEF PrepareCompiles, Calls, IInv, PointersTraced
  <2>2. ASSUME NEW p \in Queries, Dangling(stmt[p])'
        PROVE  "abandon_failed" \in Lapses
    <3>1. p # q
      BY <1>3, <1>2, <1>5, <2>2 DEF Dangling
    <3> QED BY <1>5, <1>6, <2>2, <3>1 DEF Dangling, IInv, PointersTraced
  <2>3. \A r, p \in Queries : stmt'[r] = stmt'[p] /\ stmt'[r] # Null => r = p
    BY <1>2, <1>5 DEF IInv, PointersTraced
  <2>4. \A t \in Stmts : Live(t)' => \E p \in Queries : stmt'[p] = t
    BY <1>4, <1>5 DEF IInv, PointersTraced
  <2> QED BY <2>1, <2>2, <2>3, <2>4 DEF PointersTraced
<1> QED BY <1>7, <1>8, <1>9 DEF Ownership

LEMMA NextOwnership ==
  ASSUME IInv, Next
  PROVE  Ownership'
<1> USE DEF query
<1>1. ASSUME UNCHANGED <<heap, query, conn>>
      PROVE  Ownership'
  BY <1>1, OwnershipKept
<1>2. ASSUME NEW f, Fault(f)
      PROVE  Ownership'
  BY <1>1, <1>2 DEF Fault
<1>3. CASE DatabaseCall
  <2>1. CASE OpenDatabase
    <3>1. \A s \in Stmts : ~ Live(s)
      BY <2>1 DEF OpenDatabase, IInv, ConnectionHeld
    <3> QED BY <2>1, <3>1 DEF OpenDatabase, Ownership, IInv, ConnectionHeld,
           CountMatches, PointersTraced, Live, Dangling
  <2>2. CASE DestroyDatabase
    BY <2>2 DEF DestroyDatabase, CallsDb, Ownership, IInv, ConnectionHeld,
       CountMatches, PointersTraced, Live, Dangling
  <2> QED BY <1>1, <1>3, <2>1, <2>2 DEF DatabaseCall, DbExecFails, DbExecOk,
         CreateTable, DbInsert, DbDelete, transaction, commit, rollback, vacuum,
         drop_table, drop_table_if_exists, table_exists, table_line_count
<1>4. ASSUME NEW q \in Queries, QueryCall(q)
      PROVE  Ownership'
  <2> USE SqlAssumption
  <2>0. /\ stmt \in [Queries -> Stmts \cup {Null}]
        /\ alive \in [Queries -> BOOLEAN]
        /\ colCount \in [Queries -> 0 .. 1]
        /\ heap \in [Stmts -> Statements]
    BY DEF IInv, TypeOK
  <2>1. CASE ConstructQuery(q)
    <3>1. stmt[q] = Null
      BY <2>1 DEF ConstructQuery, IInv, PointersTraced
    <3>2. stmt' = stmt
      BY <2>0, <2>1, <3>1 DEF ConstructQuery
    <3>3. \A p \in Queries : alive[p] => alive'[p]
      BY <2>0, <2>1 DEF ConstructQuery
    <3>4. \A p \in Queries : Live(stmt[p]) => colCount'[p] = colCount[p]
      BY <2>0, <2>1, <3>1 DEF ConstructQuery, Live
    <3> QED BY <2>1, <3>1, <3>2, <3>3, <3>4 DEF ConstructQuery, Ownership, IInv,
           ConnectionHeld, CountMatches, PointersTraced, Live, Dangling
  <2>2. ASSUME FinalizeFails(q), MayRelease(q)
        PROVE  Ownership'
    BY <2>2, FinalizeFault, OwnershipFreed DEF FinalizeFails, sqlite3_finalize
  <2>3. CASE DestroyQuery(q)
    <3>1. CASE FinalizeOk(q) /\ stmt' = [stmt EXCEPT ![q] = Null]
      <4>1. /\ heap' = HeapWithout(stmt[q])
            /\ sqlite3_finalize(stmt[q])
            /\ alive' = [alive EXCEPT ![q] = FALSE]
            /\ colCount' = [colCount EXCEPT ![q] = 0]
        BY <2>3, <3>1 DEF DestroyQuery, FinalizeTwice, FinalizeFails, FinalizeOk
      <4> QED BY <2>0, <3>1, <4>1, OwnershipFreed DEF sqlite3_finalize
    <3> QED BY <1>2, <2>2, <2>3, <3>1 DEF DestroyQuery, FinalizeTwice
  <2>4. CASE finalize(q)
    <3>1. CASE FinalizeOk(q) /\ stmt' = [stmt EXCEPT ![q] = Null]
      <4>1. /\ heap' = HeapWithout(stmt[q])
            /\ sqlite3_finalize(stmt[q])
            /\ UNCHANGED <<alive, colCount>>
        BY <2>4, <3>1 DEF finalize, FinalizeTwice, FinalizeThrows, FinalizeFails,
           FinalizeOk
      <4> QED BY <2>0, <3>1, <4>1, OwnershipFreed DEF sqlite3_finalize
    <3> QED BY <1>2, <2>2, <2>4, <3>1 DEF finalize, FinalizeTwice, FinalizeThrows
  <2>5. ASSUME NEW sql \in Texts, prepare(q, sql)
        PROVE  Ownership'
    <3>1. CASE PrepareFails(q)
      BY <2>0, <3>1, OwnershipFreed DEF PrepareFails
    <3>2. CASE PrepareEmpty(q)
      BY <2>0, <3>2, OwnershipFreed DEF PrepareEmpty, LastOfZombie
    <3>3. CASE sql \in Compiled /\ PrepareCompiles(q, sql)
      BY <2>5, <3>3, OwnershipAllocated DEF prepare
    <3> QED BY <1>2, <2>2, <2>5, <3>1, <3>2, <3>3 DEF prepare, FinalizeTwice,
           FinalizeThrows, PrepareFreedConnection
  <2>6. CASE bind(q) \/ get_column_name(q) \/ CallPrepareFirst(q)
    BY <1>1, <1>2, <2>6 DEF bind, get_column_name, CallPrepareFirst
  <2>7. CASE exec(q) \/ next(q)
    <3>1. ASSUME Live(stmt[q]), UNCHANGED <<conn, query>>,
                 \/ heap' = [heap EXCEPT ![stmt[q]] = AtRow(stmt[q])]
                 \/ heap' = [heap EXCEPT ![stmt[q]] = AtStart(stmt[q])]
                 \/ heap' = [heap EXCEPT ![stmt[q]] = AtError(stmt[q])]
          PROVE  Ownership'
      BY <2>0, <3>1, OwnershipKept DEF Live, AtRow, AtStart, AtError, At
    <3>2. CASE exec(q)
      BY <1>2, <2>6, <3>1, <3>2 DEF exec
    <3>3. CASE next(q)
      BY <1>2, <2>6, <3>1, <3>3 DEF next
    <3> QED BY <2>7, <3>2, <3>3
  <2>8. ASSUME NEW k \in Columns, get_column(q, k)
        PROVE  Ownership'
    BY <1>1, <2>8 DEF get_column
  <2> QED BY <1>4, <2>1, <2>3, <2>4, <2>5, <2>6, <2>7, <2>8 DEF QueryCall
<1>5. ASSUME NEW k \in Columns, ColumnCall(k)
      PROVE  Ownership'
  BY <1>1, <1>2, <1>5 DEF ColumnCall, ReadColumn, DestroyColumn
<1> QED BY <1>3, <1>4, <1>5 DEF Next

-----------------------------------------------------------------------------
LEMMA InitInvariant ==
  ASSUME Init
  PROVE  IInv
BY SqlAssumption, InitTyped DEF Init, IInv, EachFaultHasItsLapse, ConnectionHeld,
   CountMatches, PointersTraced, Live, Dangling, Freed

LEMMA NextInvariant ==
  ASSUME IInv, [Next]_vars
  PROVE  IInv'
<1>1. CASE Next
  BY <1>1, NextTyped, NextFaults, NextOwnership DEF IInv, Ownership
<1>2. CASE UNCHANGED vars
  <2>1. TypeOK'
    BY <1>2, NextTyped DEF IInv
  <2>2. Ownership'
    BY <1>2, OwnershipKept DEF vars, query
  <2>3. EachFaultHasItsLapse'
    BY <1>2 DEF vars, IInv, EachFaultHasItsLapse
  <2> QED BY <2>1, <2>2, <2>3 DEF IInv, Ownership
<1> QED BY <1>1, <1>2

\* Which object holds which statement and what holds the connection, after any
\* sequence of calls, failures and destructions, is as IInv says.
THEOREM Invariant == Spec => []IInv
BY InitInvariant, NextInvariant, PTL DEF Spec

\* The precautions are sufficient: an undefined step or an exit from a
\* destructor takes a client with the lapse named for it.  For Lapses = {} it
\* says that the code never misuses SQLite.
THEOREM PrecautionsSuffice == Spec => []EachFaultHasItsLapse
<1>1. IInv => EachFaultHasItsLapse
  BY DEF IInv
<1> QED BY <1>1, Invariant, PTL

\* No statement is leaked or shared by two queries.
THEOREM EveryStatementOwned == Spec => []StatementsOwned
<1>1. IInv => StatementsOwned
  <2> SUFFICES ASSUME IInv, NEW s \in Stmts, Live(s)
               PROVE  \E q \in Queries : alive[q] /\ stmt[q] = s
                        /\ \A p \in Queries \ {q} : stmt[p] # s
    BY DEF StatementsOwned
  <2> QED BY SqlAssumption DEF IInv, PointersTraced
<1> QED BY <1>1, Invariant, PTL

\* The connection lives exactly as long as something that needs it.
THEOREM ConnectionAlwaysHeld == Spec => []ConnectionHeld
<1>1. IInv => ConnectionHeld
  BY DEF IInv
<1> QED BY <1>1, Invariant, PTL

\* column_count_ is never the count of another live statement.
THEOREM CountAlwaysMatches == Spec => []CountMatches
<1>1. IInv => CountMatches
  BY DEF IInv
<1> QED BY <1>1, Invariant, PTL

-----------------------------------------------------------------------------
LEMMA NextPublishes ==
  ASSUME TypeOK, [Next]_vars, inTx, disk' # disk
  PROVE  conn = "open" /\ conn' = "open" /\ disk' = table /\ ~ inTx'
<1> USE DEF file
<1>1. ~ Fail /\ ~ RunInsert /\ ~ RunDelete
  BY DEF Fail, RunInsert, RunDelete, Write
<1>2. ~ \E s, res : Step(s, res)
  BY <1>1 DEF Step
<1>3. ~ \E p : sqlite3_finalize(p)
  BY DEF sqlite3_finalize
<1>4. ~ UNCHANGED vars /\ ~ \E f : Fault(f)
  BY DEF vars, Fault
<1>5. ~ \E q \in Queries : QueryCall(q)
  <2> SUFFICES ASSUME NEW q \in Queries, QueryCall(q)
               PROVE  FALSE
    OBVIOUS
  <2>1. CASE DestroyQuery(q) \/ finalize(q)
    BY <1>3, <1>4, <2>1 DEF DestroyQuery, finalize, FinalizeTwice, FinalizeThrows,
       FinalizeFails
  <2>2. CASE \E sql \in Texts : prepare(q, sql)
    BY <1>3, <1>4, <2>2 DEF prepare, FinalizeTwice, FinalizeThrows, FinalizeFails,
       PrepareFreedConnection, PrepareFails, PrepareEmpty, PrepareCompiles
  <2>3. CASE exec(q) \/ next(q)
    BY <1>2, <1>4, <2>3 DEF exec, next, CallPrepareFirst
  <2> QED BY <1>4, <2>1, <2>2, <2>3 DEF QueryCall, ConstructQuery, bind,
         get_column_name, get_column
<1>6. ~ \E k \in Columns : ColumnCall(k)
  BY <1>4 DEF ColumnCall, ReadColumn, DestroyColumn
<1>7. CASE DatabaseCall
  <2>1. commit
    BY <1>1, <1>7 DEF DatabaseCall, OpenDatabase, DestroyDatabase, DbExecFails,
       CreateTable, DbInsert, DbDelete, transaction, rollback, vacuum, drop_table,
       drop_table_if_exists, table_exists, table_line_count, Write
  <2> QED BY <2>1 DEF commit, DbExecOk, CallsDb
<1> QED BY <1>4, <1>5, <1>6, <1>7 DEF Next

\* An open transaction reaches the file only by commit().
THEOREM CommitPublishes == Spec => OnlyCommitPublishes
<1>1. TypeOK /\ [Next]_vars =>
        [inTx /\ disk' # disk =>
           conn = "open" /\ conn' = "open" /\ disk' = table /\ ~ inTx']_vars
  BY NextPublishes
<1> QED BY <1>1, TypeCorrect, PTL DEF Spec, OnlyCommitPublishes

-----------------------------------------------------------------------------
(* NextLeavesReset, and the table of SqlTable.                                *)

\* A next() that ends without a row leaves its statement reset.
THEOREM NextResets == Spec => NextLeavesReset
<1>1. ASSUME TypeOK, NEW q \in Queries, next(q), ret' # "true", Live(stmt[q])
      PROVE  heap'[stmt[q]].run = "ready"
  <2>1. heap \in [Stmts -> Statements] /\ stmt[q] \in Stmts /\ stmt[q] # Null
    BY <1>1, SqlAssumption DEF TypeOK, Live
  <2>2. PICK res \in {"row", "done", "error"} :
          /\ heap' = [heap EXCEPT ![stmt[q]] =
                        IF res = "row" THEN AtRow(stmt[q]) ELSE AtStart(stmt[q])]
          /\ ret' = CASE res = "row" -> "true"
                      [] res = "done" -> "false"
                      [] res = "error" -> "throw"
    BY <1>1, <2>1 DEF next, CallPrepareFirst, Dangling, Live
  <2>3. res # "row"
    BY <1>1, <2>2
  <2> QED BY <2>1, <2>2, <2>3 DEF AtStart, At
<1>2. TypeOK /\ [Next]_vars =>
        [\A q \in Queries :
           next(q) /\ ret' # "true" /\ Live(stmt[q]) =>
             heap'[stmt[q]].run = "ready"]_vars
  BY <1>1
<1> QED BY <1>2, TypeCorrect, PTL DEF Spec, NextLeavesReset

\* How each kind of change of the file shows in the table, while the session
\* stays as it is.
LEMMA WritesImplement ==
  ASSUME TypeOK, Session \in {"open", "lingering"}, Session' = Session,
         \/ Fail
         \/ RunInsert
         \/ RunDelete
         \/ \E rows \in Tables : Write(rows) /\ UNCHANGED inTx
  PROVE  [Promised!Next]_Promised!vars
<1> USE SqlAssumption DEF Promised!Next, Promised!vars
<1>1. ASSUME NEW rows \in Tables, Write(rows), UNCHANGED inTx
      PROVE  Promised!Change
  BY <1>1 DEF Write, Promised!Change
<1>2. CASE Fail
  <2>1. CASE UNCHANGED <<table, inTx>>
    BY <1>2, <2>1 DEF Fail
  <2>2. CASE inTx /\ table' = disk /\ inTx' = FALSE
    BY <1>2, <2>2 DEF Fail, Promised!Abandon
  <2> QED BY <1>2, <2>1, <2>2 DEF Fail
<1>3. CASE RunInsert
  <2>1. table + 1 \in Tables
    BY <1>3 DEF RunInsert, Tables, NoTable
  <2> QED BY <1>1, <1>3, <2>1 DEF RunInsert
<1>4. CASE RunDelete
  <2>1. 0 \in Tables
    BY DEF Tables, NoTable
  <2> QED BY <1>1, <1>4, <2>1 DEF RunDelete
<1> QED BY <1>1, <1>2, <1>3, <1>4

\* A finalize() ends the session when it frees the last statement of a zombie.
LEMMA FinalizeImplements ==
  ASSUME TypeOK, NEW p, sqlite3_finalize(p)
  PROVE  [Promised!Next]_Promised!vars
<1>1. CASE LastOfZombie(p)
  BY <1>1 DEF LastOfZombie, sqlite3_finalize, Session, Promised!Next, Promised!End,
     Promised!vars
<1>2. CASE ~ LastOfZombie(p)
  BY <1>2 DEF sqlite3_finalize, file, Session, Promised!vars
<1> QED BY <1>1, <1>2

\* Statements live only on a connection that is there to work on.
LEMMA LiveSession ==
  ASSUME IInv, NEW s, Live(s)
  PROVE  Session \in {"open", "lingering"}
BY DEF IInv, ConnectionHeld, Live, Session

LEMMA DatabaseImplements ==
  ASSUME IInv, DatabaseCall
  PROVE  [Promised!Next]_Promised!vars
<1> USE DEF Promised!Next, Promised!vars, DbExecOk, CallsDb
<1>0. TypeOK
  BY DEF IInv
<1>1. CASE OpenDatabase
  BY <1>1 DEF OpenDatabase, file, Session, Promised!Open
<1>2. CASE DestroyDatabase
  BY <1>2 DEF DestroyDatabase, file, Session, Promised!Linger, Promised!End
<1>3. CASE DbExecFails \/ DbInsert \/ DbDelete
  BY <1>0, <1>3, WritesImplement DEF DbExecFails, DbInsert, DbDelete, Session
<1>4. CASE CreateTable \/ drop_table \/ drop_table_if_exists
  <2>1. 0 \in Tables /\ NoTable \in Tables
    BY SqlAssumption DEF Tables, NoTable
  <2> QED BY <1>0, <1>4, <2>1, WritesImplement
          DEF CreateTable, drop_table, drop_table_if_exists, Session
<1>5. CASE transaction
  BY <1>5 DEF transaction, Session, Promised!Begin
<1>6. CASE commit
  BY <1>6 DEF commit, Session, Promised!Commit
<1>7. CASE rollback
  BY <1>7 DEF rollback, Session, Promised!Abandon
<1>8. CASE vacuum \/ table_exists \/ table_line_count
  BY <1>8 DEF vacuum, table_exists, table_line_count, file, Session
<1> QED BY <1>1, <1>2, <1>3, <1>4, <1>5, <1>6, <1>7, <1>8 DEF DatabaseCall

LEMMA QueryImplements ==
  ASSUME IInv, NEW q \in Queries, QueryCall(q)
  PROVE  [Promised!Next]_Promised!vars
<1>0. TypeOK
  BY DEF IInv
<1>1. ASSUME UNCHANGED <<conn, file>>
      PROVE  [Promised!Next]_Promised!vars
  BY <1>1 DEF file, Session, Promised!vars
<1>2. ASSUME NEW f, Fault(f)
      PROVE  [Promised!Next]_Promised!vars
  BY <1>1, <1>2 DEF Fault
<1>3. CASE DestroyQuery(q) \/ finalize(q)
  BY <1>0, <1>2, <1>3, FinalizeImplements DEF DestroyQuery, finalize, FinalizeTwice,
     FinalizeThrows, FinalizeFails
<1>4. ASSUME NEW sql \in Texts, prepare(q, sql)
      PROVE  [Promised!Next]_Promised!vars
  BY <1>0, <1>1, <1>2, <1>4, FinalizeImplements DEF prepare, FinalizeTwice,
     FinalizeThrows, FinalizeFails, PrepareFreedConnection, PrepareFails,
     PrepareEmpty, PrepareCompiles
<1>5. ASSUME Live(stmt[q]), NEW res, Step(stmt[q], res), UNCHANGED conn
      PROVE  [Promised!Next]_Promised!vars
  <2>1. Session \in {"open", "lingering"} /\ Session' = Session
    BY <1>5, LiveSession DEF Session
  <2>2. CASE Fail \/ RunInsert \/ RunDelete
    BY <1>0, <2>1, <2>2, WritesImplement
  <2>3. CASE UNCHANGED file
    BY <1>1, <1>5, <2>3
  <2> QED BY <1>5, <2>2, <2>3 DEF Step
<1>6. CASE exec(q) \/ next(q)
  BY <1>1, <1>2, <1>5, <1>6 DEF exec, next, CallPrepareFirst
<1>7. CASE \/ ConstructQuery(q) \/ bind(q) \/ get_column_name(q)
           \/ \E k \in Columns : get_column(q, k)
  BY <1>1, <1>2, <1>7 DEF ConstructQuery, bind, get_column_name, get_column
<1> QED BY <1>3, <1>4, <1>6, <1>7 DEF QueryCall

\* SqlDatabase, SqlQuery and Column, with any client, any failures and any order
\* of destruction, implement the transactional table.
THEOREM Refinement == Spec => ImplementsTable
<1>1. Init => Promised!Init
  BY DEF Init, Promised!Init, Session
<1>2. IInv /\ [Next]_vars => [Promised!Next]_Promised!vars
  <2> SUFFICES ASSUME IInv, [Next]_vars
               PROVE  [Promised!Next]_Promised!vars
    OBVIOUS
  <2>1. ASSUME NEW k \in Columns, ColumnCall(k)
        PROVE  UNCHANGED <<conn, file>>
    BY <2>1 DEF ColumnCall, ReadColumn, DestroyColumn, Fault
  <2>2. CASE UNCHANGED <<conn, file>>
    BY <2>2 DEF file, Session, Promised!vars
  <2>3. CASE UNCHANGED vars
    BY <2>2, <2>3 DEF vars
  <2> QED BY <2>1, <2>2, <2>3, DatabaseImplements, QueryImplements DEF Next
<1> QED BY <1>1, <1>2, Invariant, PTL DEF Spec, ImplementsTable, Promised!Spec

\* So the file shows all that the session does, but for an open transaction,
\* and nothing of one that was open when its last object died.
THEOREM AllSettled == Spec => []Promised!Settled
<1>1. Promised!Init => Promised!Settled
  BY DEF Promised!Init, Promised!Settled
<1>2. Promised!Settled /\ [Promised!Next]_Promised!vars => Promised!Settled'
  BY DEF Promised!Settled, Promised!Next, Promised!vars, Promised!Open,
     Promised!Begin, Promised!Change, Promised!Commit, Promised!Abandon,
     Promised!Linger, Promised!End
<1> QED BY <1>1, <1>2, Refinement, PTL DEF ImplementsTable, Promised!Spec
=============================================================================
