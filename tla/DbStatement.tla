----------------------------- MODULE DbStatement -----------------------------
(***************************************************************************)
(* One connection of mysql-conn-pool executing one of its prepared         *)
(* statements: parameters (PreparedStatementBase, MySQLPreparedStatement), *)
(* the calls of MySQLConnection, result sets of both protocols and their   *)
(* fields.                                                                 *)
(*                                                                         *)
(* Memory is the set of blocks that are allocated; a block is named after  *)
(* what it is for and the number (stamp) of the call that allocated it, so *)
(* it is never confused with a later one.  What a result set buffers is    *)
(* modelled byte by byte: byte i of the value that row r has in column f   *)
(* is <<r, f, i>>, whatever it is.                                         *)
(***************************************************************************)
EXTENDS Integers, Sequences, FiniteSets, FiniteSetsExt

CONSTANTS
    Columns,     \* the MySQL types of the statement's columns, a sequence
    ParamCount,  \* the number of its parameters
    MaxRows, MaxLength, MaxCalls, MaxResults   \* bounds

NULL == -1   \* a cell without a value, a null pointer
None == <<>> \* no block

VARIABLES
    m_Mysql,        \* the connection is open
    mStmt,          \* the MySQLPreparedStatement of the connection, or None
    statement_data, \* the kinds of the values the caller has set
    call,           \* "no", "Execute" or "Query": the call under way
    bound,          \* BindParameters was done in it
    results,        \* the result sets of the binary protocol the client has
    text,           \* the result set of the text protocol the client has, or None
    heap,           \* the blocks that are allocated
    stamp,          \* the number of calls and preparations so far
    aborted,
    misused,        \* history: a block freed twice, or one used that is gone
    cannotBind      \* history: mysql_stmt_store_result or mysql_stmt_bind_result failed
vars == <<m_Mysql, mStmt, statement_data, call, bound, results, text, heap, stamp, aborted,
          misused, cannotBind>>

Params == 0..ParamCount - 1
Fields == DOMAIN Columns

Init ==
    /\ m_Mysql = TRUE /\ mStmt = None /\ statement_data = [i \in Params |-> "bool"]
    /\ call = "no" /\ bound = FALSE /\ results = {} /\ text = None /\ heap = {} /\ stamp = 0
    /\ aborted = FALSE /\ misused = FALSE /\ cannotBind = FALSE

Alive == ~aborted /\ ~misused

\* delete of the blocks in freed and new of those in made.
Memory(freed, made) ==
    /\ heap' = (heap \ freed) \cup made
    /\ misused' = (misused \/ ~(freed \subseteq heap))

Blocks(S) == S \ {None}

------------------------------------------------------------------------------
(* Columns and fields.                                                     *)

Strings == {"TINY_BLOB", "MEDIUM_BLOB", "LONG_BLOB", "BLOB", "STRING", "VAR_STRING"}
Dates == {"TIMESTAMP", "DATE", "TIME", "DATETIME"}

\* MYSQL_TIME takes 40 bytes.
SizeForType(type, max_length) ==
    CASE type = "TINY" -> 1
      [] type \in {"YEAR", "SHORT"} -> 2
      [] type \in {"INT24", "LONG", "FLOAT"} -> 4
      [] type \in {"DOUBLE", "LONGLONG", "BIT"} -> 8
      [] type \in Dates -> 40
      [] type \in Strings -> max_length + 1
      [] type \in {"DECIMAL", "NEWDECIMAL"} -> 64
      [] OTHER -> 0

MysqlTypeToFieldType(type) ==
    CASE type = "TINY" -> "Int8"
      [] type \in {"YEAR", "SHORT"} -> "Int16"
      [] type \in {"INT24", "LONG"} -> "Int32"
      [] type \in {"LONGLONG", "BIT"} -> "Int64"
      [] type = "FLOAT" -> "Float"
      [] type = "DOUBLE" -> "Double"
      [] type \in {"DECIMAL", "NEWDECIMAL"} -> "Decimal"
      [] type \in Dates -> "Date"
      [] type \in Strings -> "Binary"
      [] OTHER -> "Null"

\* The bytes a getter of the field's own type reads: GetInt8 .. GetInt64 and their
\* unsigned versions, GetFloat, GetDouble.  0: not a type read as raw bytes.
GetterWidth(fieldType) ==
    CASE fieldType = "Int8" -> 1 [] fieldType = "Int16" -> 2
      [] fieldType \in {"Int32", "Float"} -> 4 [] fieldType \in {"Int64", "Double"} -> 8
      [] OTHER -> 0

\* A row of the server: the lengths of its values, where they vary.
RowsOf(n) == [1..n -> {row \in [Fields -> {NULL} \cup 0..MaxLength] :
                         \A f \in Fields : IF Columns[f] = "BIT" THEN row[f] # 0
                                          ELSE Columns[f] \in Strings \/ row[f] \in {NULL, 0}}]

------------------------------------------------------------------------------
(* Parameters.                                                             *)

\* setBool .. setBinary, setNull: the ASSERT on the index.
Set(index, kind) ==
    /\ Alive /\ call = "no"
    /\ aborted' = (index >= ParamCount)
    /\ statement_data' = IF index < ParamCount THEN [statement_data EXCEPT ![index] = kind]
                                               ELSE statement_data
    /\ UNCHANGED <<m_Mysql, mStmt, call, bound, results, text, heap, stamp, misused, cannotBind>>

\* SetParameter: the blocks a parameter has afterwards, and those it drops without
\* deleting them (a number forgets the length a string had).
SetParameter(index, kind) ==
    [buffer |-> IF kind = "null" THEN None ELSE <<"buffer", stamp, index>>,
     length |-> IF kind \in {"string", "binary"} THEN <<"length", stamp, index>> ELSE None]
Deleted(param, kind) ==
    Blocks({param.buffer} \cup IF kind \in {"string", "binary", "null"} THEN {param.length} ELSE {})

\* BindParameters, at the beginning of Execute and _Query.
BindParameters ==
    /\ Alive /\ call # "no" /\ ~bound
    /\ m_Mysql /\ mStmt # None
    /\ LET m_bind == [i \in Params |-> SetParameter(i, statement_data[i])]
       IN  /\ mStmt' = [mStmt EXCEPT !.m_bind = m_bind]
           /\ Memory(UNION {Deleted(mStmt.m_bind[i], statement_data[i]) : i \in Params},
                     UNION {Blocks({m_bind[i].buffer, m_bind[i].length}) : i \in Params})
    /\ bound' = TRUE
    /\ UNCHANGED <<m_Mysql, statement_data, call, results, text, stamp, aborted, cannotBind>>

ParamBlocks(s) == UNION {Blocks({s.m_bind[i].buffer, s.m_bind[i].length}) : i \in Params}
ClearedBind == [i \in Params |-> [buffer |-> None, length |-> None]]

------------------------------------------------------------------------------
(* The statement of the connection.                                        *)

\* ~MySQLPreparedStatement: what it frees of s.  length and is_null of the last
\* result are freed with the statement.
DestroyedStatement(s) == IF s = None THEN {} ELSE ParamBlocks(s) \cup Blocks({s.arrays, s.stmt})

\* MySQLConnection::PrepareStatement.  "other": not prepared on connections of this
\* kind; "init", "prepare": the library fails and the old statement stays.
PrepareStatement(outcome) ==
    /\ Alive /\ call = "no" /\ m_Mysql /\ stamp < MaxCalls
    /\ stamp' = stamp + 1
    /\ IF outcome \in {"init", "prepare"} THEN UNCHANGED <<mStmt, heap, misused>>
       ELSE /\ mStmt' = IF outcome = "other" THEN None
                        ELSE [stmt |-> <<"stmt", stamp>>, m_bind |-> ClearedBind, arrays |-> None]
            /\ Memory(DestroyedStatement(mStmt), IF outcome = "ok" THEN {<<"stmt", stamp>>} ELSE {})
    /\ UNCHANGED <<m_Mysql, statement_data, call, bound, results, text, aborted, cannotBind>>

\* Execute(stmt), Query(stmt): the early return and the ASSERT on the statement.
Call(which) ==
    /\ Alive /\ call = "no" /\ stamp < MaxCalls
    /\ stamp' = stamp + 1
    /\ aborted' = (m_Mysql /\ mStmt = None)
    /\ call' = IF m_Mysql /\ mStmt # None THEN which ELSE "no"
    /\ bound' = FALSE
    /\ UNCHANGED <<m_Mysql, mStmt, statement_data, results, text, heap, misused, cannotBind>>

\* mysql_stmt_bind_param or mysql_stmt_execute fails and the connection is not lost.
CallFails ==
    /\ Alive /\ bound
    /\ mStmt' = [mStmt EXCEPT !.m_bind = ClearedBind]
    /\ Memory(ParamBlocks(mStmt), {})
    /\ call' = "no" /\ bound' = FALSE
    /\ UNCHANGED <<m_Mysql, statement_data, results, text, stamp, aborted, cannotBind>>

\* The connection is lost and _HandleMySQLErrno opens it again and prepares the
\* statements: the call starts over.  When it cannot, the process aborts.
CallReconnects(reopened) ==
    /\ Alive /\ bound /\ stamp < MaxCalls
    /\ stamp' = stamp + 1
    /\ aborted' = ~reopened /\ m_Mysql' = reopened
    /\ bound' = FALSE
    /\ mStmt' = [stmt |-> <<"stmt", stamp>>, m_bind |-> ClearedBind, arrays |-> None]
    /\ Memory(DestroyedStatement(mStmt), {<<"stmt", stamp>>})
    /\ UNCHANGED <<statement_data, call, results, text, cannotBind>>

\* The connection is lost and opening it fails with an error of the default case: the
\* call fails, with the old statement, and the connection stays without a handle.
CallGivesUp ==
    /\ Alive /\ bound
    /\ m_Mysql' = FALSE
    /\ mStmt' = [mStmt EXCEPT !.m_bind = ClearedBind]
    /\ Memory(ParamBlocks(mStmt), {})
    /\ call' = "no" /\ bound' = FALSE
    /\ UNCHANGED <<statement_data, results, text, stamp, aborted, cannotBind>>

\* Execute succeeds.
ExecuteDone ==
    /\ Alive /\ bound /\ call = "Execute"
    /\ mStmt' = [mStmt EXCEPT !.m_bind = ClearedBind]
    /\ Memory(ParamBlocks(mStmt), {})
    /\ call' = "no" /\ bound' = FALSE
    /\ UNCHANGED <<m_Mysql, statement_data, results, text, stamp, aborted, cannotBind>>

------------------------------------------------------------------------------
(* Result sets of the binary protocol.                                     *)

MaxLengthOf(rows, f) == Max({0} \cup {rows[r][f] : r \in DOMAIN rows})
BufferLength(rows, f) == SizeForType(Columns[f], MaxLengthOf(rows, f))
RowSize(rows) == MapThenSumSet(LAMBDA f : BufferLength(rows, f), Fields)
\* The offset of a column in the first row.
Offset(rows, f) == MapThenSumSet(LAMBDA g : BufferLength(rows, g), 1..f - 1)

\* A buffer pointer that moves on by the size of the column.
BufferAtColumn(rows, f, r) ==
    Offset(rows, f) + BufferLength(rows, f) * Cardinality({q \in 1..r - 1 : rows[q][f] # NULL})

\* m_stmt->bind[f].buffer when row r is fetched: it moves on past a value only.
BufferAt(rows, f, r) ==
    Offset(rows, f) + RowSize(rows) * Cardinality({q \in 1..r - 1 : rows[q][f] # NULL})

\* *m_rBind[f].length; that of a bit string is its own, too.
FetchedLength(rows, f, r) ==
    IF Columns[f] \in Strings \cup {"BIT"} THEN rows[r][f] ELSE BufferLength(rows, f)

\* What the fetch of row r and the terminator put at place x, if anything.
PutAt(rows, r, x) ==
    {<<r, f, x - BufferAt(rows, f, r)>> :
        f \in {g \in Fields : /\ rows[r][g] # NULL
                              /\ x \in BufferAt(rows, g, r)..
                                       BufferAt(rows, g, r) + FetchedLength(rows, g, r) - 1}}
    \cup
    {<<"nul">> : f \in {g \in Fields : /\ rows[r][g] # NULL /\ Columns[g] \in Strings
                                   /\ FetchedLength(rows, g, r) < BufferLength(rows, g)
                                   /\ x = BufferAt(rows, g, r) + FetchedLength(rows, g, r)}}

\* The buffer after the first n rows were fetched.
DataBuffer(rows, n) ==
    LET after[r \in 0..n] ==
            [x \in 0..RowSize(rows) * Len(rows) - 1 |->
               IF r = 0 THEN <<"uninitialised">>
               ELSE IF PutAt(rows, r, x) = {} THEN after[r - 1][x]
                    ELSE CHOOSE b \in PutAt(rows, r, x) : TRUE]
    IN  after[n]

\* m_rows: rows that were not fetched keep the fields of the constructor.
Rows(rows, n) ==
    [r \in DOMAIN rows |-> [f \in Fields |->
       IF r > n THEN [value |-> NULL, length |-> 0]
       ELSE [value |-> IF rows[r][f] = NULL THEN NULL ELSE BufferAt(rows, f, r),
             length |-> FetchedLength(rows, f, r)]]]

\* The constructor of PreparedResultSet and DatabaseWorkerPool::Query: parameters
\* are cleared, the arrays of the previous result go, this result's stay with the
\* statement; a result without rows is deleted.  n rows are fetched before an error.
NewResult(rows, n) ==
    /\ Alive /\ bound /\ call = "Query" /\ Cardinality(results) < MaxResults
    /\ mStmt' = [mStmt EXCEPT !.m_bind = ClearedBind, !.arrays = <<"arrays", stamp>>]
    /\ LET mine == {<<"meta", stamp>>, <<"rBind", stamp>>, <<"data", stamp>>}
           gone == ParamBlocks(mStmt) \cup Blocks({mStmt.arrays})
       IN  Memory(gone, {<<"arrays", stamp>>} \cup IF rows = <<>> THEN {} ELSE mine)
    /\ results' = IF rows = <<>> THEN results
                  ELSE results \cup
                       {[id |-> stamp, rows |-> rows, fetched |-> n, m_rows |-> Rows(rows, n),
                         data |-> DataBuffer(rows, n), m_rowPosition |-> 0, visited |-> 0]}
    /\ call' = "no" /\ bound' = FALSE
    /\ UNCHANGED <<m_Mysql, statement_data, text, stamp, aborted, cannotBind>>

\* The statement returns no result set (no metadata): no rows.
NewResultWithoutMetadata ==
    /\ Alive /\ bound /\ call = "Query"
    /\ mStmt' = [mStmt EXCEPT !.m_bind = ClearedBind]
    /\ Memory(ParamBlocks(mStmt), {})
    /\ call' = "no" /\ bound' = FALSE
    /\ UNCHANGED <<m_Mysql, statement_data, results, text, stamp, aborted, cannotBind>>

\* mysql_stmt_store_result fails: m_rBind is deleted and deleted again by CleanUp;
\* or mysql_stmt_bind_result fails: the metadata is freed by CleanUp and again by
\* the destructor.
NewResultFails(step) ==
    /\ Alive /\ bound /\ call = "Query"
    /\ Memory(ParamBlocks(mStmt) \cup Blocks({mStmt.arrays})
                \cup {IF step = "store" THEN <<"rBind", stamp>> ELSE <<"meta", stamp>>}, {})
    /\ cannotBind' = TRUE
    /\ mStmt' = [mStmt EXCEPT !.m_bind = ClearedBind]
    /\ call' = "no" /\ bound' = FALSE
    /\ UNCHANGED <<m_Mysql, statement_data, results, text, stamp, aborted>>

\* The client's loop: Fetch the row, then NextRow.  Fetch fails its ASSERT after
\* the last row, so the loop stops at a NextRow that returned false.
FetchAndNextRow(res) ==
    /\ Alive
    /\ res.m_rowPosition < Len(res.rows)
    /\ results' = (results \ {res}) \cup
                  {[res EXCEPT !.m_rowPosition = @ + 1, !.visited = @ + 1]}
    /\ UNCHANGED <<m_Mysql, mStmt, statement_data, call, bound, text, heap, stamp, aborted, misused,
                   cannotBind>>

\* ~PreparedResultSet.
DestroyResult(res) ==
    /\ Alive
    /\ Memory({<<"meta", res.id>>, <<"rBind", res.id>>, <<"data", res.id>>}, {})
    /\ results' = results \ {res}
    /\ UNCHANGED <<m_Mysql, mStmt, statement_data, call, bound, text, stamp, aborted, cannotBind>>

------------------------------------------------------------------------------
(* Result sets of the text protocol.                                       *)

\* _Query(sql), the constructor of ResultSet and the first NextRow, which
\* DatabaseWorkerPool::Query calls; a result without rows is freed.
QueryText(rowCount) ==
    /\ Alive /\ call = "no" /\ m_Mysql /\ text = None /\ stamp < MaxCalls
    /\ stamp' = stamp + 1
    /\ IF rowCount = 0 THEN UNCHANGED <<text, heap>>
       ELSE /\ text' = [id |-> stamp, rowCount |-> rowCount, current |-> 1, open |-> TRUE]
            /\ heap' = heap \cup {<<"result", stamp>>, <<"currentRow", stamp>>}
    /\ UNCHANGED <<m_Mysql, mStmt, statement_data, call, bound, results, aborted, misused, cannotBind>>

\* The blocks CleanUp frees.
TextBlocks == IF text.open THEN {<<"result", text.id>>, <<"currentRow", text.id>>} ELSE {}

\* ResultSet::NextRow: at the end, or when the lengths cannot be had, everything is
\* freed and the row with it.
NextRow(lengthsFail) ==
    /\ Alive /\ text # None
    /\ text.open \/ ~lengthsFail
    /\ IF text.open /\ text.current < text.rowCount /\ ~lengthsFail
       THEN text' = [text EXCEPT !.current = @ + 1] /\ UNCHANGED <<heap, misused>>
       ELSE text' = [text EXCEPT !.open = FALSE] /\ Memory(TextBlocks, {})
    /\ UNCHANGED <<m_Mysql, mStmt, statement_data, call, bound, results, stamp, aborted, cannotBind>>

\* ~ResultSet.
DestroyText ==
    /\ Alive /\ text # None
    /\ Memory(TextBlocks, {})
    /\ text' = None
    /\ UNCHANGED <<m_Mysql, mStmt, statement_data, call, bound, results, stamp, aborted, cannotBind>>

------------------------------------------------------------------------------
(* Getters.                                                                *)

\* Get(U)Int8 .. Get(U)Int64, GetFloat, GetDouble on a field that holds raw bytes.
GetRaw(res, r, f, width) ==
    [i \in 0..width - 1 |->
        IF res.m_rows[r][f].value + i \in DOMAIN res.data
        THEN res.data[res.m_rows[r][f].value + i] ELSE <<"outside">>]

\* The same on a field that holds text: strtoul and a cast, the low bytes of the
\* number, which has size bytes of its own.
GetStructured(r, f, size, width) == [i \in 0..width - 1 |-> IF i < size THEN <<r, f, i>> ELSE <<"sign">>]

\* GetString, GetBinary.
GetString(res, r, f) ==
    LET cell == res.m_rows[r][f] IN [i \in 0..cell.length - 1 |-> res.data[cell.value + i]]

\* GetCString ends at the first zero byte.
Terminated(res, r, f) ==
    LET cell == res.m_rows[r][f]
    IN  cell.value + cell.length \in DOMAIN res.data /\ res.data[cell.value + cell.length] = <<"nul">>

------------------------------------------------------------------------------
Next ==
    \/ \E index \in 0..ParamCount, kind \in {"bool", "string", "null"} : Set(index, kind)
    \/ \E outcome \in {"ok", "other", "init", "prepare"} : PrepareStatement(outcome)
    \/ \E which \in {"Execute", "Query"} : Call(which)
    \/ BindParameters
    \/ CallFails
    \/ \E reopened \in BOOLEAN : CallReconnects(reopened)
    \/ CallGivesUp
    \/ ExecuteDone
    \/ \E n \in 0..MaxRows : \E rows \in RowsOf(n), fetched \in 0..n : NewResult(rows, fetched)
    \/ NewResultWithoutMetadata
    \/ \E step \in {"store", "bind"} : NewResultFails(step)
    \/ \E res \in results : FetchAndNextRow(res) \/ DestroyResult(res)
    \/ \E rowCount \in 0..MaxRows : QueryText(rowCount)
    \/ \E lengthsFail \in BOOLEAN : NextRow(lengthsFail)
    \/ DestroyText

Spec == Init /\ [][Next]_vars

------------------------------------------------------------------------------
(* Properties.                                                             *)

\* What a field of a buffered row shows: IsNull exactly where the server's row has
\* no value, otherwise the bytes of that row's value in that column, through the
\* getter of the column's type or, for strings, with a zero byte behind them; and
\* both protocols give the same.  Rows after a failed fetch show no values.  Of a BIT
\* column only the bytes of the bit string are there (QueryResult.cpp:44 gives it 8,
\* and GetUInt64 reads them all).
CellFaithful(res, r, f) ==
    LET cell == res.m_rows[r][f]
        type == Columns[f]
        width == IF type = "BIT" THEN cell.length ELSE GetterWidth(MysqlTypeToFieldType(type))
    IN  /\ (cell.value = NULL) = (r > res.fetched \/ res.rows[r][f] = NULL)
        /\ cell.value # NULL =>
             IF type \in Strings
             THEN /\ GetString(res, r, f) = [i \in 0..res.rows[r][f] - 1 |-> <<r, f, i>>]
                  /\ Terminated(res, r, f)
             ELSE /\ GetRaw(res, r, f, width) = [i \in 0..width - 1 |-> <<r, f, i>>]
                  /\ GetRaw(res, r, f, width) = GetStructured(r, f, SizeForType(type, 0), width)

\* The blocks somebody still has a pointer to.
Reachable ==
    DestroyedStatement(mStmt)
    \cup UNION {{<<"meta", res.id>>, <<"rBind", res.id>>, <<"data", res.id>>} : res \in results}
    \cup IF text = None THEN {} ELSE TextBlocks

\* No block is freed twice unless binding a result failed, none is lost, result
\* sets outlive later executions of their statement, and every row a client visits
\* is there with its values.
StatementsSound ==
    /\ misused => cannotBind
    /\ ~misused => heap = Reachable
    /\ \A res \in results : /\ res.visited = res.m_rowPosition
                            /\ \A r \in DOMAIN res.rows, f \in Fields : CellFaithful(res, r, f)
    /\ text # None => text.current \in 1..text.rowCount

==============================================================================
