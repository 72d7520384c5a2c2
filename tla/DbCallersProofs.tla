-------------------------- MODULE DbCallersProofs ---------------------------
(***************************************************************************)
(* What the callers of a connection pass to it and read back from it, row  *)
(* by row and parameter by parameter, for any result sets, any answers and *)
(* any number of commands.                                                 *)
(***************************************************************************)
EXTENDS DbCallers, PrefixLemmas

Statements ==
  [of : Nat, sets : Seq(Nat), row : Nat, broken : BOOLEAN, owes : BOOLEAN, answer : Answers \cup {NoAnswer}]

(* The rows of the first result set that is not consumed.                   *)
RowsOf(s) == IF s.sets = << >> THEN 0 ELSE Head(s.sets)

(* While rows are read, the statement is that of the command, the column    *)
(* map describes its result set or nothing, and the fetches are in step     *)
(* with the rows: one ahead on a row that is still to be read.              *)
CursorInvariant ==
  /\ at \in {"rows", "next"} => /\ m_stmt \in Statements
                                /\ m_stmt.of = command
                                /\ m_cols \in {NoCols, Cols(m_stmt)}
                                /\ m_stmt.row <= RowsOf(m_stmt)
  /\ at = "rows" /\ ~m_eof => m_stmt.row = Len(rows) + 1
  /\ at = "next" => m_stmt.row = Len(rows)

RowsInvariant ==
  /\ command \in Nat
  /\ rows \in Seq(Nat \X Nat)
  /\ \A i \in DOMAIN rows : rows[i] \in {Unread, << command, i >>}
  /\ at \in {"append", "execute"} => rows = << >>
  /\ at = "outputs" => doing \notin ReadsAll
  /\ at \in {"rows", "done"} /\ (at = "rows" => m_eof) /\ doing \in ReadsAll /\ ~m_stmt.broken =>
       Len(rows) = RowsOf(m_stmt)
  /\ CursorInvariant

-----------------------------------------------------------------------------
(* A fetch either goes to the next row or, unless it failed, has seen that  *)
(* there is none (odbc_db.cpp:80-92).                                       *)
LEMMA FetchRow ==
  ASSUME NEW s \in Statements, s.row <= RowsOf(s), fetchRow(s)
  PROVE  /\ m_stmt' \in Statements /\ m_stmt'.of = s.of /\ m_stmt'.sets = s.sets
         /\ m_stmt'.row <= RowsOf(m_stmt')
         /\ m_eof' \in BOOLEAN
         /\ ~m_eof' => m_stmt'.row = s.row + 1
         /\ m_eof' /\ ~m_stmt'.broken => s.row = RowsOf(m_stmt')
<1>1. s.row \in Nat /\ s.sets \in Seq(Nat) /\ RowsOf(s) \in Nat /\ (HasRow(s) <=> s.row < RowsOf(s))
  BY DEF Statements, RowsOf, HasRow
<1>2. CASE HasRow(s) /\ m_stmt' = [s EXCEPT !.row = @ + 1] /\ m_eof' = FALSE
  <2>0. s.row + 1 \in Nat
    BY <1>1
  <2>1. /\ m_stmt' \in Statements /\ m_stmt'.of = s.of /\ m_stmt'.sets = s.sets
        /\ m_stmt'.row = s.row + 1
    BY <1>2, <2>0, Zenon DEF Statements
  <2>2. RowsOf(m_stmt') = RowsOf(s)
    BY <2>1 DEF RowsOf
  <2>3. s.row < RowsOf(s)
    BY <1>1, <1>2
  <2>4. m_stmt'.row <= RowsOf(m_stmt')
    BY <1>1, <2>1, <2>2, <2>3
  <2>5. m_eof' = FALSE
    BY <1>2
  <2> QED
    BY <2>1, <2>4, <2>5
<1>3. CASE m_stmt' = [s EXCEPT !.broken = @ \/ HasRow(s)] /\ m_eof' = TRUE
  <2>1. HasRow(s) \in BOOLEAN
    BY <1>1 DEF HasRow
  <2>2. /\ m_stmt' \in Statements /\ m_stmt'.of = s.of /\ m_stmt'.sets = s.sets
        /\ m_stmt'.row = s.row /\ (HasRow(s) => m_stmt'.broken)
    BY <1>3, <2>1 DEF Statements
  <2>3. RowsOf(m_stmt') = RowsOf(s)
    BY <2>2 DEF RowsOf
  <2> QED
    BY <1>1, <1>3, <2>2, <2>3
<1> QED
  BY <1>2, <1>3 DEF fetchRow

(* A command that succeeds leaves the cursor on the first row, or behind    *)
(* the last one of none (odbc_db.cpp:214-243, 265-313).                     *)
LEMMA ExecuteFetchesFirst ==
  ASSUME command \in Nat,
         Execute(TRUE) \/ ExecuteStoredProcedure(TRUE, Arity(doing))
  PROVE  /\ m_stmt' \in Statements /\ m_stmt'.of = command
         /\ m_cols' \in {NoCols, Cols(m_stmt')}
         /\ m_stmt'.row <= RowsOf(m_stmt')
         /\ m_eof' \in BOOLEAN
         /\ ~m_eof' => m_stmt'.row = 1
         /\ m_eof' /\ ~m_stmt'.broken => RowsOf(m_stmt') = 0
<1>1. PICK sets \in ResultSets, owes \in BOOLEAN, answer \in Answers \cup {NoAnswer} :
        buildColumnMap(Stmt(sets, owes, answer)) /\ fetchRow(Stmt(sets, owes, answer))
  BY DEF Execute, ExecuteStoredProcedure, execCall
<1> DEFINE s == Stmt(sets, owes, answer)
<1>2. s \in Statements /\ s.of = command /\ s.row = 0 /\ s.sets = sets
  BY OdbcAssumption DEF Stmt, NoStmt, Statements
<1>3. m_cols' \in {NoCols, Cols(s)} /\ fetchRow(s)
  BY <1>1 DEF buildColumnMap
<1> HIDE DEF s
<1>4. s.row <= RowsOf(s)
  BY <1>2 DEF Statements, RowsOf
<1>5. m_cols' \in {NoCols, Cols(m_stmt')}
  BY <1>2, <1>3, <1>4, FetchRow DEF Cols
<1> QED
  BY <1>2, <1>3, <1>4, <1>5, FetchRow

(* Reading a row gives the one that is due, or nothing.                     *)
LEMMA RowInStep ==
  ASSUME RowsInvariant, at = "rows", ~m_eof, Readable
  PROVE  CurrentRow = << command, Len(rows) + 1 >>
BY DEF RowsInvariant, CursorInvariant, Readable, CurrentRow

-----------------------------------------------------------------------------
(* A new process has no rows.                                               *)
LEMMA RowsInit == CallersInit => RowsInvariant
BY DEF CallersInit, DbInit, RowsInvariant, CursorInvariant

(* A step that begins a command or works on one keeps the cursor in step.   *)
LEMMA RowsStep ==
  ASSUME RowsInvariant, [CallersNext \/ Over]_dbVars
  PROVE  RowsInvariant'
<1>0. /\ command \in Nat /\ rows \in Seq(Nat \X Nat)
      /\ \A i \in DOMAIN rows : rows[i] \in {Unread, << command, i >>}
  BY DEF RowsInvariant
<1>1. CASE Opens
  <2>1. at' \in {"idle", "exit"} /\ UNCHANGED << rows, command, doing >>
    BY <1>1 DEF Opens
  <2> QED
    BY <1>0, <2>1 DEF RowsInvariant, CursorInvariant
<1>2. ASSUME NEW name, Starts(name), at' \in {"append", "execute"}
      PROVE  RowsInvariant'
  <2>1. rows' = << >> /\ command' \in Nat
    BY <1>0, <1>2 DEF Starts
  <2> QED
    BY <1>2, <2>1 DEF RowsInvariant, CursorInvariant
<1>3. ASSUME NEW name, Begin(name)
      PROVE  RowsInvariant'
  BY <1>2, <1>3 DEF Begin
<1>4. CASE Appends
  <2>1. at = "append" /\ at' \in {"append", "execute"} /\ UNCHANGED << rows, command, doing >>
    BY <1>4 DEF Appends
  <2> QED
    BY <1>0, <2>1 DEF RowsInvariant, CursorInvariant
<1>5. CASE Executes(FALSE)
  <2>1. at' \in {"idle", "exit"} /\ UNCHANGED << rows, command, doing >>
    BY <1>5 DEF Executes, Failed
  <2> QED
    BY <1>0, <2>1 DEF RowsInvariant, CursorInvariant
<1>6. CASE Executes(TRUE)
  <2>1. rows = << >> /\ at' = AfterExecute(doing) /\ UNCHANGED << rows, command, doing >>
    BY <1>6 DEF Executes, RowsInvariant
  <2>2. /\ m_stmt' \in Statements /\ m_stmt'.of = command
        /\ m_cols' \in {NoCols, Cols(m_stmt')}
        /\ m_stmt'.row <= RowsOf(m_stmt')
        /\ m_eof' \in BOOLEAN
        /\ ~m_eof' => m_stmt'.row = 1
        /\ m_eof' /\ ~m_stmt'.broken => RowsOf(m_stmt') = 0
    BY <1>0, <1>6, ExecuteFetchesFirst DEF Executes
  <2>3. /\ at' \in {"rows", "outputs", "done"} /\ (at' \in {"outputs", "done"} => doing \notin ReadsAll)
    BY <2>1 DEF AfterExecute
  <2>4. Len(rows') = 0
    BY <2>1
  <2>5. CursorInvariant'
    BY <2>1, <2>2, <2>3, <2>4 DEF CursorInvariant, Cols, RowsOf
  <2>6. at' = "rows" /\ m_eof' /\ ~m_stmt'.broken => Len(rows') = RowsOf(m_stmt')
    BY <2>2, <2>4
  <2> QED
    BY <1>0, <2>1, <2>3, <2>5, <2>6 DEF RowsInvariant, RowsOf
<1>7. CASE GetCollects
  <2>1. /\ at = "rows" /\ ~m_eof /\ UNCHANGED << cursor, command, doing >>
        /\ at' \in {"next", "done"} /\ (at' = "done" => doing \notin ReadsAll)
    BY <1>7 DEF GetCollects, odbc
  <2>2. PICK row \in {Unread, << command, Len(rows) + 1 >>} : rows' = Append(rows, row)
    BY <1>7, <2>1, RowInStep DEF GetCollects
  <2>3. row \in Nat \X Nat
    BY <1>0, <2>2 DEF Unread
  <2>4. /\ rows' \in Seq(Nat \X Nat) /\ Len(rows') = Len(rows) + 1
        /\ \A i \in DOMAIN rows' : rows'[i] \in {Unread, << command, i >>}
    BY <1>0, <2>2, <2>3
  <2>5. m_stmt' = m_stmt /\ m_cols' = m_cols
    BY <2>1 DEF cursor
  <2>6. CursorInvariant'
    BY <2>1, <2>4, <2>5 DEF RowsInvariant, CursorInvariant, Cols, RowsOf
  <2> QED
    BY <1>0, <2>1, <2>4, <2>6 DEF RowsInvariant
<1>8. CASE Moves
  <2>1. at = "next" /\ UNCHANGED << rows, command, doing, m_cols >>
    BY <1>8 DEF Moves, NextRow
  <2>2. at' \in {"rows", "outputs"} /\ (at' = "outputs" => doing \notin ReadsAll)
    BY <1>8 DEF Moves
  <2>3. /\ m_stmt \in Statements /\ m_stmt.of = command /\ m_cols \in {NoCols, Cols(m_stmt)}
        /\ m_stmt.row <= RowsOf(m_stmt) /\ m_stmt.row = Len(rows)
    BY <2>1 DEF RowsInvariant, CursorInvariant
  <2>4. CASE m_stmt = NoStmt
    <3>1. m_eof' = TRUE /\ m_stmt' = m_stmt
      BY <1>8, <2>4 DEF Moves, NextRow
    <3>2. RowsOf(m_stmt) = 0 /\ m_stmt.row = 0
      BY <2>4 DEF NoStmt, RowsOf
    <3>3. Len(rows') = RowsOf(m_stmt')
      BY <2>1, <2>3, <3>1, <3>2
    <3>4. CursorInvariant'
      BY <2>1, <2>2, <2>3, <3>1 DEF CursorInvariant
    <3> QED
      BY <1>0, <2>1, <2>2, <3>3, <3>4 DEF RowsInvariant
  <2>5. CASE m_stmt # NoStmt
    <3>1. fetchRow(m_stmt)
      BY <1>8, <2>5 DEF Moves, NextRow
    <3>2. /\ m_stmt' \in Statements /\ m_stmt'.of = m_stmt.of /\ m_stmt'.sets = m_stmt.sets
          /\ m_stmt'.row <= RowsOf(m_stmt')
          /\ m_eof' \in BOOLEAN
          /\ ~m_eof' => m_stmt'.row = m_stmt.row + 1
          /\ m_eof' /\ ~m_stmt'.broken => m_stmt.row = RowsOf(m_stmt')
      BY <2>3, <3>1, FetchRow
    <3>3. Cols(m_stmt') = Cols(m_stmt)
      BY <3>2 DEF Cols
    <3>4. CursorInvariant'
      <4>1. at' \in {"rows", "next"} => /\ m_stmt' \in Statements
                                        /\ m_stmt'.of = command'
                                        /\ m_cols' \in {NoCols, Cols(m_stmt')}
                                        /\ m_stmt'.row <= RowsOf(m_stmt')
        BY <2>1, <2>3, <3>2, <3>3
      <4>2. at' = "rows" /\ ~m_eof' => m_stmt'.row = Len(rows') + 1
        BY <2>1, <2>3, <3>2
      <4> QED
        BY <2>2, <4>1, <4>2 DEF CursorInvariant
    <3>5. m_eof' /\ ~m_stmt'.broken => Len(rows') = RowsOf(m_stmt')
      BY <2>1, <2>3, <3>2
    <3> QED
      BY <1>0, <2>1, <2>2, <3>4, <3>5 DEF RowsInvariant
  <2> QED
    BY <2>4, <2>5
<1>9. CASE RowsEnd
  <2>1. at = "rows" /\ m_eof /\ UNCHANGED << rows, command, doing, cursor >>
    BY <1>9 DEF RowsEnd, odbc
  <2>2. \/ at' = "outputs" /\ doing = "smoke1"
        \/ at' \in {"idle", "exit", "done"}
    BY <1>9 DEF RowsEnd, Failed
  <2>3. "smoke1" \notin ReadsAll
    BY DEF ReadsAll
  <2>4. m_stmt' = m_stmt
    BY <2>1 DEF cursor
  <2> QED
    BY <1>0, <2>1, <2>2, <2>3, <2>4 DEF RowsInvariant, CursorInvariant, RowsOf
<1>10. CASE GetParams
  <2>1. /\ at = "outputs" /\ at' \in {"outputs", "done"} /\ doing \notin ReadsAll
        /\ UNCHANGED << rows, command, doing >>
    BY <1>10 DEF GetParams, RowsInvariant
  <2> QED
    BY <1>0, <2>1 DEF RowsInvariant, CursorInvariant
<1>11. CASE QueriesUser
  BY <1>2, <1>11 DEF QueriesUser
<1>12. CASE Ends \/ Closes
  <2>1. at' \in {"idle", "exit"} /\ UNCHANGED << rows, command, doing >>
    BY <1>12 DEF Ends, Closes
  <2> QED
    BY <1>0, <2>1 DEF RowsInvariant, CursorInvariant
<1>13. CASE UNCHANGED dbVars
  <2>1. UNCHANGED << rows, command, doing, at, m_stmt, m_cols, m_eof >>
    BY <1>13 DEF dbVars, callerVars, local, odbc, cursor
  <2> QED
    BY <1>0, <2>1 DEF RowsInvariant, CursorInvariant, RowsOf, Cols
<1> QED
  BY <1>1, <1>3, <1>4, <1>5, <1>6, <1>7, <1>8, <1>9, <1>10, <1>11, <1>12, <1>13
  DEF CallersNext, HandlerNext, Over

(* Every handler works through the rows of its own command, in order and    *)
(* each one once, and through all of them unless a fetch failed, for any    *)
(* result sets and any number of commands on the connection                 *)
(* (odbc_db.cpp:80-92, 214-313).                                            *)
THEOREM RowsCompleteCorrect == DbSpec => []RowsComplete
<1>1. RowsInvariant => RowsComplete
  BY DEF RowsInvariant, RowsComplete, RowsOf
<1> QED
  BY <1>1, RowsInit, RowsStep, PTL DEF DbSpec

-----------------------------------------------------------------------------
(* Types.                                                                   *)

Procedures == {"login", "list", "detail", "pin", "cert", "smoke1", "smoke2"}
Values     == Codes \cup {NULL}
Names      == {"RETURN_VALUE", "@userId", "@userPass", "@userIp", "@SvrGrpNum", "@SvrNum", "@nReturn", "@UserNum",
               "@ServerGroup", "@ChaNum", "@szDaumGID", "@szDaumPasswd", "@nCheckFlag", "@country", "@servertype",
               "@serverip", "@serverport", "@uniqKey", "@IsSessionSvr", "@i_int", "@i_label", "@i_tiny", "@i_small",
               "@i_float", "@o_int", "@i_big", "@o_big"}
Stored     == [name : Names, io : {"in", "out", "return"}, width : Nat, value : Values, of : 1..MaxCommands]

ParamsTyped == \A name : Params(name) \in Seq(Stored)

DbTyped ==
  /\ m_conn \in BOOLEAN
  /\ m_stmt \in Statements /\ m_stmt.of <= command /\ m_stmt.row <= RowsOf(m_stmt)
  /\ m_eof \in BOOLEAN /\ m_resultsDrained \in BOOLEAN /\ m_paramsExecuted \in BOOLEAN
  /\ m_params \in Seq(Stored)

Typed ==
  /\ process \in Processes
  /\ at \in {"new", "idle", "append", "execute", "rows", "next", "outputs", "done", "exit"}
  /\ doing \in Procedures \cup Queries \cup {"exec", "none"}
  /\ command \in 0..MaxCommands
  /\ at \in {"new", "idle", "exit"} \/ command > 0
  /\ appended \in 0..Len(Params(doing))
  /\ at = "append" => appended < Len(Params(doing))
  /\ rows \in Seq((0..MaxCommands) \X Nat)
  /\ outs \in Seq(Values)
  /\ DbTyped

(* What a caller appends is a list of parameters of its command             *)
(* (agent_server.cpp:107-115, 439-461, 511-516; auth_server.cpp:191-199).   *)
LEMMA ParamsAreTyped == command \in 1..MaxCommands => ParamsTyped
<1> SUFFICES ASSUME command \in 1..MaxCommands, NEW name
             PROVE  Params(name) \in Seq(Stored)
  BY DEF ParamsTyped
<1>1. NULL \in Values
  BY DEF Values
<1>2. ASSUME NEW n \in Names, NEW w \in Nat
      PROVE  In(n, w) \in Stored /\ Out(n, w) \in Stored
  BY <1>1 DEF In, Out, Param, Stored
<1>3. Return \in Stored
  BY <1>1 DEF Return, Param, Stored, Names
<1>4. LoginParams \in Seq(Stored)
  <2>1. /\ In("@userId", 0) \in Stored /\ In("@userPass", 0) \in Stored /\ In("@userIp", 0) \in Stored
        /\ In("@SvrGrpNum", 4) \in Stored /\ In("@SvrNum", 4) \in Stored /\ Out("@nReturn", 4) \in Stored
    BY <1>2 DEF Names
  <2> QED
    BY <1>3, <2>1 DEF LoginParams
<1>5. ListParams \in Seq(Stored)
  <2>1. /\ In("@UserNum", 4) \in Stored /\ In("@ServerGroup", 4) \in Stored
    BY <1>2 DEF Names
  <2> QED
    BY <1>3, <2>1 DEF ListParams
<1>6. DetailParams \in Seq(Stored)
  <2>1. /\ In("@UserNum", 4) \in Stored /\ In("@ChaNum", 4) \in Stored
    BY <1>2 DEF Names
  <2> QED
    BY <1>3, <2>1 DEF DetailParams
<1>7. PinParams \in Seq(Stored)
  <2>1. /\ In("@szDaumGID", 0) \in Stored /\ In("@szDaumPasswd", 0) \in Stored /\ In("@nCheckFlag", 4) \in Stored
        /\ Out("@nReturn", 4) \in Stored
    BY <1>2 DEF Names
  <2> QED
    BY <1>3, <2>1 DEF PinParams
<1>8. CertParams \in Seq(Stored)
  <2>1. /\ In("@country", 4) \in Stored /\ In("@servertype", 4) \in Stored /\ In("@serverip", 0) \in Stored
        /\ In("@serverport", 4) \in Stored /\ In("@uniqKey", 0) \in Stored /\ In("@IsSessionSvr", 4) \in Stored
    BY <1>2 DEF Names
  <2> QED
    BY <1>3, <2>1 DEF CertParams
<1>9. Smoke1Params \in Seq(Stored)
  <2>1. /\ In("@i_int", 4) \in Stored /\ In("@i_label", 0) \in Stored /\ In("@i_tiny", 1) \in Stored
        /\ In("@i_small", 2) \in Stored /\ In("@i_float", 8) \in Stored /\ Out("@o_int", 4) \in Stored
    BY <1>2 DEF Names
  <2> QED
    BY <1>3, <2>1 DEF Smoke1Params
<1>10. Smoke2Params \in Seq(Stored)
  <2>1. /\ In("@i_big", 8) \in Stored /\ Out("@o_big", 8) \in Stored
    BY <1>2 DEF Names
  <2> QED
    BY <1>3, <2>1 DEF Smoke2Params
<1>11. << >> \in Seq(Stored)
  OBVIOUS
<1> QED
  BY <1>4, <1>5, <1>6, <1>7, <1>8, <1>9, <1>10, <1>11, Zenon DEF Params

ParamsCounted ==
  /\ \A name : Len(Params(name)) \in Nat /\ (Params(name) # << >> <=> Len(Params(name)) > 0)
  /\ \A name : name \in Procedures => Params(name) # << >>
  /\ \A name : name \in Queries \cup {"exec", "none"} => Params(name) = << >>

(* Which callers append parameters does not depend on the command.          *)
LEMMA ParamCounts == ParamsCounted
<1>1. /\ Len(LoginParams) = 7 /\ Len(ListParams) = 2 /\ Len(DetailParams) = 2 /\ Len(PinParams) = 5
      /\ Len(CertParams) = 6 /\ Len(Smoke1Params) = 7 /\ Len(Smoke2Params) = 3 /\ Len(<< >>) = 0
  BY DEF LoginParams, ListParams, DetailParams, PinParams, CertParams, Smoke1Params, Smoke2Params
<1>2. ASSUME NEW name PROVE Len(Params(name)) \in {0, 2, 3, 5, 6, 7} /\ (Params(name) # << >> <=> Len(Params(name)) # 0)
  <2>1. Params(name) \in {LoginParams, ListParams, DetailParams, PinParams, CertParams, Smoke1Params, Smoke2Params, << >>}
    BY Zenon DEF Params
  <2> QED
    BY <1>1, <2>1
<1>3. \A name : name \in Procedures => Len(Params(name)) # 0
  BY <1>1 DEF Params, Procedures
<1>4. \A name : name \in Queries \cup {"exec", "none"} => Params(name) = << >>
  BY DEF Params, Queries
<1> QED
  BY <1>1, <1>2, <1>3, <1>4 DEF ParamsCounted

(* A step that works on a command leaves its list of parameters as it is.   *)
LEMMA ParamsKept ==
  ASSUME command' = command, doing' = doing
  PROVE  Params(doing)' = Params(doing)
BY DEF Params, LoginParams, ListParams, DetailParams, PinParams, CertParams, Smoke1Params, Smoke2Params,
       In, Out, Return, Param

(* The driver writes values and nothing else, into the outputs.             *)
LEMMA DeliveredTyped ==
  ASSUME NEW ps \in Seq(Stored), NEW answer \in Answers \cup {NoAnswer}
  PROVE  /\ Delivered(answer, ps) \in Seq(Stored)
         /\ Len(Delivered(answer, ps)) = Len(ps)
         /\ \A i \in 1..Len(ps) : /\ Delivered(answer, ps)[i] \in Stored
                                  /\ Delivered(answer, ps)[i].name = ps[i].name
                                  /\ Delivered(answer, ps)[i].io = ps[i].io
                                  /\ Delivered(answer, ps)[i].width = ps[i].width
                                  /\ Delivered(answer, ps)[i].of = ps[i].of
                                  /\ ps[i].io = "out" => Delivered(answer, ps)[i].value = answer.out
                                  /\ ps[i].io = "return" => Delivered(answer, ps)[i].value = answer.return
<1>1. answer.out \in Values /\ answer.return \in Values
  BY DEF Answers, NoAnswer, Values
<1> DEFINE holding(p) == IF p.io = "in" THEN p ELSE [p EXCEPT !.value = IF p.io = "out" THEN answer.out ELSE answer.return]
<1>2. ASSUME NEW p \in Stored
      PROVE  /\ holding(p) \in Stored
             /\ holding(p).name = p.name /\ holding(p).io = p.io
             /\ holding(p).width = p.width /\ holding(p).of = p.of
             /\ p.io = "out" => holding(p).value = answer.out
             /\ p.io = "return" => holding(p).value = answer.return
  BY <1>1, <1>2 DEF Stored
<1>3. /\ Len(ps) \in Nat /\ DOMAIN ps = 1..Len(ps)
      /\ \A i \in 1..Len(ps) : ps[i] \in Stored
  OBVIOUS
<1>4. \A i \in 1..Len(ps) : Delivered(answer, ps)[i] = holding(ps[i])
  BY <1>3 DEF Delivered
<1> HIDE DEF holding
<1>5. Delivered(answer, ps) \in [1..Len(ps) -> Stored]
  BY <1>2, <1>3, <1>4 DEF Delivered
<1>6. Delivered(answer, ps) \in Seq(Stored) /\ Len(Delivered(answer, ps)) = Len(ps)
  BY <1>3, <1>5
<1> QED
  BY <1>2, <1>3, <1>4, <1>6

(* What GetParam finds is a value, and that of the first parameter of the   *)
(* name it is asked for if this is wide enough (odbc_db.cpp:170-174,        *)
(* 325-358).                                                                *)
LEMMA FoundTyped ==
  ASSUME NEW ps \in Seq(Stored), NEW name, NEW width
  PROVE  Found(ps, name, width) \in Values
<1> DEFINE first == CHOOSE i \in Named(ps, name) : \A j \in Named(ps, name) : i <= j
<1>1. NULL \in Values
  BY DEF Values
<1>2. CASE Named(ps, name) = {}
  BY <1>1, <1>2 DEF Found
<1>3. CASE Named(ps, name) # {}
  <2>1. Named(ps, name) \in SUBSET Nat /\ Named(ps, name) \subseteq DOMAIN ps
    BY DEF Named
  <2>2. \E i \in Named(ps, name) : \A j \in Named(ps, name) : i <= j
    BY <1>3, <2>1, LeastElement
  <2>3. first \in DOMAIN ps
    BY <2>1, <2>2
  <2>4. ps[first].value \in Values
    <3> HIDE DEF first
    <3>1. ps[first] \in Stored
      BY <2>3
    <3> QED
      BY <3>1 DEF Stored
  <2> QED
    BY <1>1, <2>4, Zenon DEF Found
<1> QED
  BY <1>2, <1>3

(* The value that is found is the one at the first place of the name.       *)
LEMMA FoundAt ==
  ASSUME NEW ps \in Seq(Stored), NEW width \in Nat, NEW k \in DOMAIN ps,
         \A j \in DOMAIN ps : ps[j].name = ps[k].name => k <= j,
         ps[k].width >= width
  PROVE  Found(ps, ps[k].name, width) = ps[k].value
<1> DEFINE first == CHOOSE i \in Named(ps, ps[k].name) : \A j \in Named(ps, ps[k].name) : i <= j
<1>1. k \in Nat /\ Named(ps, ps[k].name) \subseteq Nat /\ k \in Named(ps, ps[k].name)
  BY DEF Named
<1>2. \A j \in Named(ps, ps[k].name) : k <= j
  BY DEF Named
<1>3. first \in Named(ps, ps[k].name) /\ first <= k
  BY <1>1, <1>2
<1>4. first = k
  BY <1>1, <1>2, <1>3
<1>5. ps[k] \in Stored
  OBVIOUS
<1>6. ps[k].width \in Nat
  BY <1>5 DEF Stored
<1>7. Named(ps, ps[k].name) # {} /\ ~(width > 0 /\ ps[first].width < width)
  <2> HIDE DEF first
  <2> QED
    BY <1>1, <1>4, <1>6
<1> QED
  BY <1>4, <1>7, Zenon DEF Found

-----------------------------------------------------------------------------
(* What the calls do to the types.                                          *)

(* A statement after it was executed.                                       *)
LEMMA StmtTyped ==
  ASSUME command \in Nat, NEW sets \in Seq(Nat), NEW owes \in BOOLEAN, NEW answer \in Answers \cup {NoAnswer}
  PROVE  LET s == Stmt(sets, owes, answer)
         IN  /\ s \in Statements /\ s.of = command /\ s.row = 0 /\ s.sets = sets
             /\ s.owes = owes /\ s.answer = answer
BY DEF Stmt, NoStmt, Statements

(* A handle without a statement.                                            *)
LEMMA FreeTyped == NoStmt \in Statements /\ NoStmt.of = 0 /\ NoStmt.row = 0 /\ RowsOf(NoStmt) = 0
BY DEF NoStmt, Statements, RowsOf

(* Close leaves nothing behind (odbc_db.cpp:46-62).                         *)
LEMMA CloseTyped ==
  ASSUME Close, command \in Nat, command' = command
  PROVE  DbTyped'
<1>1. m_stmt' = NoStmt /\ m_conn' = FALSE /\ m_eof' = TRUE /\ m_resultsDrained' = FALSE
      /\ m_paramsExecuted' = FALSE /\ m_params' = << >>
  BY DEF Close, freeStmt
<1>2. m_stmt' \in Statements /\ m_stmt'.of <= command /\ m_stmt'.row <= RowsOf(m_stmt')
  BY <1>1, FreeTyped
<1>3. m_params' \in Seq(Stored)
  BY <1>1
<1> QED
  BY <1>1, <1>2, <1>3 DEF DbTyped

(* Whether it succeeds or not, a command leaves the handle with its own     *)
(* statement, the old one or none, and writes into the parameters at most   *)
(* the answer (odbc_db.cpp:64-107, 265-315).                                *)
LEMMA ExecuteTyped ==
  ASSUME DbTyped, command \in Nat, command' = command,
         NEW ok \in BOOLEAN, Execute(ok) \/ ExecuteStoredProcedure(ok, Arity(doing))
  PROVE  DbTyped'
<1>1. m_conn' = m_conn
  BY DEF Execute, ExecuteStoredProcedure, execCall
<1>2. CASE ok
  <2>1. /\ m_stmt' \in Statements /\ m_stmt'.of = command
        /\ m_stmt'.row <= RowsOf(m_stmt') /\ m_eof' \in BOOLEAN
    BY <1>2, ExecuteFetchesFirst
  <2>2. m_resultsDrained' = FALSE
    BY <1>2 DEF Execute, ExecuteStoredProcedure, execCall
  <2>3. m_params' \in Seq(Stored) /\ m_paramsExecuted' \in BOOLEAN
    <3>1. CASE UNCHANGED params
      BY <3>1 DEF params, DbTyped
    <3>2. CASE ~UNCHANGED params
      <4>1. execCall(TRUE, Arity(doing))
        BY <1>2, <3>2 DEF Execute, ExecuteStoredProcedure
      <4>2. m_paramsExecuted' = TRUE /\ \E answer \in Answers : m_params' \in {m_params, Delivered(answer, m_params)}
        BY <4>1 DEF execCall
      <4> QED
        BY <4>2, DeliveredTyped DEF DbTyped
    <3> QED
      BY <3>1, <3>2
  <2>4. m_stmt'.of <= command
    BY <2>1
  <2> QED
    BY <1>1, <2>1, <2>2, <2>3, <2>4 DEF DbTyped
<1>3. CASE ~ok
  <2>1. UNCHANGED params /\ Fails
    BY <1>3 DEF Execute, ExecuteStoredProcedure, execCall
  <2>2. CASE m_conn
    <3>1. m_stmt' \in {NoStmt, Stmt(<< >>, FALSE, NoAnswer)} /\ m_eof' = TRUE /\ m_resultsDrained' = FALSE
      BY <2>1, <2>2 DEF Fails
    <3> DEFINE s == Stmt(<< >>, FALSE, NoAnswer)
    <3>2. s \in Statements /\ s.of = command /\ s.row = 0 /\ s.sets = << >>
      <4>1. s = [of |-> command, sets |-> << >>, row |-> 0, broken |-> FALSE, owes |-> FALSE, answer |-> NoAnswer]
        BY DEF Stmt, NoStmt
      <4>2. << >> \in Seq(Nat)
        OBVIOUS
      <4> HIDE DEF s
      <4> QED
        BY <4>1, <4>2 DEF Statements
    <3>3. m_stmt' \in {NoStmt, s}
      BY <3>1
    <3> HIDE DEF s
    <3>4. RowsOf(s) = 0
      BY <3>2 DEF RowsOf
    <3>5. m_stmt' \in Statements /\ m_stmt'.of <= command /\ m_stmt'.row <= RowsOf(m_stmt')
      BY <3>2, <3>3, <3>4, FreeTyped
    <3> QED
      BY <1>1, <2>1, <3>1, <3>5 DEF DbTyped, params
  <2>3. CASE ~m_conn
    <3>1. UNCHANGED << m_stmt, m_eof, m_resultsDrained >>
      BY <2>1, <2>3 DEF Fails, cursor
    <3> QED
      BY <1>1, <2>1, <3>1 DEF DbTyped, RowsOf, params
  <2> QED
    BY <2>2, <2>3
<1> QED
  BY <1>2, <1>3

(* Going to the next row (odbc_db.cpp:86-92, 109-112).                      *)
LEMMA NextRowTyped ==
  ASSUME DbTyped, command' = command, NextRow
  PROVE  /\ DbTyped'
         /\ m_stmt'.of = m_stmt.of /\ m_stmt'.owes = m_stmt.owes /\ m_stmt'.answer = m_stmt.answer
         /\ m_stmt.broken => m_stmt'.broken
<1>1. UNCHANGED << m_conn, m_resultsDrained, m_paramsExecuted, m_params >>
  BY DEF NextRow, params
<1>2. CASE m_stmt = NoStmt
  <2>1. m_stmt' = m_stmt /\ m_eof' = TRUE
    BY <1>2 DEF NextRow
  <2> QED
    BY <1>1, <2>1 DEF DbTyped, RowsOf
<1>3. CASE m_stmt # NoStmt
  <2>1. fetchRow(m_stmt)
    BY <1>3 DEF NextRow
  <2>2. m_stmt' \in Statements /\ m_stmt'.of = m_stmt.of /\ m_stmt'.row <= RowsOf(m_stmt') /\ m_eof' \in BOOLEAN
    BY <2>1, FetchRow DEF DbTyped
  <2>3. m_stmt'.owes = m_stmt.owes /\ m_stmt'.answer = m_stmt.answer /\ (m_stmt.broken => m_stmt'.broken)
    BY <2>1, Zenon DEF fetchRow, DbTyped, Statements
  <2> QED
    BY <1>1, <2>2, <2>3 DEF DbTyped, RowsOf
<1> QED
  BY <1>2, <1>3

(* Draining skips result sets and has the answer written, or breaks off     *)
(* before (odbc_db.cpp:317-323).                                            *)
LEMMA GetParamTyped ==
  ASSUME DbTyped, command' = command, GetParam
  PROVE  /\ DbTyped'
         /\ m_stmt'.of = m_stmt.of /\ m_stmt'.answer = m_stmt.answer
         /\ \/ UNCHANGED << m_stmt, m_params, m_resultsDrained >> /\ m_resultsDrained
            \/ /\ m_stmt'.broken = m_stmt.broken /\ m_stmt'.owes = FALSE
               /\ m_params' = IF m_stmt.owes THEN Delivered(m_stmt.answer, m_params) ELSE m_params
            \/ m_stmt'.broken = TRUE /\ m_stmt'.owes = m_stmt.owes /\ m_params' = m_params
<1>0. /\ m_stmt \in Statements /\ m_stmt.of <= command /\ m_stmt.row <= RowsOf(m_stmt)
      /\ m_params \in Seq(Stored) /\ m_conn \in BOOLEAN /\ m_paramsExecuted \in BOOLEAN
      /\ m_stmt.sets \in Seq(Nat) /\ m_stmt.row \in Nat
  BY DEF DbTyped, Statements
<1>1. UNCHANGED << m_conn, m_paramsExecuted >>
  BY DEF GetParam
<1>2. CASE m_resultsDrained
  <2>1. UNCHANGED << m_stmt, m_params, m_resultsDrained, m_eof >>
    BY <1>2 DEF GetParam
  <2> QED
    BY <1>1, <1>2, <2>1 DEF DbTyped
<1>3. CASE ~m_resultsDrained
  <2>1. m_resultsDrained' = TRUE /\ m_eof' = TRUE
    BY <1>3 DEF GetParam, drainResults
  <2>2. CASE /\ m_stmt' = [m_stmt EXCEPT !.sets = << >>, !.row = 0, !.owes = FALSE]
             /\ m_params' = IF m_stmt.owes THEN Delivered(m_stmt.answer, m_params) ELSE m_params
    <3>1. /\ m_stmt'.of = m_stmt.of /\ m_stmt'.answer = m_stmt.answer
          /\ m_stmt'.broken = m_stmt.broken /\ m_stmt'.owes = FALSE
          /\ m_stmt'.sets = << >> /\ m_stmt'.row = 0
      BY <1>0, <2>2, Zenon DEF Statements
    <3>2. m_stmt' \in Statements
      <4>1. << >> \in Seq(Nat) /\ 0 \in Nat
        OBVIOUS
      <4> QED
        BY <1>0, <2>2, <4>1, Zenon DEF Statements
    <3>3. RowsOf(m_stmt') = 0
      BY <3>1 DEF RowsOf
    <3>4. m_params' \in Seq(Stored)
      BY <1>0, <2>2, DeliveredTyped DEF Statements
    <3>5. m_stmt'.row <= RowsOf(m_stmt') /\ m_stmt'.of <= command
      BY <1>0, <3>1, <3>3
    <3>6. DbTyped'
      BY <1>0, <1>1, <2>1, <3>2, <3>4, <3>5 DEF DbTyped
    <3> QED
      BY <2>2, <3>1, <3>6
  <2>3. ASSUME NEW skipped \in 0..Len(m_stmt.sets) - 1,
               m_stmt' = [m_stmt EXCEPT !.sets = SubSeq(@, skipped + 1, Len(@)),
                                        !.row = IF skipped = 0 THEN @ ELSE 0,
                                        !.broken = TRUE],
               m_params' = m_params
        PROVE  /\ DbTyped'
               /\ m_stmt'.of = m_stmt.of /\ m_stmt'.answer = m_stmt.answer
               /\ m_stmt'.broken = TRUE /\ m_stmt'.owes = m_stmt.owes
    <3> DEFINE rest == SubSeq(m_stmt.sets, skipped + 1, Len(m_stmt.sets))
               row  == IF skipped = 0 THEN m_stmt.row ELSE 0
    <3>1. rest \in Seq(Nat) /\ rest # << >> /\ Head(rest) = m_stmt.sets[skipped + 1] /\ row \in Nat
      <4>1. /\ Len(m_stmt.sets) \in Nat /\ skipped + 1 \in 1..Len(m_stmt.sets)
            /\ \A i \in skipped + 1..Len(m_stmt.sets) : m_stmt.sets[i] \in Nat
        BY <1>0
      <4>2. /\ rest \in Seq(Nat) /\ Len(rest) = Len(m_stmt.sets) - (skipped + 1) + 1
            /\ \A i \in 1..Len(rest) : rest[i] = m_stmt.sets[(skipped + 1) + i - 1]
        BY <1>0, <4>1
      <4>3. Len(rest) >= 1 /\ rest[1] = m_stmt.sets[skipped + 1]
        BY <4>1, <4>2
      <4>4. row \in Nat
        BY <1>0
      <4> HIDE DEF rest
      <4> QED
        BY <4>2, <4>3, <4>4
    <3>2. m_stmt' = [m_stmt EXCEPT !.sets = rest, !.row = row, !.broken = TRUE]
      BY <2>3
    <3>3. row <= Head(rest)
      <4>1. CASE skipped = 0
        <5>1. m_stmt.sets # << >> /\ Head(m_stmt.sets) = m_stmt.sets[1]
          BY <1>0, <4>1
        <5> QED
          BY <1>0, <3>1, <4>1, <5>1 DEF RowsOf
      <4>2. CASE skipped # 0
        <5>1. Head(rest) \in Nat
          BY <3>1
        <5> QED
          BY <4>2, <5>1
      <4> QED
        BY <4>1, <4>2
    <3> HIDE DEF rest, row
    <3>4. m_stmt' \in Statements
      BY <1>0, <3>1, <3>2, Zenon DEF Statements
    <3>5. /\ m_stmt'.of = m_stmt.of /\ m_stmt'.answer = m_stmt.answer
          /\ m_stmt'.broken = TRUE /\ m_stmt'.owes = m_stmt.owes
          /\ m_stmt'.sets = rest /\ m_stmt'.row = row
      BY <1>0, <3>2, Zenon DEF Statements
    <3>6. RowsOf(m_stmt') = Head(rest)
      BY <3>1, <3>5 DEF RowsOf
    <3>7. m_stmt'.row <= RowsOf(m_stmt') /\ m_stmt'.of <= command
      BY <1>0, <3>3, <3>5, <3>6
    <3>8. DbTyped'
      BY <1>0, <1>1, <2>1, <2>3, <3>4, <3>7 DEF DbTyped
    <3> QED
      BY <3>5, <3>8
  <2> QED
    BY <1>3, <2>2, <2>3 DEF GetParam, drainResults
<1> QED
  BY <1>2, <1>3

(* A new process is typed.                                                  *)
LEMMA TypedInit == CallersInit => Typed
<1> SUFFICES ASSUME CallersInit
             PROVE  Typed
  OBVIOUS
<1>1. m_stmt \in Statements /\ m_stmt.of <= command /\ m_stmt.row <= RowsOf(m_stmt)
  BY FreeTyped DEF CallersInit, DbInit
<1>2. DbTyped
  <2>1. m_params \in Seq(Stored)
    BY DEF CallersInit, DbInit
  <2> QED
    BY <1>1, <2>1 DEF CallersInit, DbInit, DbTyped
<1>3. Len(Params(doing)) \in Nat
  BY ParamCounts DEF ParamsCounted
<1>4. appended \in 0..Len(Params(doing))
  BY <1>3 DEF CallersInit
<1> QED
  BY <1>2, <1>4, OdbcAssumption DEF CallersInit, DbInit, Typed

(* A step on a command that goes on: what the caller has counted stays.     *)
LEMMA GoesOnTyped ==
  ASSUME Typed, UNCHANGED << process, doing, appended, rows, command >>, DbTyped', outs' \in Seq(Values),
         at' \in {"new", "idle", "rows", "next", "outputs", "done", "exit"},
         at \in {"execute", "rows", "next", "outputs"} \/ at' \in {"idle", "exit"}
  PROVE  Typed'
<1>1. Params(doing)' = Params(doing)
  BY ParamsKept
<1>2. appended' \in 0..Len(Params(doing)')
  BY <1>1 DEF Typed
<1> QED
  BY <1>2 DEF Typed

(* Every step of a caller keeps the types.                                  *)
LEMMA TypedStep ==
  ASSUME Typed, [CallersNext \/ Over]_dbVars
  PROVE  Typed'
<1>0. /\ DbTyped /\ command \in 0..MaxCommands /\ command \in Nat /\ MaxCommands \in Nat
      /\ outs \in Seq(Values) /\ rows \in Seq((0..MaxCommands) \X Nat)
  BY OdbcAssumption DEF Typed
<1>1. CASE Opens
  <2>1. /\ UNCHANGED << process, doing, appended, rows, outs, command >>
        /\ at' \in {"idle", "exit"}
    BY <1>1 DEF Opens
  <2>2. DbTyped'
    <3>1. CASE Close
      BY <1>0, <2>1, <3>1, CloseTyped
    <3>2. CASE m_conn' = TRUE /\ UNCHANGED << cursor, params, called >>
      BY <1>0, <2>1, <3>2 DEF DbTyped, RowsOf, cursor, params
    <3> QED
      BY <1>1, <3>1, <3>2 DEF Opens, Open
  <2> QED
    BY <1>0, <2>1, <2>2, GoesOnTyped
<1>2. ASSUME NEW name \in Procedures \cup Queries \cup {"exec"}, Starts(name), command < MaxCommands,
             at' = (IF Params(name) = << >> THEN "execute" ELSE "append"),
             UNCHANGED << process, cursor, m_conn >>,
             m_params' \in {m_params, << >>}, m_paramsExecuted' \in {m_paramsExecuted, FALSE}
      PROVE  Typed'
  <2>1. doing' = name /\ command' = command + 1 /\ appended' = 0 /\ rows' = << >> /\ outs' = << >>
    BY <1>2 DEF Starts
  <2>2. command' \in 1..MaxCommands /\ command' > 0
    BY <1>0, <1>2, <2>1
  <2>3. m_stmt' = m_stmt /\ m_stmt' \in Statements /\ m_stmt'.of <= command' /\ m_stmt'.row <= RowsOf(m_stmt')
    <3>1. m_stmt' = m_stmt /\ m_stmt.of \in Nat
      BY <1>0, <1>2 DEF cursor, DbTyped, Statements
    <3> QED
      BY <1>0, <2>1, <3>1 DEF DbTyped
  <2>4. m_params' \in Seq(Stored)
    <3>1. m_params \in Seq(Stored) /\ << >> \in Seq(Stored)
      BY <1>0 DEF DbTyped
    <3> QED
      BY <1>2, <3>1
  <2>5. DbTyped'
    BY <1>0, <1>2, <2>3, <2>4 DEF DbTyped, cursor
  <2>6. Params(name) # << >> <=> name \in Procedures
    BY ParamCounts DEF ParamsCounted, Procedures, Queries
  <2>7. Len(Params(doing))' \in Nat /\ (Len(Params(doing))' > 0 <=> name \in Procedures)
    <3>1. ParamsCounted'
      BY ParamCounts, PTL
    <3> QED
      BY <2>1, <3>1 DEF ParamsCounted, Procedures, Queries
  <2>8. appended' \in 0..Len(Params(doing))' /\ (at' = "append" => appended' < Len(Params(doing))')
    BY <1>2, <2>1, <2>6, <2>7
  <2>9. rows' \in Seq((0..MaxCommands) \X Nat) /\ outs' \in Seq(Values)
    BY <2>1
  <2> QED
    BY <1>2, <2>1, <2>2, <2>5, <2>8, <2>9 DEF Typed
<1>3. ASSUME NEW name \in {"probe", "login", "list", "detail", "pin", "cert",
                             "select", "exec", "setup", "smoke1", "smoke2"},
             Begin(name)
      PROVE  Typed'
  <2>1. name \in Procedures \cup Queries \cup {"exec"}
    BY DEF Procedures, Queries
  <2>2. /\ Starts(name) /\ command < MaxCommands
        /\ at' = (IF Params(name) = << >> THEN "execute" ELSE "append")
        /\ process' = process
    BY <1>3 DEF Begin, MayBegin
  <2>3. /\ UNCHANGED << cursor, m_conn >>
        /\ m_params' \in {m_params, << >>} /\ m_paramsExecuted' \in {m_paramsExecuted, FALSE}
    BY <1>3 DEF Begin, ClearParams, odbc, params
  <2> QED
    BY <1>2, <2>1, <2>2, <2>3
<1>4. CASE Appends
  <2> DEFINE p == Params(doing)[appended + 1]
  <2>1. /\ at = "append" /\ UNCHANGED << process, doing, rows, outs, command, m_conn, cursor >>
        /\ appended' = appended + 1
        /\ at' = (IF appended + 1 = Len(Params(doing)) THEN "execute" ELSE "append")
        /\ m_params' = Append(IF m_paramsExecuted THEN << >> ELSE m_params, p)
        /\ m_paramsExecuted' = FALSE
    BY <1>4 DEF Appends, AppendParam
  <2>2. /\ command > 0 /\ command \in 1..MaxCommands
        /\ appended \in Nat /\ appended < Len(Params(doing)) /\ Len(Params(doing)) \in Nat
    BY <1>0, <2>1, ParamCounts DEF Typed, ParamsCounted
  <2>3. Params(doing) \in Seq(Stored)
    BY <2>2, ParamsAreTyped DEF ParamsTyped
  <2>4. p \in Stored
    BY <2>2, <2>3
  <2> HIDE DEF p
  <2>5. m_params' \in Seq(Stored)
    BY <1>0, <2>1, <2>4 DEF DbTyped
  <2>6. DbTyped'
    BY <1>0, <2>1, <2>5 DEF DbTyped, RowsOf, cursor
  <2>7. appended' \in 0..Len(Params(doing)') /\ (at' = "append" => appended' < Len(Params(doing)'))
    <3>1. Params(doing)' = Params(doing)
      BY <2>1, ParamsKept
    <3> QED
      BY <2>1, <2>2, <3>1
  <2> QED
    BY <2>1, <2>2, <2>6, <2>7 DEF Typed
<1>5. ASSUME NEW ok \in BOOLEAN, Executes(ok)
      PROVE  Typed'
  <2>1. UNCHANGED << process, doing, appended, rows, outs, command >> /\ at = "execute"
    BY <1>5 DEF Executes
  <2>2. Execute(ok) \/ ExecuteStoredProcedure(ok, Arity(doing))
    BY <1>5 DEF Executes
  <2>3. DbTyped'
    BY <1>0, <2>1, <2>2, ExecuteTyped
  <2>4. at' \in {"rows", "done", "outputs", "idle", "exit"}
    BY <1>5 DEF Executes, AfterExecute, Failed
  <2> QED
    BY <1>0, <2>1, <2>3, <2>4, GoesOnTyped
<1>6. CASE GetCollects
  <2>1. /\ UNCHANGED << process, doing, appended, outs, command, odbc >>
        /\ at = "rows" /\ at' \in {"next", "done"}
    BY <1>6 DEF GetCollects
  <2>2. PICK row \in {Unread} \cup (IF Readable THEN {CurrentRow} ELSE {}) : rows' = Append(rows, row)
    BY <1>6 DEF GetCollects
  <2>3. row \in (0..MaxCommands) \X Nat
    <3>1. m_stmt.of \in 0..MaxCommands /\ m_stmt.row \in Nat
      BY <1>0 DEF DbTyped, Statements
    <3>2. CurrentRow \in (0..MaxCommands) \X Nat /\ Unread \in (0..MaxCommands) \X Nat
      BY <1>0, <3>1 DEF CurrentRow, Unread
    <3> QED
      BY <3>2
  <2>4. rows' \in Seq((0..MaxCommands) \X Nat)
    BY <1>0, <2>2, <2>3
  <2>5. DbTyped'
    BY <1>0, <2>1 DEF DbTyped, RowsOf, odbc, cursor, params
  <2>6. appended' \in 0..Len(Params(doing)')
    <3>1. Params(doing)' = Params(doing)
      BY <2>1, ParamsKept
    <3> QED
      BY <2>1, <3>1 DEF Typed
  <2> QED
    BY <2>1, <2>4, <2>5, <2>6 DEF Typed
<1>7. CASE Moves
  <2>1. UNCHANGED << process, doing, appended, rows, outs, command >> /\ NextRow
        /\ at = "next" /\ at' \in {"rows", "outputs"}
    BY <1>7 DEF Moves
  <2>2. DbTyped'
    BY <1>0, <2>1, NextRowTyped
  <2> QED
    BY <1>0, <2>1, <2>2, GoesOnTyped
<1>8. CASE RowsEnd
  <2>1. UNCHANGED << process, doing, appended, rows, outs, command, odbc >>
        /\ at = "rows" /\ at' \in {"outputs", "done", "idle", "exit"}
    BY <1>8 DEF RowsEnd, Failed
  <2>2. DbTyped'
    BY <1>0, <2>1 DEF DbTyped, RowsOf, odbc, cursor, params
  <2> QED
    BY <1>0, <2>1, <2>2, GoesOnTyped
<1>9. CASE GetParams
  <2> DEFINE asked == Outputs(doing)[Len(outs) + 1]
  <2>1. /\ UNCHANGED << process, doing, appended, rows, command >> /\ GetParam
        /\ at = "outputs" /\ at' \in {"done", "outputs"}
        /\ outs' = Append(outs, Found(m_params', asked[1], asked[2]))
    BY <1>9 DEF GetParams
  <2>2. DbTyped'
    BY <1>0, <2>1, GetParamTyped
  <2>3. Found(m_params', asked[1], asked[2]) \in Values
    <3>1. m_params' \in Seq(Stored)
      BY <2>2 DEF DbTyped
    <3> HIDE DEF asked
    <3> QED
      BY <3>1, FoundTyped
  <2>4. outs' \in Seq(Values)
    <3> HIDE DEF asked
    <3> QED
      BY <1>0, <2>1, <2>3
  <2> QED
    BY <2>1, <2>2, <2>4, GoesOnTyped
<1>10. CASE QueriesUser
  <2>1. /\ Starts("userinfo") /\ command < MaxCommands /\ at' = "execute"
        /\ UNCHANGED << process, odbc >>
    BY <1>10 DEF QueriesUser
  <2>2. "userinfo" \in Procedures \cup Queries \cup {"exec"} /\ Params("userinfo") = << >>
    BY ParamCounts DEF Queries, ParamsCounted
  <2>3. UNCHANGED << cursor, m_conn, m_params, m_paramsExecuted >>
    BY <2>1 DEF odbc, params
  <2> QED
    BY <1>2, <2>1, <2>2, <2>3
<1>11. CASE Ends
  <2>1. UNCHANGED << process, doing, appended, rows, outs, command, odbc >> /\ at' = "idle"
    BY <1>11 DEF Ends
  <2>2. DbTyped'
    BY <1>0, <2>1 DEF DbTyped, RowsOf, odbc, cursor, params
  <2> QED
    BY <1>0, <2>1, <2>2, GoesOnTyped
<1>12. CASE Closes
  <2>1. UNCHANGED << process, doing, appended, rows, outs, command >> /\ at' = "exit" /\ Close
    BY <1>12 DEF Closes
  <2>2. DbTyped'
    BY <1>0, <2>1, CloseTyped
  <2> QED
    BY <1>0, <2>1, <2>2, GoesOnTyped
<1>13. CASE UNCHANGED dbVars
  <2>1. UNCHANGED << process, doing, at, appended, rows, outs, command, odbc >>
    BY <1>13 DEF dbVars, callerVars, local
  <2>2. DbTyped'
    BY <1>0, <2>1 DEF DbTyped, RowsOf, odbc, cursor, params
  <2>3. Params(doing)' = Params(doing)
    BY <2>1, ParamsKept
  <2> QED
    BY <2>1, <2>2, <2>3 DEF Typed
<1> QED
  BY <1>1, <1>3, <1>4, <1>5, <1>6, <1>7, <1>8, <1>9, <1>10, <1>11, <1>12, <1>13
  DEF CallersNext, HandlerNext, Over

(* The type of everything, for any number of commands, any answers and any  *)
(* result sets (odbc_db.h:112-132; the callers' handlers).                  *)
THEOREM CallersTypeCorrect == DbSpec => []CallersTypeOK
<1>1. Typed => CallersTypeOK
  <2> SUFFICES ASSUME Typed
               PROVE  CallersTypeOK
    OBVIOUS
  <2>1. /\ m_stmt \in Statements /\ m_stmt.of <= command /\ m_stmt.row <= RowsOf(m_stmt)
        /\ command \in 0..MaxCommands /\ m_params \in Seq(Stored) /\ MaxCommands \in Nat
    BY OdbcAssumption DEF Typed, DbTyped
  <2>2. /\ m_stmt.of \in 0..MaxCommands /\ m_stmt.sets \in Seq(Nat)
        /\ m_stmt.row \in 0..(IF m_stmt.sets = << >> THEN 0 ELSE Head(m_stmt.sets))
    BY <2>1 DEF Statements, RowsOf
  <2>3. m_stmt.broken \in BOOLEAN /\ m_stmt.owes \in BOOLEAN /\ m_stmt.answer \in Answers \cup {NoAnswer}
    BY <2>1 DEF Statements
  <2>4. \A i \in DOMAIN m_params : m_params[i].of \in 1..MaxCommands /\ m_params[i].value \in Codes \cup {NULL}
    <3>1. \A i \in DOMAIN m_params : m_params[i] \in Stored
      BY <2>1
    <3> QED
      BY <3>1 DEF Stored, Values
  <2>5. DbTypeOK
    BY <2>1, <2>2, <2>3, <2>4 DEF Typed, DbTyped, DbTypeOK
  <2>6. \A i \in DOMAIN rows : rows[i] \in (0..MaxCommands) \X Nat
    BY DEF Typed
  <2>7. \A i \in DOMAIN outs : outs[i] \in Codes \cup {NULL}
    BY DEF Typed, Values
  <2> QED
    BY <2>5, <2>6, <2>7 DEF Typed, CallersTypeOK
<1> QED
  BY <1>1, TypedInit, TypedStep, PTL DEF DbSpec

-----------------------------------------------------------------------------
(* The parameters of a command.                                             *)

(* All that a caller appends is of its command, and has no value yet.       *)
LEMMA ParamsAreOwn ==
  ASSUME NEW name \in Procedures
  PROVE  \A i \in DOMAIN Params(name) : Params(name)[i].of = command
<1>1. /\ \A i \in DOMAIN LoginParams : LoginParams[i].of = command
      /\ \A i \in DOMAIN ListParams : ListParams[i].of = command
      /\ \A i \in DOMAIN DetailParams : DetailParams[i].of = command
      /\ \A i \in DOMAIN PinParams : PinParams[i].of = command
  BY DEF LoginParams, ListParams, DetailParams, PinParams, In, Out, Return, Param
<1>2. /\ \A i \in DOMAIN CertParams : CertParams[i].of = command
      /\ \A i \in DOMAIN Smoke1Params : Smoke1Params[i].of = command
      /\ \A i \in DOMAIN Smoke2Params : Smoke2Params[i].of = command
  BY DEF CertParams, Smoke1Params, Smoke2Params, In, Out, Return, Param
<1>3. Params(name) \in {LoginParams, ListParams, DetailParams, PinParams, CertParams, Smoke1Params, Smoke2Params}
  BY DEF Params, Procedures
<1> QED
  BY <1>1, <1>2, <1>3

Asking == {"login", "pin", "smoke1", "smoke2"}

(* What a caller asks for is an output that it appended under that name and *)
(* no other, and that is wide enough (agent_server.cpp:107-131, 511-531;    *)
(* db_param_smoke.cpp).                                                     *)
LEMMA OutputPlaces ==
  ASSUME NEW name \in Asking, NEW m \in 1..Len(Outputs(name))
  PROVE  /\ Outputs(name)[m][2] \in Nat
         /\ \E k \in 1..Len(Params(name)) :
              /\ Params(name)[k].name = Outputs(name)[m][1]
              /\ Params(name)[k].width >= Outputs(name)[m][2]
              /\ Params(name)[k].io = IF Outputs(name)[m][1] = "RETURN_VALUE" THEN "return" ELSE "out"
              /\ \A j \in 1..Len(Params(name)) : Params(name)[j].name = Params(name)[k].name => k <= j
<1>1. CASE name = "login"
  <2>1. Params(name) = LoginParams /\ Outputs(name) = << << "RETURN_VALUE", 4 >> >> /\ m = 1
    BY <1>1 DEF Params, Outputs
  <2>2. /\ Len(LoginParams) = 7
        /\ LoginParams[1].name = "RETURN_VALUE" /\ LoginParams[1].width = 4 /\ LoginParams[1].io = "return"
    BY DEF LoginParams, Return, Param
  <2> QED
    BY <2>1, <2>2
<1>2. CASE name = "pin"
  <2>1. Params(name) = PinParams /\ Outputs(name) = << << "RETURN_VALUE", 4 >>, << "@nReturn", 4 >> >> /\ m \in 1..2
    BY <1>2 DEF Params, Outputs
  <2>2. /\ Len(PinParams) = 5
        /\ PinParams[1].name = "RETURN_VALUE" /\ PinParams[1].width = 4 /\ PinParams[1].io = "return"
        /\ PinParams[2].name = "@szDaumGID" /\ PinParams[3].name = "@szDaumPasswd" /\ PinParams[4].name = "@nCheckFlag"
        /\ PinParams[5].name = "@nReturn" /\ PinParams[5].width = 4 /\ PinParams[5].io = "out"
    BY DEF PinParams, Return, In, Out, Param
  <2>3. CASE m = 1
    BY <2>1, <2>2, <2>3
  <2>4. CASE m = 2
    <3>1. Outputs(name)[m] = << "@nReturn", 4 >>
      BY <2>1, <2>4
    <3>2. \A j \in 1..5 : PinParams[j].name = "@nReturn" => 5 <= j
      BY <2>2
    <3> QED
      BY <2>1, <2>2, <3>1, <3>2
  <2> QED
    BY <2>1, <2>3, <2>4
<1>3. CASE name = "smoke1"
  <2>1. Params(name) = Smoke1Params /\ Outputs(name) = << << "@o_int", 4 >>, << "RETURN_VALUE", 4 >> >> /\ m \in 1..2
    BY <1>3 DEF Params, Outputs
  <2>2. /\ Len(Smoke1Params) = 7
        /\ Smoke1Params[1].name = "@i_int" /\ Smoke1Params[2].name = "@i_label" /\ Smoke1Params[3].name = "@i_tiny"
        /\ Smoke1Params[4].name = "@i_small" /\ Smoke1Params[5].name = "@i_float"
        /\ Smoke1Params[6].name = "@o_int" /\ Smoke1Params[6].width = 4 /\ Smoke1Params[6].io = "out"
        /\ Smoke1Params[7].name = "RETURN_VALUE" /\ Smoke1Params[7].width = 4 /\ Smoke1Params[7].io = "return"
    BY DEF Smoke1Params, Return, In, Out, Param
  <2>3. CASE m = 1
    <3>1. Outputs(name)[m] = << "@o_int", 4 >>
      BY <2>1, <2>3
    <3>2. \A j \in 1..7 : Smoke1Params[j].name = "@o_int" => 6 <= j
      BY <2>2
    <3> QED
      BY <2>1, <2>2, <3>1, <3>2
  <2>4. CASE m = 2
    <3>1. Outputs(name)[m] = << "RETURN_VALUE", 4 >>
      BY <2>1, <2>4
    <3>2. \A j \in 1..7 : Smoke1Params[j].name = "RETURN_VALUE" => 7 <= j
      BY <2>2
    <3> QED
      BY <2>1, <2>2, <3>1, <3>2
  <2> QED
    BY <2>1, <2>3, <2>4
<1>4. CASE name = "smoke2"
  <2>1. Params(name) = Smoke2Params /\ Outputs(name) = << << "@o_big", 8 >>, << "RETURN_VALUE", 4 >> >> /\ m \in 1..2
    BY <1>4 DEF Params, Outputs
  <2>2. /\ Len(Smoke2Params) = 3
        /\ Smoke2Params[1].name = "@i_big"
        /\ Smoke2Params[2].name = "@o_big" /\ Smoke2Params[2].width = 8 /\ Smoke2Params[2].io = "out"
        /\ Smoke2Params[3].name = "RETURN_VALUE" /\ Smoke2Params[3].width = 4 /\ Smoke2Params[3].io = "return"
    BY DEF Smoke2Params, Return, In, Out, Param
  <2>3. CASE m = 1
    <3>1. Outputs(name)[m] = << "@o_big", 8 >>
      BY <2>1, <2>3
    <3>2. \A j \in 1..3 : Smoke2Params[j].name = "@o_big" => 2 <= j
      BY <2>2
    <3> QED
      BY <2>1, <2>2, <3>1, <3>2
  <2>4. CASE m = 2
    <3>1. Outputs(name)[m] = << "RETURN_VALUE", 4 >>
      BY <2>1, <2>4
    <3>2. \A j \in 1..3 : Smoke2Params[j].name = "RETURN_VALUE" => 3 <= j
      BY <2>2
    <3> QED
      BY <2>1, <2>2, <3>1, <3>2
  <2> QED
    BY <2>1, <2>3, <2>4
<1> QED
  BY <1>1, <1>2, <1>3, <1>4 DEF Asking

(* ... so that after an answer GetParam finds what this says.               *)
LEMMA OutputFound ==
  ASSUME command \in 1..MaxCommands, NEW name \in Asking, NEW m \in 1..Len(Outputs(name)),
         NEW answer \in Answers \cup {NoAnswer}
  PROVE  Found(Delivered(answer, Params(name)), Outputs(name)[m][1], Outputs(name)[m][2])
         = IF Outputs(name)[m][1] = "RETURN_VALUE" THEN answer.return ELSE answer.out
<1> DEFINE ps == Delivered(answer, Params(name))
           n  == Outputs(name)[m][1]
           w  == Outputs(name)[m][2]
<1>1. Params(name) \in Seq(Stored)
  BY ParamsAreTyped DEF ParamsTyped
<1>2. /\ ps \in Seq(Stored) /\ Len(ps) = Len(Params(name))
      /\ \A i \in 1..Len(Params(name)) :
           /\ ps[i].name = Params(name)[i].name
           /\ ps[i].width = Params(name)[i].width
           /\ Params(name)[i].io = "out" => ps[i].value = answer.out
           /\ Params(name)[i].io = "return" => ps[i].value = answer.return
  BY <1>1, DeliveredTyped
<1>3. w \in Nat
  BY OutputPlaces
<1>4. PICK k \in 1..Len(Params(name)) :
        /\ Params(name)[k].name = n
        /\ Params(name)[k].width >= w
        /\ Params(name)[k].io = IF n = "RETURN_VALUE" THEN "return" ELSE "out"
        /\ \A j \in 1..Len(Params(name)) : Params(name)[j].name = Params(name)[k].name => k <= j
  BY OutputPlaces
<1> HIDE DEF ps, n, w
<1>5. DOMAIN ps = 1..Len(Params(name))
  BY <1>2
<1>6. k \in DOMAIN ps /\ ps[k].name = n /\ ps[k].width >= w
  BY <1>2, <1>4, <1>5
<1>7. \A j \in DOMAIN ps : ps[j].name = ps[k].name => k <= j
  BY <1>2, <1>4, <1>5
<1>8. Found(ps, ps[k].name, w) = ps[k].value
  BY <1>2, <1>3, <1>6, <1>7, FoundAt
<1>9. ps[k].value = IF n = "RETURN_VALUE" THEN answer.return ELSE answer.out
  BY <1>2, <1>4
<1> QED
  BY <1>6, <1>8, <1>9 DEF ps, n, w

-----------------------------------------------------------------------------
(* The calls of a command.                                                  *)

(* Who runs what: parameters are left to the next command by servers and by *)
(* the parameter test only.                                                 *)
OwnCommands ==
  /\ doing = "exec" => process = "read_smoke"
  /\ process = "read_smoke" => m_params = << >> /\ doing \in {"select", "exec", "none"}
  /\ doing \in {"login", "list", "detail", "pin", "cert"} => doing \in Handlers(process)

(* A test, which does not clear them, has no parameters or executed ones.   *)
NothingOld ==
  at \in {"new", "idle", "rows", "next", "outputs", "done"} \/ (at = "execute" /\ doing \in Queries) =>
    Handlers(process) # {} \/ m_params = << >> \/ m_paramsExecuted

(* While a command is composed, what was appended is all there is.          *)
Composed ==
  /\ at = "append" /\ appended = 0 => m_params = << >> \/ m_paramsExecuted
  /\ at = "append" /\ appended > 0 => /\ ~m_paramsExecuted
                                      /\ Len(m_params) = appended
                                      /\ \A i \in 1..appended : m_params[i] = Params(doing)[i]
  /\ at = "execute" /\ doing \notin Queries => m_params = Params(doing)

(* Once it was executed, its parameters are still bound, and hold the       *)
(* answer unless the driver owes it; a drain leaves nothing owed, or breaks *)
(* off.                                                                     *)
Answered ==
  at \in {"rows", "next", "outputs"} /\ doing \in Procedures =>
    /\ m_params = IF m_stmt.owes THEN Params(doing) ELSE Delivered(m_stmt.answer, Params(doing))
    /\ Len(called) = Len(m_params)
    /\ m_stmt.of = command
    /\ m_resultsDrained => ~m_stmt.owes \/ m_stmt.broken

(* An answer owed is an answer, a new command has no statement of its own   *)
(* before it is executed, and outputs come last.                            *)
InStep ==
  /\ m_stmt.owes => m_stmt.answer \in Answers
  /\ at \in {"append", "execute"} => m_stmt.of < command
  /\ at \in {"append", "execute", "rows", "next"} => outs = << >>
  /\ at = "next" => doing \in ReadsAll \cup {"smoke1"}
  /\ at = "outputs" => doing \in Asking /\ Len(outs) < Len(Outputs(doing))

CallInvariant ==
  Typed /\ OwnCommands /\ NothingOld /\ Composed /\ Answered /\ InStep /\ OutputsAreTheAnswer

(* The invariant holds before the first call.                               *)
LEMMA CallsInit == CallersInit => CallInvariant
<1> SUFFICES ASSUME CallersInit
             PROVE  CallInvariant
  OBVIOUS
<1>1. Typed
  BY TypedInit
<1>2. /\ at = "new" /\ doing = "none" /\ m_params = << >> /\ m_stmt.owes = FALSE
  BY DEF CallersInit, DbInit, NoStmt
<1>3. OwnCommands /\ NothingOld /\ Composed
  BY <1>2 DEF OwnCommands, NothingOld, Composed
<1>4. Answered /\ InStep /\ OutputsAreTheAnswer
  BY <1>2 DEF Answered, InStep, OutputsAreTheAnswer
<1> QED
  BY <1>1, <1>3, <1>4 DEF CallInvariant

(* A program begins its own parts and handlers (agent_server.cpp,           *)
(* auth_server.cpp, db_smoke.cpp, db_param_smoke.cpp).                      *)
LEMMA BeginsOwn ==
  ASSUME Typed, NEW name, MayBegin(name)
  PROVE  \/ name \in Handlers(process) /\ name \in {"login", "list", "detail", "pin", "cert"}
         \/ name \in {"select", "exec"} /\ process = "read_smoke" /\ name \notin Handlers(process)
         \/ name \in {"setup", "smoke1", "smoke2"} /\ process = "param_smoke" /\ Handlers(process) = {}
         \/ name = "probe" /\ process \notin {"read_smoke", "param_smoke"} /\ name \notin Handlers(process)
<1>1. command \in Nat
  BY OdbcAssumption DEF Typed
<1>2. /\ Handlers(process) \subseteq {"login", "list", "detail", "pin", "cert"}
      /\ process \in {"read_smoke", "param_smoke"} => Handlers(process) = {}
  BY DEF Handlers
<1>3. CASE command < Len(Parts(process)) /\ name = Parts(process)[command + 1]
  <2>1. CASE process = "read_smoke"
    <3>1. Parts(process) = << "select", "exec" >>
      BY <2>1 DEF Parts
    <3> QED
      BY <1>1, <1>2, <1>3, <2>1, <3>1
  <2>2. CASE process = "param_smoke"
    <3>1. Parts(process) = << "setup", "setup", "smoke1", "smoke2" >>
      BY <2>2 DEF Parts
    <3>2. command + 1 \in 1..4
      BY <1>1, <1>3, <3>1
    <3> QED
      BY <1>2, <1>3, <2>2, <3>1, <3>2
  <2>3. CASE process \notin {"read_smoke", "param_smoke"}
    <3>1. Parts(process) = << "probe" >>
      BY <2>3 DEF Parts
    <3> QED
      BY <1>1, <1>2, <1>3, <2>3, <3>1
  <2> QED
    BY <2>1, <2>2, <2>3
<1>4. CASE name \in Handlers(process)
  BY <1>2, <1>4
<1> QED
  BY <1>3, <1>4 DEF MayBegin

(* A step that only leaves rows, or has the connection closed.              *)
LEMMA RestsCalls ==
  ASSUME CallInvariant, UNCHANGED << process, doing, command >>,
         at' \in {"idle", "exit"},
         m_params' \in {m_params, << >>}, m_stmt'.owes => m_stmt'.answer \in Answers,
         at' = "idle" => Handlers(process) # {} \/ m_params' = << >> \/ m_paramsExecuted'
  PROVE  /\ OwnCommands' /\ NothingOld' /\ Composed' /\ Answered' /\ InStep' /\ OutputsAreTheAnswer'
<1>1. OwnCommands'
  BY DEF CallInvariant, OwnCommands
<1>2. NothingOld'
  BY DEF NothingOld
<1>3. Composed' /\ Answered'
  BY DEF Composed, Answered
<1>4. InStep' /\ OutputsAreTheAnswer'
  BY DEF InStep, OutputsAreTheAnswer
<1> QED
  BY <1>1, <1>2, <1>3, <1>4

(* The beginning of a command: nothing of an older one is in its way.       *)
LEMMA StartsCalls ==
  ASSUME CallInvariant, NEW name, Begin(name) \/ (QueriesUser /\ name = "userinfo")
  PROVE  /\ OwnCommands' /\ NothingOld' /\ Composed' /\ Answered' /\ InStep' /\ OutputsAreTheAnswer'
<1>1. /\ Typed /\ OwnCommands /\ NothingOld /\ InStep /\ command \in Nat
      /\ m_stmt.of \in Nat /\ m_stmt.of <= command
  BY OdbcAssumption DEF CallInvariant, Typed, DbTyped, Statements
<1>2. /\ doing' = name /\ command' = command + 1 /\ appended' = 0 /\ outs' = << >>
      /\ process' = process /\ m_stmt' = m_stmt
      /\ at \in {"idle", "done"}
  BY DEF Begin, QueriesUser, MayBegin, Starts, ClearParams, odbc, cursor
<1>3. InStep' /\ OutputsAreTheAnswer' /\ Answered' /\ at' \in {"append", "execute"}
  <2>1. at' \in {"append", "execute"}
    BY DEF Begin, QueriesUser
  <2>2. m_stmt'.of < command'
    BY <1>1, <1>2
  <2>3. InStep'
    BY <1>1, <1>2, <2>1, <2>2 DEF InStep
  <2> QED
    BY <2>1, <2>3 DEF OutputsAreTheAnswer, Answered
<1>4. /\ Handlers(process) # {} \/ m_params = << >> \/ m_paramsExecuted
      /\ doing = "exec" => process = "read_smoke"
      /\ process = "read_smoke" => m_params = << >> /\ doing \in {"select", "exec", "none"}
  BY <1>1, <1>2 DEF NothingOld, OwnCommands
<1>5. Params("userinfo") = << >> /\ Params("select") = << >> /\ Params("exec") = << >>
      /\ Params("setup") = << >> /\ Params("probe") = << >>
      /\ \A n \in Procedures : Params(n) # << >>
      /\ {"userinfo", "select", "setup", "probe"} \subseteq Queries /\ Procedures \cap Queries = {}
      /\ "exec" \notin Queries
  BY ParamCounts DEF ParamsCounted, Queries, Procedures
<1>6. CASE name \in Handlers(process) /\ name \in {"login", "list", "detail", "pin", "cert"} /\ Begin(name)
  <2>1. m_params' = << >> /\ at' = "append" /\ process # "read_smoke"
    <3>1. name \in Procedures
      BY <1>6 DEF Procedures
    <3>2. process # "read_smoke"
      BY <1>6 DEF Handlers
    <3> QED
      BY <1>5, <1>6, <3>1, <3>2 DEF Begin, ClearParams
  <2>2. OwnCommands' /\ NothingOld'
    BY <1>2, <1>6, <2>1 DEF OwnCommands, NothingOld
  <2>3. Composed'
    BY <1>2, <2>1 DEF Composed
  <2> QED
    BY <1>3, <2>2, <2>3
<1>7. CASE /\ UNCHANGED << m_params, m_paramsExecuted >> /\ at' = (IF Params(name) = << >> THEN "execute" ELSE "append")
           /\ \/ name \in {"select", "exec"} /\ process = "read_smoke"
              \/ name \in {"setup", "smoke1", "smoke2"} /\ process = "param_smoke" /\ Handlers(process) = {}
              \/ name \in {"probe", "userinfo"} /\ process # "read_smoke"
  <2>1. OwnCommands'
    BY <1>2, <1>4, <1>7 DEF OwnCommands
  <2>2. NothingOld'
    BY <1>2, <1>4, <1>7 DEF NothingOld
  <2>3. at' = "append" => name \in {"smoke1", "smoke2"}
    BY <1>5, <1>7
  <2>4. at' = "append" /\ appended' = 0 => m_params' = << >> \/ m_paramsExecuted'
    BY <1>4, <1>7, <2>3
  <2>5. at' = "execute" /\ name \notin Queries => name = "exec"
    BY <1>5, <1>7 DEF Procedures
  <2>6. at' = "execute" /\ name \notin Queries => m_params' = Params(doing)'
    <3>1. ParamsCounted'
      BY ParamCounts, PTL
    <3>2. Params(doing)' = << >> \/ doing' # "exec"
      BY <3>1 DEF ParamsCounted
    <3> QED
      BY <1>2, <1>4, <1>7, <2>5, <3>2
  <2>7. Composed'
    BY <1>2, <2>4, <2>6 DEF Composed
  <2> QED
    BY <1>3, <2>1, <2>2, <2>7
<1>8. CASE QueriesUser /\ name = "userinfo"
  <2>1. doing = "login" /\ at' = "execute" /\ UNCHANGED << m_params, m_paramsExecuted >>
    BY <1>8 DEF QueriesUser, odbc, params
  <2>2. process # "read_smoke"
    BY <1>4, <2>1
  <2> QED
    BY <1>5, <1>7, <1>8, <2>1, <2>2
<1>9. CASE Begin(name)
  <2>1. MayBegin(name) /\ at' = (IF Params(name) = << >> THEN "execute" ELSE "append")
        /\ (name \notin Handlers(process) => UNCHANGED << m_params, m_paramsExecuted >>)
    BY <1>9 DEF Begin, odbc, params
  <2> QED
    BY <1>1, <1>6, <1>7, <1>9, <2>1, BeginsOwn
<1> QED
  BY <1>8, <1>9

(* Appending: behind what this command appended, and nothing else           *)
(* (odbc_db.cpp:161-189).                                                   *)
LEMMA AppendsCalls ==
  ASSUME CallInvariant, Appends
  PROVE  /\ OwnCommands' /\ NothingOld' /\ Composed' /\ Answered' /\ InStep' /\ OutputsAreTheAnswer'
<1> DEFINE ps   == Params(doing)
           base == IF m_paramsExecuted THEN << >> ELSE m_params
<1>1. /\ Typed /\ OwnCommands /\ Composed /\ InStep
      /\ at = "append" /\ UNCHANGED << process, doing, outs, command, m_stmt >>
      /\ appended' = appended + 1
      /\ at' = (IF appended + 1 = Len(ps) THEN "execute" ELSE "append")
      /\ m_params' = Append(base, ps[appended + 1]) /\ m_paramsExecuted' = FALSE
  BY DEF CallInvariant, Appends, AppendParam, cursor
<1>2. /\ appended \in Nat /\ appended < Len(ps) /\ Len(ps) \in Nat /\ command \in 1..MaxCommands
      /\ doing \in Procedures \cup Queries \cup {"exec", "none"} /\ m_params \in Seq(Stored)
  BY <1>1, OdbcAssumption, ParamCounts DEF Typed, DbTyped, ParamsCounted
<1>3. ps \in Seq(Stored) /\ Params(doing)' = ps
  BY <1>1, <1>2, ParamsAreTyped, ParamsKept DEF ParamsTyped
<1>4. doing \in Procedures
  <2>1. ps # << >>
    BY <1>2, ParamCounts DEF ParamsCounted
  <2> QED
    BY <1>2, <2>1, ParamCounts DEF ParamsCounted
<1> HIDE DEF ps
<1>5. doing \notin Queries /\ doing \notin {"select", "exec", "none"} /\ process # "read_smoke"
  BY <1>1, <1>4 DEF Procedures, Queries, OwnCommands
<1>6. /\ base \in Seq(Stored) /\ Len(base) = appended
      /\ \A i \in 1..appended : base[i] = ps[i]
  <2>0. << >> \in Seq(Stored) /\ Len(<< >>) = 0
    OBVIOUS
  <2>1. CASE appended = 0
    <3>1. base = << >>
      BY <1>1, <2>1 DEF Composed
    <3>2. base \in Seq(Stored) /\ Len(base) = 0
      BY <2>0, <3>1
    <3> HIDE DEF base
    <3> QED
      BY <2>1, <3>2
  <2>2. CASE appended > 0
    BY <1>1, <1>2, <2>2 DEF Composed, ps
  <2> QED
    BY <1>2, <2>1, <2>2
<1> HIDE DEF base
<1>7. ps[appended + 1] \in Stored
  BY <1>2, <1>3
<1>8. /\ m_params' \in Seq(Stored) /\ Len(m_params') = appended + 1
      /\ \A i \in 1..appended + 1 : m_params'[i] = ps[i]
  BY <1>1, <1>2, <1>6, <1>7
<1>9. Composed'
  <2>1. at' = "execute" => m_params' = ps
    <3>1. at' = "execute" => Len(m_params') = Len(ps)
      BY <1>1, <1>8
    <3> QED
      BY <1>1, <1>3, <1>8, <3>1
  <2>2. appended' > 0 /\ appended' # 0 /\ Len(m_params') = appended'
        /\ \A i \in 1..appended' : m_params'[i] = Params(doing)'[i]
    BY <1>1, <1>2, <1>3, <1>8
  <2> QED
    BY <1>1, <1>3, <2>1, <2>2 DEF Composed
<1>10. at' \in {"append", "execute"}
  BY <1>1
<1>11. OwnCommands' /\ NothingOld' /\ Answered' /\ OutputsAreTheAnswer'
  BY <1>1, <1>5, <1>10 DEF OwnCommands, NothingOld, Answered, OutputsAreTheAnswer
<1>12. InStep'
  BY <1>1, <1>10 DEF InStep
<1> QED
  BY <1>9, <1>11, <1>12

(* What asks for outputs, and what reads rows first.                        *)
LEMMA AsksFor ==
  ASSUME NEW name
  PROVE  /\ Outputs(name) # << >> => name \in Asking
         /\ name \in Asking => Len(Outputs(name)) \in {1, 2} /\ Len(Outputs(name)) > 0
<1>1. Outputs(name) # << >> => name \in Asking
  BY DEF Outputs, Asking
<1>2. CASE name = "login"
  BY <1>1, <1>2 DEF Outputs
<1>3. CASE name \in {"pin", "smoke1", "smoke2"}
  BY <1>1, <1>3 DEF Outputs
<1> QED
  BY <1>1, <1>2, <1>3 DEF Asking

(* Executing: the parameters that were appended are bound, and hold the     *)
(* answer at once if no result set comes with it (odbc_db.cpp:265-315).     *)
LEMMA ExecutesCalls ==
  ASSUME CallInvariant, Executes(TRUE)
  PROVE  /\ OwnCommands' /\ NothingOld' /\ Composed' /\ Answered' /\ InStep' /\ OutputsAreTheAnswer'
<1>1. /\ Typed /\ OwnCommands /\ Composed /\ InStep /\ NothingOld
      /\ at = "execute" /\ UNCHANGED << process, doing, outs, command, appended >>
      /\ at' = AfterExecute(doing)
      /\ (IF doing \in Queries THEN Execute(TRUE) ELSE ExecuteStoredProcedure(TRUE, Arity(doing)))
  BY DEF CallInvariant, Executes
<1>2. /\ outs' = << >> /\ at' \in {"rows", "outputs", "done"}
      /\ at' = "outputs" => doing \in Asking
  BY <1>1, AsksFor DEF AfterExecute, InStep
<1>3. Composed' /\ OutputsAreTheAnswer'
  BY <1>2 DEF Composed, OutputsAreTheAnswer
<1>4. at' = "outputs" => doing' \in Asking /\ Len(outs') < Len(Outputs(doing'))
  <2>1. Len(outs') = 0
    BY <1>2
  <2> QED
    BY <1>1, <1>2, <2>1, AsksFor
<1>5. CASE Execute(TRUE) /\ doing \notin Procedures
  <2>1. UNCHANGED << m_params, m_paramsExecuted >>
    BY <1>5 DEF Execute, params
  <2>2. m_stmt'.owes = FALSE
    <3>1. PICK sets \in ResultSets : fetchRow(Stmt(sets, FALSE, NoAnswer))
      BY <1>5 DEF Execute
    <3> QED
      BY <3>1 DEF fetchRow, Stmt
  <2>3. OwnCommands' /\ Answered'
    BY <1>1, <1>5, <2>1 DEF OwnCommands, Answered
  <2>4. NothingOld'
    <3>1. CASE doing \in Queries
      BY <1>1, <2>1, <3>1 DEF NothingOld
    <3>2. CASE doing \notin Queries
      <4>1. m_params = << >>
        BY <1>1, <1>5, <3>2, ParamCounts DEF Composed, Typed, ParamsCounted
      <4> QED
        BY <2>1, <4>1 DEF NothingOld
    <3> QED
      BY <3>1, <3>2
  <2>5. InStep'
    BY <1>2, <1>4, <2>2 DEF InStep
  <2> QED
    BY <1>3, <2>3, <2>4, <2>5
<1>6. CASE execCall(TRUE, Arity(doing)) /\ doing \in Procedures
  <2>0. doing \notin Queries /\ m_params = Params(doing) /\ command \in Nat
        /\ m_params \in Seq(Stored) /\ process # "read_smoke"
    BY <1>1, <1>6, OdbcAssumption DEF Composed, Procedures, Queries, OwnCommands, Typed, DbTyped
  <2>1. PICK sets \in ResultSets, answer \in Answers :
          /\ fetchRow(Stmt(sets, sets # << >>, answer))
          /\ m_params' = IF Stmt(sets, sets # << >>, answer).owes THEN m_params ELSE Delivered(answer, m_params)
    BY <1>6 DEF execCall
  <2> DEFINE owes == sets # << >>
             s    == Stmt(sets, owes, answer)
  <2>2. /\ s.of = command /\ s.owes = owes /\ s.answer = answer /\ s \in Statements
    <3>1. sets \in Seq(Nat) /\ owes \in BOOLEAN /\ answer \in Answers \cup {NoAnswer}
      BY OdbcAssumption
    <3> HIDE DEF owes
    <3> QED
      BY <2>0, <3>1, StmtTyped
  <2>3. m_stmt'.of = command /\ m_stmt'.owes = owes /\ m_stmt'.answer = answer
    <3>1. fetchRow(s)
      BY <2>1
    <3> HIDE DEF s
    <3> QED
      BY <2>2, <3>1, Zenon DEF fetchRow, Statements
  <2>4. m_params' = IF owes THEN m_params ELSE Delivered(answer, m_params)
    <3>1. m_params' = IF s.owes THEN m_params ELSE Delivered(answer, m_params)
      BY <2>1
    <3> HIDE DEF s
    <3> QED
      BY <2>2, <3>1
  <2> HIDE DEF owes
  <2>5. m_paramsExecuted' = TRUE /\ m_resultsDrained' = FALSE /\ called' = Bound
    BY <1>6 DEF execCall
  <2>6. Len(Bound) = Len(m_params) /\ Len(m_params') = Len(m_params)
    <3>1. Len(Bound) = Len(m_params)
      BY <2>0 DEF Bound
    <3> QED
      BY <2>0, <2>4, <3>1, DeliveredTyped
  <2>7. Params(doing)' = Params(doing)
    BY <1>1, ParamsKept
  <2>8. Answered'
    <3>1. m_params' = IF m_stmt'.owes THEN Params(doing)' ELSE Delivered(m_stmt'.answer, Params(doing)')
      BY <2>0, <2>3, <2>4, <2>7
    <3> QED
      BY <1>1, <2>3, <2>5, <2>6, <3>1 DEF Answered
  <2>9. OwnCommands' /\ NothingOld'
    BY <1>1, <2>0, <2>5 DEF OwnCommands, NothingOld
  <2>10. InStep'
    BY <1>2, <1>4, <2>3 DEF InStep
  <2> QED
    BY <1>3, <2>8, <2>9, <2>10
<1>7. doing \notin Queries => m_params = Params(doing)
  BY <1>1 DEF Composed
<1>8. /\ doing \in Procedures => doing \notin Queries /\ Params(doing) # << >>
      /\ doing \notin Procedures => Params(doing) = << >>
  BY <1>1, ParamCounts DEF ParamsCounted, Procedures, Queries, Typed
<1> QED
  BY <1>1, <1>5, <1>6, <1>7, <1>8 DEF ExecuteStoredProcedure

(* Asking for an output drains first, and then finds the answer unless the  *)
(* drain broke off (odbc_db.cpp:317-358).                                   *)
LEMMA GetParamsCalls ==
  ASSUME CallInvariant, GetParams
  PROVE  /\ OwnCommands' /\ NothingOld' /\ Composed' /\ Answered' /\ InStep' /\ OutputsAreTheAnswer'
<1> DEFINE ps    == Params(doing)
           ans   == m_stmt.answer
           asked == Outputs(doing)[Len(outs) + 1]
<1>1. /\ Typed /\ DbTyped /\ OwnCommands /\ NothingOld /\ Answered /\ InStep /\ OutputsAreTheAnswer
      /\ at = "outputs" /\ UNCHANGED << process, doing, command, appended, called, m_paramsExecuted >>
      /\ outs' = Append(outs, Found(m_params', asked[1], asked[2]))
      /\ at' = IF Enough(outs') THEN "done" ELSE "outputs"
      /\ GetParam
  BY DEF CallInvariant, Typed, GetParams, GetParam
<1>2. /\ doing \in Asking /\ doing \in Procedures /\ Len(outs) < Len(Outputs(doing))
      /\ process # "read_smoke" /\ outs \in Seq(Values)
  BY <1>1 DEF InStep, Asking, Procedures, OwnCommands, Typed
<1>3. /\ command \in 1..MaxCommands /\ ans \in Answers \cup {NoAnswer} /\ m_params \in Seq(Stored)
      /\ m_stmt.owes \in BOOLEAN
  BY <1>1, OdbcAssumption DEF Typed, DbTyped, Statements
<1>4. /\ m_params = IF m_stmt.owes THEN ps ELSE Delivered(ans, ps)
      /\ Len(called) = Len(m_params) /\ m_stmt.of = command
      /\ m_resultsDrained => ~m_stmt.owes \/ m_stmt.broken
  BY <1>1, <1>2 DEF Answered
<1>5. /\ m_stmt'.of = m_stmt.of /\ m_stmt'.answer = ans
      /\ \/ UNCHANGED << m_stmt, m_params, m_resultsDrained >> /\ m_resultsDrained
         \/ /\ m_stmt'.broken = m_stmt.broken /\ m_stmt'.owes = FALSE
            /\ m_params' = IF m_stmt.owes THEN Delivered(ans, m_params) ELSE m_params
         \/ m_stmt'.broken = TRUE /\ m_stmt'.owes = m_stmt.owes /\ m_params' = m_params
  BY <1>1, GetParamTyped
<1>6. /\ ps \in Seq(Stored) /\ ps # << >> /\ Params(doing)' = ps
      /\ Delivered(ans, ps) \in Seq(Stored) /\ Len(Delivered(ans, ps)) = Len(ps)
  BY <1>1, <1>2, <1>3, ParamsAreTyped, ParamsKept, ParamCounts, DeliveredTyped DEF ParamsTyped, ParamsCounted
<1> HIDE DEF ps, ans
<1>7. /\ m_params' = IF m_stmt'.owes THEN ps ELSE Delivered(ans, ps)
      /\ Len(m_params') = Len(m_params)
  <2>1. CASE UNCHANGED << m_stmt, m_params, m_resultsDrained >>
    BY <1>4, <2>1
  <2>2. CASE /\ m_stmt'.broken = m_stmt.broken /\ m_stmt'.owes = FALSE
             /\ m_params' = IF m_stmt.owes THEN Delivered(ans, m_params) ELSE m_params
    BY <1>4, <1>6, <2>2
  <2>3. CASE m_stmt'.broken = TRUE /\ m_stmt'.owes = m_stmt.owes /\ m_params' = m_params
    BY <1>4, <2>3
  <2> QED
    BY <1>5, <2>1, <2>2, <2>3
<1>8. ~m_stmt'.broken => ~m_stmt.broken /\ ~m_stmt'.owes
  BY <1>4, <1>5
<1>9. ~m_stmt'.owes \/ m_stmt'.broken
  BY <1>4, <1>5
<1>10. Answered'
  <2>1. m_params' = IF m_stmt'.owes THEN Params(doing)' ELSE Delivered(m_stmt'.answer, Params(doing)')
    BY <1>5, <1>6, <1>7
  <2> QED
    BY <1>1, <1>4, <1>5, <1>7, <1>9, <2>1 DEF Answered
<1>11. OwnCommands' /\ NothingOld' /\ Composed'
  <2>1. m_params # << >>
    <3>1. Delivered(ans, ps) # << >>
      BY <1>6
    <3> QED
      BY <1>4, <1>6, <3>1
  <2>2. Handlers(process) # {} \/ m_paramsExecuted
    BY <1>1, <2>1 DEF NothingOld
  <2>3. at' \in {"outputs", "done"}
    BY <1>1
  <2> HIDE DEF asked
  <2> QED
    BY <1>1, <1>2, <2>2, <2>3 DEF OwnCommands, NothingOld, Composed
<1>12. OutputsAreTheAnswer'
  <2> SUFFICES ASSUME ~m_stmt'.broken, NEW i \in DOMAIN outs'
               PROVE  outs'[i] = IF Outputs(doing)[i][1] = "RETURN_VALUE" THEN m_stmt'.answer.return
                                 ELSE m_stmt'.answer.out
    BY <1>1 DEF OutputsAreTheAnswer
  <2>1. ~m_stmt.broken /\ m_params' = Delivered(ans, ps)
    BY <1>7, <1>8
  <2> DEFINE v == Found(m_params', asked[1], asked[2])
  <2>2. outs' = Append(outs, v) /\ Len(outs) \in Nat
    BY <1>1, <1>2
  <2>3. CASE i = Len(outs) + 1
    <3>1. i \in 1..Len(Outputs(doing))
      BY <1>2, <2>2, <2>3, AsksFor
    <3>2. Found(Delivered(ans, ps), Outputs(doing)[i][1], Outputs(doing)[i][2])
          = IF Outputs(doing)[i][1] = "RETURN_VALUE" THEN ans.return ELSE ans.out
      BY <1>2, <1>3, <3>1, OutputFound DEF ps
    <3>3. v = IF Outputs(doing)[i][1] = "RETURN_VALUE" THEN ans.return ELSE ans.out
      BY <2>1, <2>3, <3>2
    <3> HIDE DEF v
    <3>4. outs'[i] = v
      BY <1>2, <2>2, <2>3
    <3> QED
      BY <1>5, <3>3, <3>4
  <2>4. CASE i # Len(outs) + 1
    <3> HIDE DEF v
    <3>1. i \in DOMAIN outs /\ outs'[i] = outs[i]
      BY <1>2, <2>2, <2>4
    <3>2. outs[i] = IF Outputs(doing)[i][1] = "RETURN_VALUE" THEN ans.return ELSE ans.out
      BY <1>1, <2>1, <3>1 DEF OutputsAreTheAnswer, ans
    <3> QED
      BY <1>5, <3>1, <3>2
  <2> QED
    BY <2>3, <2>4
<1>13. InStep'
  <2>1. Len(outs') = Len(outs) + 1 /\ Len(outs) \in Nat
    BY <1>1, <1>2
  <2>2. at' = "outputs" => Len(outs') # Len(Outputs(doing))
    BY <1>1 DEF Enough
  <2>3. at' = "outputs" => Len(outs') < Len(Outputs(doing))
    BY <1>2, <2>1, <2>2, AsksFor
  <2>4. m_stmt'.owes => m_stmt'.answer \in Answers
    BY <1>1, <1>5 DEF InStep, ans
  <2>5. at' \in {"outputs", "done"}
    BY <1>1
  <2> HIDE DEF asked
  <2> QED
    BY <1>1, <1>2, <2>3, <2>4, <2>5 DEF InStep
<1> QED
  BY <1>10, <1>11, <1>12, <1>13

(* Reading rows says nothing of the parameters (agent_server.cpp:442-505).  *)
LEMMA RowsCalls ==
  ASSUME CallInvariant, GetCollects \/ Moves \/ (RowsEnd /\ at' \in {"outputs", "done"})
  PROVE  /\ OwnCommands' /\ NothingOld' /\ Composed' /\ Answered' /\ InStep' /\ OutputsAreTheAnswer'
<1>1. /\ Typed /\ DbTyped /\ OwnCommands /\ NothingOld /\ Answered /\ InStep
      /\ at \in {"rows", "next"}
      /\ UNCHANGED << process, doing, command, outs, called, m_params, m_paramsExecuted, m_resultsDrained >>
  BY DEF CallInvariant, Typed, GetCollects, Moves, RowsEnd, NextRow, odbc, cursor, params
<1>2. /\ m_stmt'.of = m_stmt.of /\ m_stmt'.owes = m_stmt.owes /\ m_stmt'.answer = m_stmt.answer
      /\ m_stmt.broken => m_stmt'.broken
  <2>1. CASE Moves
    <3>1. NextRow
      BY <2>1 DEF Moves
    <3> QED
      BY <1>1, <3>1, NextRowTyped
  <2>2. CASE GetCollects \/ RowsEnd
    BY <2>2 DEF GetCollects, RowsEnd, odbc, cursor
  <2> QED
    BY <2>1, <2>2
<1>3. /\ at' \in {"rows", "next", "outputs", "done"}
      /\ at' = "next" => doing \in ReadsAll \cup {"smoke1"}
      /\ at' = "outputs" => doing = "smoke1"
  BY <1>1 DEF GetCollects, Moves, RowsEnd, InStep, Failed
<1>4. outs = << >> /\ (at' = "outputs" => doing \in Asking /\ Len(outs) < Len(Outputs(doing)))
  <2>1. outs = << >> /\ Len(outs) = 0
    BY <1>1 DEF InStep
  <2>2. "smoke1" \in Asking
    BY DEF Asking
  <2> QED
    BY <1>3, <2>1, <2>2, AsksFor
<1>5. InStep' /\ OutputsAreTheAnswer'
  BY <1>1, <1>2, <1>3, <1>4 DEF InStep, OutputsAreTheAnswer
<1>6. Params(doing)' = Params(doing)
  BY <1>1, ParamsKept
<1>7. Answered'
  BY <1>1, <1>2, <1>6 DEF Answered
<1>8. OwnCommands' /\ NothingOld' /\ Composed'
  BY <1>1, <1>3 DEF OwnCommands, NothingOld, Composed
<1> QED
  BY <1>5, <1>7, <1>8

(* The answer of a call that failed is none; no other is owed.              *)
LEMMA FailsOwesNothing ==
  ASSUME CallInvariant, Executes(FALSE)
  PROVE  /\ m_stmt'.owes => m_stmt'.answer \in Answers
         /\ UNCHANGED << m_params, m_paramsExecuted >>
<1>1. Fails /\ UNCHANGED params
  BY DEF Executes, Execute, ExecuteStoredProcedure, execCall
<1>2. CASE m_conn
  <2>1. m_stmt' = NoStmt \/ m_stmt' = Stmt(<< >>, FALSE, NoAnswer)
    BY <1>1, <1>2 DEF Fails
  <2>2. ~NoStmt.owes /\ ~Stmt(<< >>, FALSE, NoAnswer).owes
    BY DEF NoStmt, Stmt
  <2> QED
    BY <1>1, <2>1, <2>2, Zenon DEF params
<1>3. CASE ~m_conn
  <2>1. m_stmt' = m_stmt
    BY <1>1, <1>3 DEF Fails, cursor
  <2> QED
    BY <1>1, <2>1 DEF params, CallInvariant, InStep
<1> QED
  BY <1>2, <1>3

(* Every step of a caller keeps the invariant.                              *)
LEMMA CallsStep ==
  ASSUME CallInvariant, [CallersNext \/ Over]_dbVars
  PROVE  CallInvariant'
<1> DEFINE P == OwnCommands /\ NothingOld /\ Composed /\ Answered /\ InStep /\ OutputsAreTheAnswer
<1>0. Typed' /\ Typed /\ NothingOld
  BY TypedStep DEF CallInvariant
<1>1. CASE Opens \/ Closes
  <2>1. /\ UNCHANGED << process, doing, command >> /\ at' \in {"idle", "exit"} /\ (at' = "idle" => UNCHANGED << m_params, m_paramsExecuted >>)
        /\ at \in {"new", "idle"}
        /\ \/ Close
           \/ UNCHANGED << m_stmt, m_params, m_paramsExecuted >>
    BY <1>1 DEF Opens, Open, Closes, odbc, cursor, params
  <2>2. m_params' \in {m_params, << >>} /\ (m_stmt'.owes => m_stmt'.answer \in Answers)
    BY <2>1 DEF Close, freeStmt, NoStmt, CallInvariant, InStep
  <2>3. at' = "idle" => Handlers(process) # {} \/ m_params' = << >> \/ m_paramsExecuted'
    BY <1>0, <2>1 DEF NothingOld, Close
  <2>4. P'
    BY <2>1, <2>2, <2>3, RestsCalls
  <2> QED
    BY <1>0, <2>4 DEF CallInvariant
<1>2. ASSUME NEW name, Begin(name)
      PROVE  CallInvariant'
  <2>1. P'
    BY <1>2, StartsCalls
  <2> QED
    BY <1>0, <2>1 DEF CallInvariant
<1>3. CASE QueriesUser
  <2>1. P'
    BY <1>3, StartsCalls
  <2> QED
    BY <1>0, <2>1 DEF CallInvariant
<1>4. CASE Appends
  <2>1. P'
    BY <1>4, AppendsCalls
  <2> QED
    BY <1>0, <2>1 DEF CallInvariant
<1>5. CASE Executes(TRUE)
  <2>1. P'
    BY <1>5, ExecutesCalls
  <2> QED
    BY <1>0, <2>1 DEF CallInvariant
<1>6. CASE Executes(FALSE)
  <2>1. /\ UNCHANGED << process, doing, command >> /\ at = "execute"
        /\ at' = (IF doing \in Handlers(process) \cup {"userinfo"} THEN "idle" ELSE "exit")
    BY <1>6 DEF Executes, Failed
  <2>2. (m_stmt'.owes => m_stmt'.answer \in Answers) /\ UNCHANGED << m_params, m_paramsExecuted >>
    BY <1>6, FailsOwesNothing
  <2>3. at' = "idle" => Handlers(process) # {} \/ m_params' = << >> \/ m_paramsExecuted'
    BY <1>0, <2>1, <2>2 DEF NothingOld, Queries
  <2>4. P'
    BY <2>1, <2>2, <2>3, RestsCalls
  <2> QED
    BY <1>0, <2>4 DEF CallInvariant
<1>7. CASE GetCollects \/ Moves \/ (RowsEnd /\ at' \in {"outputs", "done"})
  <2>1. P'
    BY <1>7, RowsCalls
  <2> QED
    BY <1>0, <2>1 DEF CallInvariant
<1>8. CASE Ends \/ (RowsEnd /\ at' \notin {"outputs", "done"})
  <2>1. /\ UNCHANGED << process, doing, command, odbc >> /\ at \in {"rows", "done"} /\ at' \in {"idle", "exit"}
    BY <1>8 DEF Ends, RowsEnd, Failed
  <2>2. UNCHANGED << m_stmt, m_params, m_paramsExecuted >>
    BY <2>1 DEF odbc, cursor, params
  <2>3. P'
    BY <1>0, <2>1, <2>2, RestsCalls DEF NothingOld, CallInvariant, InStep
  <2> QED
    BY <1>0, <2>3 DEF CallInvariant
<1>9. CASE GetParams
  <2>1. P'
    BY <1>9, GetParamsCalls
  <2> QED
    BY <1>0, <2>1 DEF CallInvariant
<1>10. CASE UNCHANGED dbVars
  <2>1. UNCHANGED << process, doing, at, appended, outs, command, called, m_stmt, m_params, m_paramsExecuted, m_resultsDrained >>
    BY <1>10 DEF dbVars, callerVars, local, odbc, cursor, params
  <2>2. Params(doing)' = Params(doing)
    BY <2>1, ParamsKept
  <2>3. OwnCommands' /\ NothingOld' /\ InStep' /\ OutputsAreTheAnswer'
    BY <2>1 DEF CallInvariant, OwnCommands, NothingOld, InStep, OutputsAreTheAnswer
  <2>4. Composed' /\ Answered'
    BY <2>1, <2>2 DEF CallInvariant, Composed, Answered
  <2> QED
    BY <1>0, <2>3, <2>4 DEF CallInvariant
<1> QED
  BY <1>1, <1>2, <1>3, <1>4, <1>5, <1>6, <1>7, <1>8, <1>9, <1>10 DEF CallersNext, HandlerNext, Over

(* Everything that the theorems about parameters rest on.                   *)
THEOREM CallInvariantHolds == DbSpec => []CallInvariant
BY CallsInit, CallsStep, PTL DEF DbSpec

(* Whatever result sets come with an answer, and whatever was read of them, *)
(* an output parameter reads as the answer of the procedure that was called *)
(* last, unless the drain broke off (odbc_db.cpp:312-358).                  *)
THEOREM OutputsAreTheAnswerCorrect == DbSpec => []OutputsAreTheAnswer
<1>1. CallInvariant => OutputsAreTheAnswer
  BY DEF CallInvariant
<1> QED
  BY <1>1, CallInvariantHolds, PTL

-----------------------------------------------------------------------------
(* The order of binding.                                                    *)

(* One return value goes to the front and the parameters before it move     *)
(* back by one (odbc_db.cpp:292-303).                                       *)
LEMMA PlaceOf ==
  ASSUME m_params \in Seq(Stored), NEW r \in 1..Len(m_params), Returns = {r}, NEW i \in 1..Len(m_params)
  PROVE  Place(i) = IF i = r THEN 1 ELSE IF i < r THEN i + 1 ELSE i
<1> DEFINE B == {j \in DOMAIN m_params : BindsBefore(j, i)}
<1>1. DOMAIN m_params = 1..Len(m_params) /\ Len(m_params) \in Nat /\ r \in Nat /\ i \in Nat
  OBVIOUS
<1>2. CASE i = r
  <2>1. B = {}
    BY <1>1, <1>2 DEF BindsBefore
  <2>2. Place(i) = 1 + Cardinality(B)
    BY DEF Place
  <2> HIDE DEF B
  <2> QED
    BY <1>2, <2>1, <2>2, FS_EmptySet
<1>3. /\ IsFiniteSet(1..i - 1) /\ Cardinality(1..i - 1) = i - 1
  <2>1. 1 \in Int /\ i - 1 \in Int /\ (1 > i - 1 => i - 1 = 0) /\ (i - 1) - 1 + 1 = i - 1
    BY <1>1
  <2> QED
    BY <2>1, FS_Interval
<1>4. CASE i # r
  <2>1. B = (1..i - 1) \cup {r}
    BY <1>1, <1>4 DEF BindsBefore
  <2>2. Cardinality(B) = IF r \in 1..i - 1 THEN i - 1 ELSE i
    <3>1. Cardinality(B) = IF r \in 1..i - 1 THEN i - 1 ELSE (i - 1) + 1
      BY <1>3, <2>1, FS_AddElement
    <3> QED
      BY <1>1, <3>1
  <2>3. r \in 1..i - 1 <=> ~(i < r)
    BY <1>1, <1>4
  <2>4. Place(i) = 1 + Cardinality(B)
    BY DEF Place
  <2> HIDE DEF B
  <2> QED
    BY <1>1, <1>4, <2>2, <2>3, <2>4
<1> QED
  BY <1>2, <1>4

(* Without a return value parameters are bound in the order of appending.   *)
LEMMA PlaceWithout ==
  ASSUME m_params \in Seq(Stored), Returns = {}, NEW i \in 1..Len(m_params)
  PROVE  Place(i) = i
<1> DEFINE B == {j \in DOMAIN m_params : BindsBefore(j, i)}
<1>1. DOMAIN m_params = 1..Len(m_params) /\ Len(m_params) \in Nat /\ i \in Nat
  OBVIOUS
<1>2. B = 1..i - 1
  BY <1>1 DEF BindsBefore
<1>3. /\ IsFiniteSet(1..i - 1) /\ Cardinality(1..i - 1) = i - 1
  <2>1. 1 \in Int /\ i - 1 \in Int /\ (1 > i - 1 => i - 1 = 0) /\ (i - 1) - 1 + 1 = i - 1
    BY <1>1
  <2> QED
    BY <2>1, FS_Interval
<1>4. Place(i) = 1 + Cardinality(B)
  BY DEF Place
<1> HIDE DEF B
<1> QED
  BY <1>1, <1>2, <1>3, <1>4

(* ... so that this is what is bound.                                       *)
LEMMA BoundInOrder ==
  ASSUME m_params \in Seq(Stored), NEW r \in 0..Len(m_params), Returns = IF r = 0 THEN {} ELSE {r}
  PROVE  Bound = [n \in 1..Len(m_params) |-> m_params[IF n = 1 /\ r > 0 THEN r ELSE IF n <= r THEN n - 1 ELSE n]]
<1>1. DOMAIN m_params = 1..Len(m_params) /\ Len(m_params) \in Nat /\ r \in Nat
  OBVIOUS
<1> DEFINE from(n) == IF n = 1 /\ r > 0 THEN r ELSE IF n <= r THEN n - 1 ELSE n
<1>2. \A i \in 1..Len(m_params) :
        Place(i) = IF r = 0 THEN i ELSE IF i = r THEN 1 ELSE IF i < r THEN i + 1 ELSE i
  BY <1>1, PlaceOf, PlaceWithout
<1>3. ASSUME NEW n \in 1..Len(m_params)
      PROVE  BoundAt(n) = from(n)
  <2>1. from(n) \in 1..Len(m_params)
    BY <1>1
  <2>2. Place(from(n)) = n
    BY <1>1, <1>2, <2>1
  <2>3. \A i \in 1..Len(m_params) : Place(i) = n => i = from(n)
    BY <1>1, <1>2
  <2> HIDE DEF from
  <2> QED
    BY <1>1, <2>1, <2>2, <2>3 DEF BoundAt
<1> HIDE DEF from
<1>4. Bound = [n \in 1..Len(m_params) |-> m_params[from(n)]]
  BY <1>1, <1>3 DEF Bound
<1> QED
  BY <1>4 DEF from

(* Bound is what a procedure declares, for each of the callers.             *)
LEMMA BoundAsDeclared ==
  ASSUME command \in 1..MaxCommands, NEW name \in Procedures, m_params = Params(name)
  PROVE  [i \in DOMAIN Bound |-> Bound[i].name] = Signature(name)
<1>1. Params(name) \in Seq(Stored) /\ m_params \in Seq(Stored) /\ Len(m_params) \in Nat
  BY ParamsAreTyped DEF ParamsTyped
<1>2. ASSUME NEW r \in {0, 1}, Returns = IF r = 0 THEN {} ELSE {r}, r <= Len(m_params), name \notin {"smoke1", "smoke2"}
      PROVE  [i \in DOMAIN Bound |-> Bound[i].name] = Signature(name)
  <2>1. r \in 0..Len(m_params)
    BY <1>1, <1>2
  <2>2. Bound = [n \in 1..Len(m_params) |-> m_params[IF n = 1 /\ r > 0 THEN r ELSE IF n <= r THEN n - 1 ELSE n]]
    BY <1>1, <1>2, <2>1, BoundInOrder
  <2>3. \A n \in 1..Len(m_params) : (IF n = 1 /\ r > 0 THEN r ELSE IF n <= r THEN n - 1 ELSE n) = n
    BY <1>1, <1>2
  <2>4. Bound = [n \in 1..Len(m_params) |-> m_params[n]]
    BY <2>2, <2>3
  <2>5. DOMAIN Bound = DOMAIN Params(name) /\ \A n \in DOMAIN Params(name) : Bound[n] = Params(name)[n]
    BY <1>1, <2>4
  <2>6. [i \in DOMAIN Bound |-> Bound[i].name] = [i \in DOMAIN Params(name) |-> Params(name)[i].name]
    BY <2>5
  <2>7. Signature(name) = [i \in DOMAIN Params(name) |-> Params(name)[i].name]
    BY <1>2 DEF Signature
  <2> QED
    BY <2>6, <2>7
<1>3. CASE name \in {"list", "detail", "cert"}
  <2>1. Params(name) \in {ListParams, DetailParams, CertParams}
    BY <1>3 DEF Params
  <2>2. \A ps \in {ListParams, DetailParams, CertParams} : \A i \in DOMAIN ps : ps[i].io # "return"
    BY DEF ListParams, DetailParams, CertParams, In, Param
  <2>3. Returns = {}
    BY <2>1, <2>2 DEF Returns
  <2> QED
    BY <1>1, <1>2, <1>3, <2>3
<1>4. CASE name \in {"login", "pin"}
  <2>1. Params(name) \in {LoginParams, PinParams}
    BY <1>4 DEF Params
  <2>2. /\ DOMAIN LoginParams = 1..7 /\ Len(LoginParams) = 7
        /\ \A i \in 1..7 : LoginParams[i].io = "return" <=> i = 1
    BY DEF LoginParams, Return, In, Out, Param
  <2>3. /\ DOMAIN PinParams = 1..5 /\ Len(PinParams) = 5
        /\ \A i \in 1..5 : PinParams[i].io = "return" <=> i = 1
    BY DEF PinParams, Return, In, Out, Param
  <2>4. Returns = {1} /\ 1 <= Len(m_params)
    <3>1. CASE m_params = LoginParams
      <4>1. 1 \in 1..7 /\ Len(m_params) = 7
        BY <2>2, <3>1
      <4>2. Returns = {i \in 1..7 : i = 1}
        BY <2>2, <3>1 DEF Returns
      <4> QED
        BY <4>1, <4>2
    <3>2. CASE m_params = PinParams
      <4>1. 1 \in 1..5 /\ Len(m_params) = 5
        BY <2>3, <3>2
      <4>2. Returns = {i \in 1..5 : i = 1}
        BY <2>3, <3>2 DEF Returns
      <4> QED
        BY <4>1, <4>2
    <3> QED
      BY <2>1, <3>1, <3>2
  <2> QED
    BY <1>1, <1>2, <1>4, <2>4
<1>5. CASE name = "smoke1"
  <2>1. m_params = Smoke1Params /\ Signature(name) = << "RETURN_VALUE", "@i_int", "@i_label", "@i_tiny", "@i_small", "@i_float", "@o_int" >>
    BY <1>5 DEF Params, Signature
  <2>2. /\ Len(Smoke1Params) = 7 /\ DOMAIN Smoke1Params = 1..7
        /\ Smoke1Params[1].name = "@i_int" /\ Smoke1Params[2].name = "@i_label" /\ Smoke1Params[3].name = "@i_tiny"
        /\ Smoke1Params[4].name = "@i_small" /\ Smoke1Params[5].name = "@i_float" /\ Smoke1Params[6].name = "@o_int"
        /\ Smoke1Params[7].name = "RETURN_VALUE"
        /\ \A i \in 1..7 : Smoke1Params[i].io = "return" <=> i = 7
    BY DEF Smoke1Params, Return, In, Out, Param
  <2>3. Returns = {7} /\ 7 \in 0..Len(m_params)
    BY <2>1, <2>2 DEF Returns
  <2>4. Bound = [n \in 1..Len(m_params) |-> m_params[IF n = 1 /\ 7 > 0 THEN 7 ELSE IF n <= 7 THEN n - 1 ELSE n]]
    BY <1>1, <2>3, BoundInOrder
  <2>5. /\ DOMAIN Bound = 1..7 /\ Bound[1] = m_params[7] /\ Bound[2] = m_params[1] /\ Bound[3] = m_params[2]
        /\ Bound[4] = m_params[3] /\ Bound[5] = m_params[4] /\ Bound[6] = m_params[5] /\ Bound[7] = m_params[6]
    <3>1. Len(m_params) = 7
      BY <2>1, <2>2
    <3>2. DOMAIN Bound = 1..7 /\ \A n \in 1..7 : Bound[n] = m_params[IF n = 1 THEN 7 ELSE n - 1]
      BY <2>4, <3>1
    <3> QED
      BY <3>2
  <2> QED
    BY <2>1, <2>2, <2>5
<1>6. CASE name = "smoke2"
  <2>1. m_params = Smoke2Params /\ Signature(name) = << "RETURN_VALUE", "@i_big", "@o_big" >>
    BY <1>6 DEF Params, Signature
  <2>2. /\ Len(Smoke2Params) = 3 /\ DOMAIN Smoke2Params = 1..3
        /\ Smoke2Params[1].name = "@i_big" /\ Smoke2Params[2].name = "@o_big" /\ Smoke2Params[3].name = "RETURN_VALUE"
        /\ \A i \in 1..3 : Smoke2Params[i].io = "return" <=> i = 3
    BY DEF Smoke2Params, Return, In, Out, Param
  <2>3. Returns = {3} /\ 3 \in 0..Len(m_params)
    BY <2>1, <2>2 DEF Returns
  <2>4. Bound = [n \in 1..Len(m_params) |-> m_params[IF n = 1 /\ 3 > 0 THEN 3 ELSE IF n <= 3 THEN n - 1 ELSE n]]
    BY <1>1, <2>3, BoundInOrder
  <2>5. DOMAIN Bound = 1..3 /\ Bound[1] = m_params[3] /\ Bound[2] = m_params[1] /\ Bound[3] = m_params[2]
    <3>1. Len(m_params) = 3
      BY <2>1, <2>2
    <3>2. DOMAIN Bound = 1..3 /\ \A n \in 1..3 : Bound[n] = m_params[IF n = 1 THEN 3 ELSE n - 1]
      BY <2>4, <3>1
    <3> QED
      BY <3>2
  <2> QED
    BY <2>1, <2>2, <2>5
<1> QED
  BY <1>3, <1>4, <1>5, <1>6 DEF Procedures

(* Whatever was appended, executed or refused before, a procedure is called *)
(* with the arguments of its own command, each one once and in the order in *)
(* which it declares them (odbc_db.h:61-66; odbc_db.cpp:161-163, 265-313).  *)
THEOREM ProcedureGetsItsArgumentsCorrect == DbSpec => []ProcedureGetsItsArguments
<1>1. CallInvariant => ProcedureGetsItsArguments
  <2> SUFFICES ASSUME CallInvariant, at = "execute", doing \notin Queries
               PROVE  /\ \A i \in DOMAIN m_params : m_params[i].of = command
                      /\ Len(m_params) = Len(Params(doing))
                      /\ Params(doing) # << >> => [i \in DOMAIN Bound |-> Bound[i].name] = Signature(doing)
    BY DEF ProcedureGetsItsArguments
  <2>1. /\ m_params = Params(doing) /\ command \in 1..MaxCommands
        /\ doing \in Procedures \cup Queries \cup {"exec", "none"}
    BY OdbcAssumption DEF CallInvariant, Composed, Typed
  <2>2. CASE doing \in Procedures
    BY <2>1, <2>2, ParamsAreOwn, BoundAsDeclared
  <2>3. CASE doing \notin Procedures
    <3>1. Params(doing) = << >>
      BY <2>1, <2>3, ParamCounts DEF ParamsCounted
    <3> QED
      BY <2>1, <3>1
  <2> QED
    BY <2>2, <2>3
<1> QED
  BY <1>1, CallInvariantHolds, PTL

(* The driver writes an answer late only while GetParam drains, and then    *)
(* the parameters it was given the addresses of are those of its statement, *)
(* as many as were bound (odbc_db.h:93-95; odbc_db.cpp:293-303, 317-320).   *)
THEOREM DriverWritesLiveParamsCorrect == DbSpec => DriverWritesLiveParams
<1> DEFINE drained == [m_stmt EXCEPT !.sets = << >>, !.row = 0, !.owes = FALSE]
           live == /\ \A i \in DOMAIN m_params : m_params[i].of = m_stmt.of
                   /\ Len(m_params) = Len(called)
<1>1. ASSUME CallInvariant, [CallersNext \/ Over]_dbVars, m_stmt.owes, m_stmt' = drained
      PROVE  live
  <2>1. /\ m_stmt \in Statements /\ DbTyped /\ InStep /\ Answered /\ command \in Nat
        /\ m_stmt.answer \in Answers /\ NULL \notin Codes
    BY <1>1, OdbcAssumption DEF CallInvariant, Typed, DbTyped, InStep
  <2>2. m_stmt'.owes = FALSE /\ m_stmt'.of = m_stmt.of /\ m_stmt'.answer = m_stmt.answer
    BY <1>1, <2>1, Zenon DEF Statements
  <2>3. m_stmt' # m_stmt
    BY <1>1, <2>2
  <2>4. m_stmt'.answer # NoAnswer
    BY <2>1, <2>2 DEF Answers, NoAnswer
  <2>5. m_stmt' # NoStmt
    BY <2>4 DEF NoStmt
  <2>6. ~Close
    BY <2>5 DEF Close, freeStmt
  <2>7. CASE Opens \/ Closes \/ Appends \/ GetCollects \/ RowsEnd \/ QueriesUser \/ Ends \/ UNCHANGED dbVars
    BY <2>3, <2>6, <2>7 DEF Opens, Open, Closes, Appends, AppendParam, GetCollects, RowsEnd, QueriesUser, Ends,
                            dbVars, odbc, cursor
  <2>8. ASSUME NEW name, Begin(name)
        PROVE  live
    BY <2>3, <2>8 DEF Begin, ClearParams, odbc, cursor
  <2>9. CASE Executes(FALSE)
    <3>1. Fails
      BY <2>9 DEF Executes, Execute, ExecuteStoredProcedure, execCall
    <3>2. m_stmt' = m_stmt \/ m_stmt' = NoStmt \/ m_stmt' = Stmt(<< >>, FALSE, NoAnswer)
      BY <3>1 DEF Fails, cursor
    <3>3. Stmt(<< >>, FALSE, NoAnswer).answer = NoAnswer
      BY DEF Stmt
    <3> QED
      BY <2>3, <2>4, <2>5, <3>2, <3>3
  <2>10. CASE Executes(TRUE)
    <3>1. at = "execute" /\ (Execute(TRUE) \/ ExecuteStoredProcedure(TRUE, Arity(doing)))
      BY <2>10 DEF Executes
    <3>2. m_stmt'.of = command
      BY <2>1, <3>1, ExecuteFetchesFirst
    <3>3. m_stmt.of < command /\ m_stmt.of \in Nat
      BY <2>1, <3>1 DEF InStep, Statements
    <3> HIDE DEF drained
    <3> QED
      BY <2>1, <2>2, <3>2, <3>3
  <2>11. CASE Moves
    <3>1. NextRow /\ command' = command
      BY <2>11 DEF Moves
    <3>2. m_stmt'.owes = m_stmt.owes
      BY <2>1, <3>1, NextRowTyped
    <3> QED
      BY <1>1, <2>2, <3>2
  <2>12. CASE GetParams
    <3>1. at = "outputs" /\ doing \in Procedures
      BY <2>1, <2>12 DEF GetParams, InStep, Asking, Procedures
    <3>2. m_params = Params(doing) /\ Len(called) = Len(m_params) /\ m_stmt.of = command
      BY <1>1, <2>1, <3>1 DEF Answered
    <3> QED
      BY <3>1, <3>2, ParamsAreOwn
  <2> HIDE DEF live
  <2> QED
    BY <1>1, <2>7, <2>8, <2>9, <2>10, <2>11, <2>12 DEF CallersNext, HandlerNext, Over
<1>2. CallInvariant /\ [CallersNext \/ Over]_dbVars =>
        [m_stmt.owes /\ m_stmt' = [m_stmt EXCEPT !.sets = << >>, !.row = 0, !.owes = FALSE] =>
           /\ \A i \in DOMAIN m_params : m_params[i].of = m_stmt.of
           /\ Len(m_params) = Len(called)]_dbVars
  BY <1>1
<1> QED
  BY <1>2, CallInvariantHolds, PTL DEF DbSpec, DriverWritesLiveParams
=============================================================================
