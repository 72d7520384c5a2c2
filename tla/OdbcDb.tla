------------------------------- MODULE OdbcDb -------------------------------
(***************************************************************************)
(* One database connection, db/odbc_db.{h,cpp}: the calls that a server    *)
(* makes on it and, behind them, the ODBC driver.  An object of this class *)
(* is used by one thread at a time; each action below is one call, and     *)
(* says nothing of the caller's variables, among which is the number of    *)
(* the command that the caller is composing.                               *)
(*                                                                         *)
(* Values and texts are abstract: a row is known by the statement that     *)
(* returned it, an argument by the command it was appended for.            *)
(***************************************************************************)
EXTENDS Naturals, Sequences, FiniteSets

CONSTANTS
  NULL,        (* the SQL NULL, and an output the driver has not written     *)
  Codes,       (* what a procedure may return or put into an output          *)
  ResultSets,  (* what a command may return: sequences of numbers of rows    *)
  MaxCommands  (* Bound: how many commands are composed.                     *)

ASSUME OdbcAssumption ==
  /\ NULL \notin Codes
  /\ ResultSets \subseteq Seq(Nat)
  /\ MaxCommands \in Nat

VARIABLES
  m_conn,            (* is the connection open?                              *)
  m_stmt,            (* the statement handle and what the driver has for it  *)
  m_cols,            (* the result set that the column map describes         *)
  m_eof,
  m_resultsDrained,
  m_paramsExecuted,
  m_params,          (* the accumulated parameters                           *)
  command,           (* number of the command, counted by the caller         *)
  called             (* history: what the last procedure was called with     *)

cursor == << m_stmt, m_cols, m_eof, m_resultsDrained >>
params == << m_paramsExecuted, m_params >>
odbc   == << m_conn, cursor, params, called >>

(* A statement: the command it executes, its result sets that are not yet   *)
(* consumed, the rows fetched of the first of these, whether the results    *)
(* broke off (a fetch failed, or the drain ended early), and the answer     *)
(* that the driver owes to the bound output parameters.                     *)
NoAnswer == [return |-> NULL, out |-> NULL]
Answers  == [return : Codes, out : Codes \cup {NULL}]
NoStmt   == [of |-> 0, sets |-> << >>, row |-> 0, broken |-> FALSE, owes |-> FALSE, answer |-> NoAnswer]
Stmt(sets, owes, answer) ==
  [of |-> command, sets |-> sets, row |-> 0, broken |-> FALSE, owes |-> owes, answer |-> answer]

(* A result set is known by its statement and what follows it.              *)
NoCols   == << 0, << >> >>
Cols(s)  == << s.of, s.sets >>

(* What io an Append call gives its parameter, its width in bytes (0: text) *)
(* and its value: inputs have theirs, outputs wait for the driver.          *)
Param(name, io, width) ==
  [name |-> name, io |-> io, width |-> width, value |-> NULL, of |-> command]
In(name, width)  == Param(name, "in", width)
Out(name, width) == Param(name, "out", width)
Return           == Param("RETURN_VALUE", "return", 4)

DbInit ==
  /\ m_conn = FALSE
  /\ m_stmt = NoStmt
  /\ m_cols = NoCols
  /\ m_eof = TRUE
  /\ m_resultsDrained = FALSE
  /\ m_paramsExecuted = FALSE
  /\ m_params = << >>
  /\ command = 0
  /\ called = << >>

-----------------------------------------------------------------------------
(* Open, Close.                                                             *)

freeStmt ==
  /\ m_stmt' = NoStmt
  /\ m_cols' = NoCols
  /\ m_eof' = TRUE
  /\ m_resultsDrained' = FALSE

Close ==
  /\ m_conn' = FALSE
  /\ freeStmt
  /\ m_params' = << >>
  /\ m_paramsExecuted' = FALSE
  /\ UNCHANGED called

Open(ok) ==
  /\ ~m_conn
  /\ IF ok THEN m_conn' = TRUE /\ UNCHANGED << cursor, params, called >>
           ELSE Close

-----------------------------------------------------------------------------
(* Parameters.                                                              *)

ClearParams ==
  /\ m_params' = << >>
  /\ m_paramsExecuted' = FALSE
  /\ UNCHANGED << m_conn, cursor, called >>

(* beginParam and addParam: the first Append after an execute clears.       *)
AppendParam(p) ==
  /\ m_params' = Append(IF m_paramsExecuted THEN << >> ELSE m_params, p)
  /\ m_paramsExecuted' = FALSE
  /\ UNCHANGED << m_conn, cursor, called >>

(* Bound: a return value first, then the rest in the order of appending.    *)
Returns == {i \in DOMAIN m_params : m_params[i].io = "return"}
BindsBefore(i, j) == IF i \in Returns <=> j \in Returns THEN i < j ELSE i \in Returns
Place(i) == 1 + Cardinality({j \in DOMAIN m_params : BindsBefore(j, i)})
BoundAt(n) == CHOOSE i \in DOMAIN m_params : Place(i) = n
Bound == [n \in DOMAIN m_params |-> m_params[BoundAt(n)]]

(* The driver writes the answer into the bound outputs.                     *)
Delivered(answer, ps) ==
  [i \in DOMAIN ps |->
     IF ps[i].io = "in" THEN ps[i]
     ELSE [ps[i] EXCEPT !.value = IF ps[i].io = "out" THEN answer.out ELSE answer.return]]

-----------------------------------------------------------------------------
(* The forward-only cursor.                                                 *)

(* Faulty variants, named Bad..., are what a plausible bug would make of    *)
(* the definition that follows them; no specification uses them.            *)
BadHasRow(s) == s.sets # << >> /\ s.row <= Head(s.sets)

HasRow(s) == s.sets # << >> /\ s.row < Head(s.sets)

(* SQLFetch: a row, the end of the rows or an error.                        *)
fetchRow(s) ==
  \/ /\ HasRow(s)
     /\ m_stmt' = [s EXCEPT !.row = @ + 1]
     /\ m_eof' = FALSE
  \/ /\ m_stmt' = [s EXCEPT !.broken = @ \/ HasRow(s)]
     /\ m_eof' = TRUE

(* The map stays empty without a result set, and when SQLNumResultCols fails. *)
buildColumnMap(s) ==
  m_cols' \in IF s.sets = << >> THEN {NoCols} ELSE {NoCols, Cols(s)}

NextRow ==
  /\ IF m_stmt = NoStmt THEN m_eof' = TRUE /\ UNCHANGED m_stmt ELSE fetchRow(m_stmt)
  /\ UNCHANGED << m_conn, m_cols, m_resultsDrained, params, called >>

(* GetCollect finds the column and SQLGetData is on a row.  Even so it may  *)
(* fail or find NULL, and then leaves 0 or the empty text.                  *)
Readable == m_cols # NoCols /\ m_stmt # NoStmt /\ ~m_eof

(* What a successful GetCollect reads: the statement and the row, or that   *)
(* the column map is of another result set.                                 *)
CurrentRow == IF m_cols = Cols(m_stmt) THEN << m_stmt.of, m_stmt.row >> ELSE << 0, 0 >>

-----------------------------------------------------------------------------
(* Commands.                                                                *)

(* Without a connection nothing happens.  Otherwise the old statement is    *)
(* freed, and the new one may not even be allocated.                        *)
Fails ==
  IF m_conn
    THEN /\ m_stmt' \in {NoStmt, Stmt(<< >>, FALSE, NoAnswer)}
         /\ m_cols' = NoCols
         /\ m_eof' = TRUE
         /\ m_resultsDrained' = FALSE
    ELSE UNCHANGED cursor

(* Execute(sql), and what it returns.                                       *)
Execute(ok) ==
  /\ IF ok THEN /\ m_conn
                /\ m_resultsDrained' = FALSE
                /\ \E sets \in ResultSets :
                     LET s == Stmt(sets, FALSE, NoAnswer) IN buildColumnMap(s) /\ fetchRow(s)
           ELSE Fails
  /\ UNCHANGED << m_conn, params, called >>

BadExecCallClears(ok, arity) ==
  /\ called' = Bound
  /\ IF ok THEN /\ m_conn
                /\ m_resultsDrained' = FALSE
                /\ m_paramsExecuted' = FALSE
                /\ m_params' = << >>
                /\ \E sets \in ResultSets, answer \in Answers :
                     LET s == Stmt(sets, sets # << >>, answer) IN buildColumnMap(s) /\ fetchRow(s)
           ELSE Fails /\ UNCHANGED params
  /\ UNCHANGED m_conn

BadExecCallKeepsDrained(ok, arity) ==
  /\ called' = Bound
  /\ IF ok THEN /\ m_conn
                /\ m_paramsExecuted' = TRUE
                /\ UNCHANGED m_resultsDrained
                /\ \E sets \in ResultSets, answer \in Answers :
                     LET s == Stmt(sets, sets # << >>, answer)
                     IN  /\ buildColumnMap(s) /\ fetchRow(s)
                         /\ m_params' = IF s.owes THEN m_params ELSE Delivered(answer, m_params)
           ELSE Fails /\ UNCHANGED params
  /\ UNCHANGED m_conn

(* execCall: the driver refuses a call that has not the procedure's number  *)
(* of arguments, or two return values.  It owes the answer until the last   *)
(* result set is consumed; without result sets it writes it at once.        *)
execCall(ok, arity) ==
  /\ called' = Bound
  /\ IF ok THEN /\ m_conn
                /\ Cardinality(DOMAIN m_params \ Returns) = arity
                /\ Cardinality(Returns) <= 1
                /\ m_resultsDrained' = FALSE
                /\ m_paramsExecuted' = TRUE
                /\ \E sets \in ResultSets, answer \in Answers :
                     LET s == Stmt(sets, sets # << >>, answer)
                     IN  /\ buildColumnMap(s) /\ fetchRow(s)
                         /\ m_params' = IF s.owes THEN m_params ELSE Delivered(answer, m_params)
           ELSE Fails /\ UNCHANGED params
  /\ UNCHANGED m_conn

ExecuteStoredProcedure(ok, arity) ==
  IF m_params = << >> THEN Execute(ok) ELSE execCall(ok, arity)

-----------------------------------------------------------------------------
(* Reading output parameters back.                                          *)

(* SQLMoreResults skips the result sets while it returns SQL_SUCCESS.  At   *)
(* the end the driver writes the answer; an error, or a result set that     *)
(* comes with information (SQL_SUCCESS_WITH_INFO), ends the loop before it. *)
drainResults ==
  /\ \/ /\ m_stmt' = [m_stmt EXCEPT !.sets = << >>, !.row = 0, !.owes = FALSE]
        /\ m_params' = IF m_stmt.owes THEN Delivered(m_stmt.answer, m_params) ELSE m_params
     \/ /\ \E skipped \in 0..Len(m_stmt.sets) - 1 :
             m_stmt' = [m_stmt EXCEPT !.sets = SubSeq(@, skipped + 1, Len(@)),
                                      !.row = IF skipped = 0 THEN @ ELSE 0,
                                      !.broken = TRUE]
        /\ UNCHANGED m_params
  /\ m_resultsDrained' = TRUE
  /\ m_eof' = TRUE

GetParam ==
  /\ IF m_resultsDrained THEN UNCHANGED << m_stmt, m_params, m_resultsDrained, m_eof >>
                         ELSE drainResults
  /\ UNCHANGED << m_conn, m_cols, m_paramsExecuted, called >>

(* What GetParam finds afterwards: the first parameter of that name, unless *)
(* it is NULL or narrower than the type that is asked for.  Found is for    *)
(* the parameters after the call.                                           *)
Named(ps, name) == {i \in DOMAIN ps : ps[i].name = name}
Found(ps, name, width) ==
  LET first == CHOOSE i \in Named(ps, name) : \A j \in Named(ps, name) : i <= j
  IN  IF Named(ps, name) = {} \/ (width > 0 /\ ps[first].width < width) THEN NULL ELSE ps[first].value

DbTypeOK ==
  /\ m_conn \in BOOLEAN
  /\ m_stmt.of \in 0..MaxCommands /\ m_stmt.sets \in Seq(Nat)
  /\ m_stmt.row \in 0..(IF m_stmt.sets = << >> THEN 0 ELSE Head(m_stmt.sets))
  /\ m_stmt.broken \in BOOLEAN /\ m_stmt.owes \in BOOLEAN /\ m_stmt.answer \in Answers \cup {NoAnswer}
  /\ m_eof \in BOOLEAN /\ m_resultsDrained \in BOOLEAN /\ m_paramsExecuted \in BOOLEAN
  /\ \A i \in DOMAIN m_params :
       m_params[i].of \in 1..MaxCommands /\ m_params[i].value \in Codes \cup {NULL}
  /\ command \in 0..MaxCommands
=============================================================================
