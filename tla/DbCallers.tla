----------------------------- MODULE DbCallers ------------------------------
(***************************************************************************)
(* The programs that use a database connection: the handlers of AgentServer*)
(* and AuthServer that call stored procedures, and the two test programs   *)
(* db_smoke and db_param_smoke.  Every one of them appends parameters,     *)
(* executes, and reads rows or output parameters back, one call after the  *)
(* other; the servers go on after a failed command, the tests exit.        *)
(***************************************************************************)
EXTENDS OdbcDb

CONSTANT Processes   (* the programs that may run *)

VARIABLES
  process,  (* the program that owns the connection                          *)
  doing,    (* what it does: the name of a handler or of a test's part       *)
  at,       (* where in it                                                   *)
  appended, (* how many parameters it has appended                           *)
  rows,     (* the rows read, each one as CurrentRow or Unread               *)
  outs      (* the output parameters read                                    *)

local == << doing, at, appended, rows, outs >>
callerVars == << process, local, command >>
dbVars == << odbc, callerVars >>

(* GetCollect failed or found NULL: the variable holds 0 or the empty text. *)
Unread == << 0, 1 >>

-----------------------------------------------------------------------------
(* What each of them appends, in its order.                                 *)

LoginParams == << Return, In("@userId", 0), In("@userPass", 0), In("@userIp", 0),
                  In("@SvrGrpNum", 4), In("@SvrNum", 4), Out("@nReturn", 4) >>
ListParams   == << In("@UserNum", 4), In("@ServerGroup", 4) >>
DetailParams == << In("@UserNum", 4), In("@ChaNum", 4) >>
PinParams    == << Return, In("@szDaumGID", 0), In("@szDaumPasswd", 0), In("@nCheckFlag", 4), Out("@nReturn", 4) >>
CertParams   == << In("@country", 4), In("@servertype", 4), In("@serverip", 0),
                   In("@serverport", 4), In("@uniqKey", 0), In("@IsSessionSvr", 4) >>
Smoke1Params == << In("@i_int", 4), In("@i_label", 0), In("@i_tiny", 1), In("@i_small", 2),
                   In("@i_float", 8), Out("@o_int", 4), Return >>
Smoke2Params == << In("@i_big", 8), Out("@o_big", 8), Return >>

Params(name) ==
  CASE name = "login"  -> LoginParams
    [] name = "list"   -> ListParams
    [] name = "detail" -> DetailParams
    [] name = "pin"    -> PinParams
    [] name = "cert"   -> CertParams
    [] name = "smoke1" -> Smoke1Params
    [] name = "smoke2" -> Smoke2Params
    [] OTHER           -> << >>

Arity(name) == Cardinality({i \in DOMAIN Params(name) : Params(name)[i].io # "return"})

(* The output parameters each of them reads, with the type it asks for.     *)
Outputs(name) ==
  CASE name = "login"  -> << << "RETURN_VALUE", 4 >> >>
    [] name = "pin"    -> << << "RETURN_VALUE", 4 >>, << "@nReturn", 4 >> >>
    [] name = "smoke1" -> << << "@o_int", 4 >>, << "RETURN_VALUE", 4 >> >>
    [] name = "smoke2" -> << << "@o_big", 8 >>, << "RETURN_VALUE", 4 >> >>
    [] OTHER           -> << >>

(* A raw query, not a procedure.                                            *)
Queries == {"probe", "userinfo", "select", "setup"}

(* Reads every row, or at most the first.                                   *)
ReadsAll == {"list", "cert", "select", "exec"}
ReadsOne == {"probe", "userinfo", "detail", "smoke1"}

BadAfterExecute(name) ==
  IF name \in ReadsAll \cup ReadsOne THEN "next" ELSE IF Outputs(name) = << >> THEN "done" ELSE "outputs"

(* Where a handler is once its command succeeded: on the first row, if any. *)
AfterExecute(name) ==
  IF name \in ReadsAll \cup ReadsOne THEN "rows" ELSE IF Outputs(name) = << >> THEN "done" ELSE "outputs"

(* A server clears the parameters first, and asks in any order; the tests   *)
(* do not, and go through their parts once.                                 *)
Handlers(p) == CASE p = "agent" -> {"login", "list", "detail", "pin"} [] p = "auth" -> {"cert"} [] OTHER -> {}
Parts(p)    == CASE p = "read_smoke"  -> << "select", "exec" >>
                 [] p = "param_smoke" -> << "setup", "setup", "smoke1", "smoke2" >>
                 [] OTHER             -> << "probe" >>

CallersInit ==
  /\ DbInit
  /\ process \in Processes
  /\ doing = "none"
  /\ at = "new"
  /\ appended = 0
  /\ rows = << >>
  /\ outs = << >>

-----------------------------------------------------------------------------
(* Open: OnStart of the servers, the beginning of the tests.                *)
Opens ==
  /\ at = "new"
  /\ \/ Open(TRUE)  /\ at' = "idle"
     \/ Open(FALSE) /\ at' = "exit"
  /\ UNCHANGED << process, doing, appended, rows, outs, command >>

MayBegin(name) ==
  /\ at = "idle"
  /\ command < MaxCommands
  /\ \/ command < Len(Parts(process)) /\ name = Parts(process)[command + 1]
     \/ command >= Len(Parts(process)) /\ name \in Handlers(process)

Starts(name) ==
  /\ doing' = name
  /\ command' = command + 1
  /\ appended' = 0
  /\ rows' = << >>
  /\ outs' = << >>

BadBeginKeepsParams(name) ==
  /\ MayBegin(name)
  /\ Starts(name)
  /\ at' = IF Params(name) = << >> THEN "execute" ELSE "append"
  /\ UNCHANGED << process, odbc >>

(* The first Append follows a ClearParams in the servers.                   *)
Begin(name) ==
  /\ MayBegin(name)
  /\ Starts(name)
  /\ at' = IF Params(name) = << >> THEN "execute" ELSE "append"
  /\ IF name \in Handlers(process) THEN ClearParams ELSE UNCHANGED odbc
  /\ UNCHANGED process

Appends ==
  /\ at = "append"
  /\ AppendParam(Params(doing)[appended + 1])
  /\ appended' = appended + 1
  /\ at' = IF appended + 1 = Len(Params(doing)) THEN "execute" ELSE "append"
  /\ UNCHANGED << process, doing, rows, outs, command >>

(* A command that failed ends the handler; it ends the test.                *)
Failed == at' = IF doing \in Handlers(process) \cup {"userinfo"} THEN "idle" ELSE "exit"

Executes(ok) ==
  /\ at = "execute"
  /\ IF doing \in Queries THEN Execute(ok) ELSE ExecuteStoredProcedure(ok, Arity(doing))
  /\ IF ok THEN at' = AfterExecute(doing) ELSE Failed
  /\ UNCHANGED << process, doing, appended, rows, outs, command >>

-----------------------------------------------------------------------------
(* while (!GetEOF()) { GetCollect ...; Next(); }                            *)

GetCollects ==
  /\ at = "rows"
  /\ ~m_eof
  /\ \E row \in {Unread} \cup (IF Readable THEN {CurrentRow} ELSE {}) : rows' = Append(rows, row)
  /\ at' = IF doing \in ReadsAll \cup {"smoke1"} THEN "next" ELSE "done"
  /\ UNCHANGED << process, odbc, doing, appended, outs, command >>

Moves ==
  /\ at = "next"
  /\ NextRow
  /\ at' = IF doing \in ReadsAll THEN "rows" ELSE "outputs"
  /\ UNCHANGED << process, doing, appended, rows, outs, command >>

(* No row, or no more: detail and userinfo need one.                        *)
RowsEnd ==
  /\ at = "rows"
  /\ m_eof
  /\ CASE doing = "smoke1"               -> at' = "outputs"
       [] doing \in {"detail", "userinfo"} -> Failed
       [] OTHER                          -> at' = "done"
  /\ UNCHANGED << process, odbc, doing, appended, rows, outs, command >>

-----------------------------------------------------------------------------
(* GetParam.                                                                *)

(* ProcessPassCheck asks for @nReturn if the return value is missing or 0.  *)
Enough(values) ==
  \/ Len(values) = Len(Outputs(doing))
  \/ doing = "pin" /\ values[1] \notin {0, NULL}

GetParams ==
  LET asked == Outputs(doing)[Len(outs) + 1] IN
  /\ at = "outputs"
  /\ GetParam
  /\ outs' = Append(outs, Found(m_params', asked[1], asked[2]))
  /\ at' = IF Enough(outs') THEN "done" ELSE "outputs"
  /\ UNCHANGED << process, doing, appended, rows, command >>

LoginCodes == {1, 2, 3, 30, 31}

(* A login with a code that is a success goes on to query GSUserInfo.       *)
QueriesUser ==
  /\ at = "done"
  /\ doing = "login"
  /\ outs[1] \in LoginCodes
  /\ command < MaxCommands
  /\ Starts("userinfo")
  /\ at' = "execute"
  /\ UNCHANGED << process, odbc >>

Ends ==
  /\ at = "done"
  /\ ~(doing = "login" /\ outs[1] \in LoginCodes /\ command < MaxCommands)
  /\ at' = "idle"
  /\ UNCHANGED << process, odbc, doing, appended, rows, outs, command >>

(* OnStop, or the end of the test (which drops its procedures before).      *)
Closes ==
  /\ at = "idle"
  /\ command >= Len(Parts(process))
  /\ Close
  /\ at' = "exit"
  /\ UNCHANGED << process, doing, appended, rows, outs, command >>

HandlerNext ==
  \/ Appends
  \/ \E ok \in BOOLEAN : Executes(ok)
  \/ GetCollects \/ Moves \/ RowsEnd \/ GetParams \/ QueriesUser

CallersNext ==
  \/ Opens
  \/ \E name \in {"probe", "login", "list", "detail", "pin", "cert",
                     "select", "exec", "setup", "smoke1", "smoke2"} : Begin(name)
  \/ HandlerNext
  \/ Ends \/ Closes

(* The program has ended.                                                   *)
Over == at = "exit" /\ UNCHANGED dbVars

DbSpec == CallersInit /\ [][CallersNext \/ Over]_dbVars

-----------------------------------------------------------------------------
CallersTypeOK ==
  /\ DbTypeOK
  /\ process \in Processes
  /\ at \in {"new", "idle", "append", "execute", "rows", "next", "outputs", "done", "exit"}
  /\ appended \in 0..Len(Params(doing))
  /\ \A i \in DOMAIN rows : rows[i] \in (0..MaxCommands) \X Nat
  /\ \A i \in DOMAIN outs : outs[i] \in Codes \cup {NULL}

(* The parameters in the order in which the procedure declares them, behind *)
(* the return value (db_param_smoke.cpp:38-41 declares those of smoke1).    *)
Signature(name) ==
  IF name = "smoke1"
    THEN << "RETURN_VALUE", "@i_int", "@i_label", "@i_tiny", "@i_small", "@i_float", "@o_int" >>
  ELSE IF name = "smoke2" THEN << "RETURN_VALUE", "@i_big", "@o_big" >>
  ELSE [i \in DOMAIN Params(name) |-> Params(name)[i].name]

(* A procedure is called with the arguments of its own command and no       *)
(* other, in its own order, whatever was appended, executed or refused      *)
(* before: a command that failed leaves its parameters behind, marked as    *)
(* not executed (odbc_db.h:61-66; odbc_db.cpp:161-163, 265-313;             *)
(* agent_server.cpp:107, 436, 458, 511; auth_server.cpp:191).               *)
ProcedureGetsItsArguments ==
  at = "execute" /\ doing \notin Queries =>
    /\ \A i \in DOMAIN m_params : m_params[i].of = command
    /\ Len(m_params) = Len(Params(doing))
    /\ Params(doing) # << >> => [i \in DOMAIN Bound |-> Bound[i].name] = Signature(doing)

(* The rows that a handler works through are those of its own command, in   *)
(* order and each one once; they are all of them unless a fetch failed,     *)
(* which GetEOF() cannot tell from the end (odbc_db.cpp:86-92).             *)
RowsComplete ==
  /\ \A i \in DOMAIN rows : rows[i] \in {Unread, << command, i >>}
  /\ at = "done" /\ doing \in ReadsAll /\ ~m_stmt.broken =>
       Len(rows) = IF m_stmt.sets = << >> THEN 0 ELSE Head(m_stmt.sets)

(* An output parameter reads as the answer of the procedure that was called *)
(* last, NULL only if that left it NULL, however many result sets came with *)
(* it and whatever was read of them, unless the drain broke off             *)
(* (odbc_db.cpp:312-334).                                                   *)
OutputsAreTheAnswer ==
  at \in {"outputs", "done"} /\ ~m_stmt.broken =>
    \A i \in DOMAIN outs :
      outs[i] = IF Outputs(doing)[i][1] = "RETURN_VALUE" THEN m_stmt.answer.return ELSE m_stmt.answer.out

(* The driver writes an answer into the parameters that were bound for it,  *)
(* by address, when the statement was executed: they are still there        *)
(* (odbc_db.h:93-95, odbc_db.cpp:293-303, 317-320).                         *)
DriverWritesLiveParams ==
  [][m_stmt.owes /\ m_stmt' = [m_stmt EXCEPT !.sets = << >>, !.row = 0, !.owes = FALSE] =>
       /\ \A i \in DOMAIN m_params : m_params[i].of = m_stmt.of
       /\ Len(m_params) = Len(called)]_dbVars
=============================================================================
