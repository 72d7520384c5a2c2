----------------------------- MODULE AgentServer -----------------------------
(***************************************************************************)
(* The login and lobby handlers of servers/agentserver/agent_server.cpp:   *)
(* dispatch() for the login, the character list, the character details and *)
(* the second password (PIN), with the login state they keep per client.   *)
(*                                                                         *)
(* The tick handles one message at a time; meanwhile workers close links   *)
(* and erase the client's entries.  A step is what happens between two     *)
(* acquisitions of m_sessMx.  The receive queue and the send path below    *)
(* Send are those of module GameServer: here the tick may find a message   *)
(* of any client that ever connected, and a reply is what it hands to Send.*)
(* The stored procedures are outside: each may fail or give any answer.    *)
(***************************************************************************)
EXTENDS Naturals, Sequences

CONSTANTS
  Clients,      (* connections; the model value is the clientId              *)
  Users,        (* values of GSUserInfo.UserNum                              *)
  VerifyCodes,  (* answers of gs_user_verify                                 *)
  MaxRequests   (* Bound: messages dispatched, of all clients together       *)

ASSUME AgentAssumption ==
  /\ Users \subseteq Nat \ {0}
  /\ VerifyCodes \subseteq Nat
  /\ MaxRequests \in Nat

VARIABLES
  link,             (* per client: "up" | "down" (m_closed)                  *)
  m_sessions,       (* the clients in the session map                        *)
  m_loginSessions,  (* per client its login; NoLogin if there is no entry    *)
  erasing,          (* clients whose Close(), on a worker, has yet to erase  *)
  requests,         (* messages dispatched so far                            *)
  tick,             (* where dispatch() is                                   *)
  cur,              (* the client whose message is being dispatched          *)
  local,            (* dispatch()'s variables: the user and the result       *)
  replies           (* history, per client: what was handed to Send          *)

maps == << m_sessions, m_loginSessions, erasing >>
vars == << link, maps, requests, tick, cur, local, replies >>

(* find() on a missing entry leaves userNum and use2ndPass 0.               *)
NoLogin  == [userNum |-> 0, use2ndPass |-> 0]
NoLocal  == [userNum |-> 0, result |-> "none"]
Logins   == [userNum : Users \cup {0}, use2ndPass : 0..2]
Messages == {"login", "list", "detail", "pin"}

Results == {"SUB_OK", "SUB_FAIL", "SUB_SYSTEM", "SUB_DUP", "SUB_INCORRECT", "SUB_IP_BAN", "SUB_BLOCK",
            "SUB_RANDOM_PASS", "SUB_PASS_OK", "SUB_BETAKEY", "KR_OK_USE_PASS", "KR_OK_NEW_PASS"}
Reply == [kind : {"login", "list", "info", "end", "pin"}, userNum : Users \cup {0},
          result : Results \cup {"none"}]

TypeOK ==
  /\ link \in [Clients -> {"up", "down"}]
  /\ m_sessions \subseteq Clients
  /\ m_loginSessions \in [Clients -> Logins]
  /\ erasing \subseteq Clients
  /\ requests \in 0..MaxRequests
  /\ tick \in Messages \cup {"idle", "erase", "store", "feedback", "listDb", "detailDb", "pinDb", "pinClear", "pinReply"}
  /\ cur \in Clients
  /\ local \in [userNum : Users \cup {0}, result : Results \cup {"none"}]
  /\ replies \in [Clients -> Seq(Reply)]

Init ==
  /\ link = [c \in Clients |-> "up"]
  /\ m_sessions = Clients
  /\ m_loginSessions = [c \in Clients |-> NoLogin]
  /\ erasing = {}
  /\ requests = 0
  /\ tick = "idle"
  /\ cur \in Clients
  /\ local = NoLocal
  /\ replies = [c \in Clients |-> << >>]

Go(from, to) == tick = from /\ tick' = to

-----------------------------------------------------------------------------
(* Links drop on the workers.                                               *)

LinkDrops(c) ==
  /\ link[c] = "up"
  /\ link' = [link EXCEPT ![c] = "down"]
  /\ erasing' = erasing \cup {c}
  /\ UNCHANGED << m_sessions, m_loginSessions, requests, tick, cur, local, replies >>

(* m_onClose erases both entries under m_sessMx.                            *)
Erased(c) ==
  /\ m_sessions' = m_sessions \ {c}
  /\ m_loginSessions' = [m_loginSessions EXCEPT ![c] = NoLogin]

OnClose(c) ==
  /\ c \in erasing
  /\ erasing' = erasing \ {c}
  /\ Erased(c)
  /\ UNCHANGED << link, requests, tick, cur, local, replies >>

(* dispatch() drops the link: Close() with m_onClose at its end, unless the *)
(* link is down already.                                                    *)
CloseFromTick ==
  /\ link' = [link EXCEPT ![cur] = "down"]
  /\ tick' = IF link[cur] = "up" THEN "erase" ELSE "idle"

TickErases ==
  /\ Go("erase", "idle")
  /\ Erased(cur)
  /\ UNCHANGED << link, erasing, requests, cur, local, replies >>

-----------------------------------------------------------------------------
(* dispatch() begins.                                                       *)

(* Faulty variants, named Bad..., are what a plausible bug would make of    *)
(* the definition that follows them; no specification uses them.            *)
BadDispatchWithoutLookup(c, kind) ==
  /\ Go("idle", kind)
  /\ requests < MaxRequests
  /\ requests' = requests + 1
  /\ cur' = c
  /\ local' = NoLocal
  /\ UNCHANGED << link, maps, replies >>

DispatchFinds(c, kind) ==
  /\ Go("idle", kind)
  /\ requests < MaxRequests
  /\ c \in m_sessions
  /\ requests' = requests + 1
  /\ cur' = c
  /\ local' = NoLocal
  /\ UNCHANGED << link, maps, replies >>

DispatchDrops(c) ==
  /\ tick = "idle"
  /\ requests < MaxRequests
  /\ c \notin m_sessions
  /\ requests' = requests + 1
  /\ UNCHANGED << link, maps, tick, cur, local, replies >>

Send(reply) == replies' = [replies EXCEPT ![cur] = Append(@, reply)]

(* A message that is too short, or whose numbers make no sense.             *)
Ignored ==
  /\ tick \in {"detail", "pin"}
  /\ tick' = "idle"
  /\ UNCHANGED << link, maps, requests, cur, local, replies >>

-----------------------------------------------------------------------------
(* IDN_NET_MSG_LOGIN.                                                       *)

(* The switch on gs_user_verify's return code.                              *)
LoginResult(code) ==
  CASE code \in {1, 2, 3} -> "SUB_OK"
    [] code = 30 -> "KR_OK_NEW_PASS"
    [] code = 31 -> "KR_OK_USE_PASS"
    [] code = 0  -> "SUB_INCORRECT"
    [] code = 4  -> "SUB_IP_BAN"
    [] code = 5  -> "SUB_DUP"
    [] code = 6  -> "SUB_BLOCK"
    [] code = 7  -> "SUB_RANDOM_PASS"
    [] code = 23 -> "SUB_BETAKEY"
    [] OTHER     -> "SUB_FAIL"

LoggedIn(result) == result \in {"SUB_OK", "KR_OK_NEW_PASS", "KR_OK_USE_PASS"}

BadUse2nd(result) == IF result = "KR_OK_USE_PASS" THEN 1 ELSE 0

Use2nd(result) ==
  CASE result = "KR_OK_USE_PASS" -> 1   (* verify the existing PIN *)
    [] result = "KR_OK_NEW_PASS" -> 2   (* set a new one           *)
    [] OTHER                     -> 0

LoginShort ==
  /\ tick = "login"
  /\ CloseFromTick
  /\ UNCHANGED << maps, requests, cur, local, replies >>

(* The login fails: a name with other characters than letters, digits and   *)
(* "_-.", which is not looked up at all; a code that is no success; a       *)
(* procedure or a query that fails; no row in GSUserInfo.                   *)
LoginFails ==
  /\ Go("login", "feedback")
  /\ \E result \in {"SUB_INCORRECT", "SUB_SYSTEM"} \cup {LoginResult(code) : code \in VerifyCodes} :
       /\ ~LoggedIn(result)
       /\ local' = [local EXCEPT !.result = result]
  /\ UNCHANGED << link, maps, requests, cur, replies >>

(* Nobody looks whether UserNum could be read: a login then succeeds with 0. *)
LoginSucceeds ==
  /\ Go("login", "store")
  /\ \E code \in VerifyCodes, userNum \in Users \cup {0} :
       /\ LoggedIn(LoginResult(code))
       /\ local' = [local EXCEPT !.result = LoginResult(code), !.userNum = userNum]
  /\ UNCHANGED << link, maps, requests, cur, replies >>

BadLoginStoresFirstOnly ==
  /\ Go("store", "feedback")
  /\ m_loginSessions' = IF m_loginSessions[cur] # NoLogin THEN m_loginSessions ELSE
       [m_loginSessions EXCEPT ![cur] = [userNum |-> local.userNum, use2ndPass |-> Use2nd(local.result)]]
  /\ UNCHANGED << link, m_sessions, erasing, requests, cur, local, replies >>

(* The entry is written whether or not the session is still in the map.     *)
LoginStores ==
  /\ Go("store", "feedback")
  /\ m_loginSessions' =
       [m_loginSessions EXCEPT ![cur] = [userNum |-> local.userNum, use2ndPass |-> Use2nd(local.result)]]
  /\ UNCHANGED << link, m_sessions, erasing, requests, cur, local, replies >>

LoginReplies ==
  /\ Go("feedback", "idle")
  /\ Send([kind |-> "login", userNum |-> local.userNum, result |-> local.result])
  /\ UNCHANGED << link, maps, requests, cur, local >>

-----------------------------------------------------------------------------
(* NET_MSG_REQ_CHA_BAINFO and NET_MSG_REQ_CHA_BINFO_CA.                     *)

BadLobbyFinds ==
  /\ tick \in {"list", "detail"}
  /\ tick' = IF tick = "list" THEN "listDb" ELSE "detailDb"
  /\ \E c \in Clients :
       /\ m_loginSessions[c].userNum > 0
       /\ local' = [local EXCEPT !.userNum = m_loginSessions[c].userNum]
  /\ UNCHANGED << link, maps, requests, cur, replies >>

LobbyFinds ==
  /\ tick \in {"list", "detail"}
  /\ m_loginSessions[cur].userNum > 0
  /\ tick' = IF tick = "list" THEN "listDb" ELSE "detailDb"
  /\ local' = [local EXCEPT !.userNum = m_loginSessions[cur].userNum]
  /\ UNCHANGED << link, maps, requests, cur, replies >>

LobbyRefuses ==
  /\ tick \in {"list", "detail"}
  /\ m_loginSessions[cur].userNum = 0
  /\ CloseFromTick
  /\ UNCHANGED << maps, requests, cur, local, replies >>

(* A list that cannot be read from the database goes out as an empty one.   *)
ListReplies ==
  /\ Go("listDb", "idle")
  /\ Send([kind |-> "list", userNum |-> local.userNum, result |-> "none"])
  /\ UNCHANGED << link, maps, requests, cur, local >>

(* Details that cannot be read are not answered at all.                     *)
DetailFails ==
  /\ Go("detailDb", "idle")
  /\ UNCHANGED << link, maps, requests, cur, local, replies >>

DetailReplies ==
  LET reply == [kind |-> "info", userNum |-> local.userNum, result |-> "none"] IN
  /\ Go("detailDb", "idle")
  /\ replies' = [replies EXCEPT ![cur] = @ \o << reply, [reply EXCEPT !.kind = "end"] >>]
  /\ UNCHANGED << link, maps, requests, cur, local >>

-----------------------------------------------------------------------------
(* DAUM_NET_MSG_PASSCHECK.                                                  *)

PinNotPending ==
  /\ Go("pin", "idle")
  /\ m_loginSessions[cur].use2ndPass = 0
  /\ UNCHANGED << link, maps, requests, cur, local, replies >>

PinPending ==
  /\ Go("pin", "pinDb")
  /\ m_loginSessions[cur].use2ndPass # 0
  /\ UNCHANGED << link, maps, requests, cur, local, replies >>

PinDbFails ==
  /\ Go("pinDb", "pinReply")
  /\ local' = [local EXCEPT !.result = "SUB_FAIL"]
  /\ UNCHANGED << link, maps, requests, cur, replies >>

PinResult(spResult) ==
  CASE spResult = 0 -> "SUB_OK"
    [] spResult = 2 -> "SUB_PASS_OK"
    [] OTHER        -> "SUB_FAIL"

(* ProcessPassCheck answers 0, 1 or 2; PIN accepted clears the pending flag. *)
PinChecks ==
  /\ tick = "pinDb"
  /\ \E spResult \in 0..2 :
       /\ local' = [local EXCEPT !.result = PinResult(spResult)]
       /\ tick' = IF spResult = 0 THEN "pinClear" ELSE "pinReply"
  /\ UNCHANGED << link, maps, requests, cur, replies >>

BadPinCountsDown ==
  /\ Go("pinClear", "pinReply")
  /\ m_loginSessions' = [m_loginSessions EXCEPT ![cur].use2ndPass = @ - 1]
  /\ UNCHANGED << link, m_sessions, erasing, requests, cur, local, replies >>

BadPinClearsNothing ==
  /\ Go("pinClear", "pinReply")
  /\ UNCHANGED << link, maps, requests, cur, local, replies >>

(* Looked up again: the client's entry may have been erased meanwhile.      *)
PinClears ==
  /\ Go("pinClear", "pinReply")
  /\ m_loginSessions' = [m_loginSessions EXCEPT ![cur].use2ndPass = 0]
  /\ UNCHANGED << link, m_sessions, erasing, requests, cur, local, replies >>

PinReplies ==
  /\ Go("pinReply", "idle")
  /\ Send([kind |-> "pin", userNum |-> 0, result |-> local.result])
  /\ UNCHANGED << link, maps, requests, cur, local >>

-----------------------------------------------------------------------------
Dispatch ==
  \/ \E c \in Clients : DispatchDrops(c) \/ \E kind \in Messages : DispatchFinds(c, kind)
  \/ Ignored
  \/ LoginShort \/ LoginFails \/ LoginSucceeds \/ LoginStores \/ LoginReplies
  \/ LobbyFinds \/ LobbyRefuses \/ ListReplies \/ DetailFails \/ DetailReplies
  \/ PinNotPending \/ PinPending \/ PinDbFails \/ PinChecks \/ PinClears \/ PinReplies
  \/ TickErases

Next == Dispatch \/ (\E c \in Clients : LinkDrops(c) \/ OnClose(c))

Spec == Init /\ [][Next]_vars

-----------------------------------------------------------------------------
(* What the client knows of its login from the replies it was sent: the     *)
(* last successful login, and whether a PIN was accepted since.             *)
IsLogin(r) == r.kind = "login" /\ LoggedIn(r.result)
IsPinOk(r) == r.kind = "pin" /\ r.result = "SUB_OK"

Known(rs) ==
  IF \A i \in 1..Len(rs) : ~IsLogin(rs[i])
    THEN NoLogin
    ELSE LET last == CHOOSE i \in 1..Len(rs) : IsLogin(rs[i]) /\ \A j \in i + 1..Len(rs) : ~IsLogin(rs[j])
         IN  [userNum    |-> rs[last].userNum,
              use2ndPass |-> IF \E j \in last + 1..Len(rs) : IsPinOk(rs[j])
                               THEN 0 ELSE Use2nd(rs[last].result)]

(* Between two messages the login state of every client in the session map  *)
(* is the one its replies told it: no login is lost, stored for another client or      *)
(* survives in part, whatever links drop meanwhile.                         *)
StateMatchesReplies ==
  tick = "idle" =>
    \A c \in m_sessions : m_loginSessions[c] = Known(replies[c])

(* A lobby reply is about the user that the same connection last logged in  *)
(* as (agent_server.cpp:263-268, 314-320).                                  *)
LobbyBelongsToLogin ==
  \A c \in Clients : \A i \in 1..Len(replies[c]) :
    replies[c][i].kind \in {"list", "info", "end"} =>
      /\ replies[c][i].userNum > 0
      /\ replies[c][i].userNum = Known(SubSeq(replies[c], 1, i - 1)).userNum

(* A PIN is checked only for a client whose replies so far left one pending: *)
(* a wrong PIN may be tried again, an accepted one may not, and none is      *)
(* answered before the login (agent_server.cpp:382-393, 408-413).            *)
PinAnsweredWhilePending ==
  \A c \in Clients : \A i \in 1..Len(replies[c]) :
    replies[c][i].kind = "pin" => Known(SubSeq(replies[c], 1, i - 1)).use2ndPass # 0

(* A client whose session is erased, the message in hand when that happened *)
(* being done.                                                              *)
Forgotten(c) == c \notin m_sessions /\ (tick = "idle" \/ cur # c)

(* A forgotten client is forgotten for good: no later message that was read *)
(* from it is answered, and the login entry that LoginStores may have left  *)
(* behind (agent_server.cpp:246) is neither used nor changed, except by     *)
(* another Close() that erases it.                                          *)
StrangersChangeNothing ==
  [][\A c \in Clients : Forgotten(c) =>
       /\ Forgotten(c)'
       /\ replies'[c] = replies[c]
       /\ m_loginSessions'[c] = m_loginSessions[c] \/ c \in erasing]_vars
=============================================================================
