------------------------- MODULE AgentServerProofs -------------------------
(***************************************************************************)
(* Theorems about AgentServer for any clients, users and answers of the    *)
(* stored procedures.                                                      *)
(***************************************************************************)
EXTENDS AgentServer, SequenceTheorems, TLAPS

-----------------------------------------------------------------------------
(* What a client knows after one more reply.                                *)

LastLogin(rs, i) == IsLogin(rs[i]) /\ \A j \in i + 1..Len(rs) : ~IsLogin(rs[j])

(* A list of replies has a last login or none at all.  That every list does *)
(* takes an induction; that a list which grows by one does, does not.       *)
HasLastLogin(rs) ==
  (\E i \in 1..Len(rs) : IsLogin(rs[i])) => \E i \in 1..Len(rs) : LastLogin(rs, i)

After(known, r) ==
  IF IsLogin(r) THEN [userNum |-> r.userNum, use2ndPass |-> Use2nd(r.result)]
  ELSE IF IsPinOk(r) THEN [known EXCEPT !.use2ndPass = 0]
  ELSE known

(* The last login decides, wherever it is.                                  *)
LEMMA KnownByLast ==
  ASSUME NEW rs \in Seq(Reply), NEW last \in 1..Len(rs), LastLogin(rs, last)
  PROVE  Known(rs) = [userNum    |-> rs[last].userNum,
                      use2ndPass |-> IF \E j \in last + 1..Len(rs) : IsPinOk(rs[j])
                                       THEN 0 ELSE Use2nd(rs[last].result)]
<1>1. ~ \A i \in 1..Len(rs) : ~IsLogin(rs[i])
  BY DEF LastLogin
<1>2. \A i \in 1..Len(rs) : LastLogin(rs, i) => i = last
  BY DEF LastLogin
<1> DEFINE k == CHOOSE i \in 1..Len(rs) : IsLogin(rs[i]) /\ \A j \in i + 1..Len(rs) : ~IsLogin(rs[j])
<1>3. k \in 1..Len(rs) /\ LastLogin(rs, k)
  BY DEF LastLogin
<1>4. k = last
  BY <1>2, <1>3
<1>5. Known(rs) = [userNum    |-> rs[k].userNum,
                  use2ndPass |-> IF \E j \in k + 1..Len(rs) : IsPinOk(rs[j]) THEN 0 ELSE Use2nd(rs[k].result)]
  BY <1>1, Zenon DEF Known
<1> HIDE DEF k
<1> QED
  BY <1>4, <1>5

(* One more reply changes what the client knows by that reply alone.        *)
LEMMA KnownAfter ==
  ASSUME NEW rs \in Seq(Reply), NEW r \in Reply, HasLastLogin(rs)
  PROVE  HasLastLogin(Append(rs, r)) /\ Known(Append(rs, r)) = After(Known(rs), r)
<1> DEFINE new == Append(rs, r)
           n == Len(rs) + 1
<1>1. new \in Seq(Reply) /\ Len(new) = n /\ new[n] = r /\ \A i \in 1..Len(rs) : new[i] = rs[i]
  OBVIOUS
<1>2. Len(rs) \in Nat
  OBVIOUS
<1> HIDE DEF new
<1>3. CASE IsLogin(r)
  <2>1. LastLogin(new, n)
    BY <1>1, <1>2, <1>3 DEF LastLogin
  <2>2. n \in 1..Len(new) /\ ~ \E j \in n + 1..Len(new) : IsPinOk(new[j])
    BY <1>1, <1>2
  <2> QED
    BY <1>1, <1>3, <2>1, <2>2, KnownByLast DEF HasLastLogin, After, new
<1>4. CASE ~IsLogin(r) /\ \E i \in 1..Len(rs) : IsLogin(rs[i])
  <2>1. PICK last \in 1..Len(rs) : LastLogin(rs, last)
    BY <1>4 DEF HasLastLogin
  <2>2. last \in 1..Len(new) /\ LastLogin(new, last)
    BY <1>1, <1>2, <1>4, <2>1 DEF LastLogin
  <2>3. (\E j \in last + 1..Len(new) : IsPinOk(new[j])) <=>
          IsPinOk(r) \/ \E j \in last + 1..Len(rs) : IsPinOk(rs[j])
    BY <1>1, <1>2, <2>1
  <2>4. new[last] = rs[last]
    BY <1>1
  <2> DEFINE pinOk == \E j \in last + 1..Len(rs) : IsPinOk(rs[j])
             second == Use2nd(rs[last].result)
  <2>5. Known(rs) = [userNum |-> rs[last].userNum, use2ndPass |-> IF pinOk THEN 0 ELSE second]
    BY <2>1, KnownByLast
  <2>6. Known(new) = [userNum |-> rs[last].userNum, use2ndPass |-> IF IsPinOk(r) \/ pinOk THEN 0 ELSE second]
    BY <1>1, <2>2, <2>3, <2>4, KnownByLast
  <2> HIDE DEF pinOk, second
  <2>7. Known(new) = After(Known(rs), r)
    BY <1>4, <2>5, <2>6 DEF After
  <2> QED
    BY <2>2, <2>7 DEF HasLastLogin, new
<1>5. CASE ~IsLogin(r) /\ \A i \in 1..Len(rs) : ~IsLogin(rs[i])
  <2>1. \A i \in 1..Len(new) : ~IsLogin(new[i])
    BY <1>1, <1>2, <1>5
  <2>2. Known(rs) = NoLogin /\ Known(new) = NoLogin
    BY <1>5, <2>1 DEF Known
  <2> QED
    BY <1>5, <2>1, <2>2 DEF HasLastLogin, After, NoLogin, new
<1> QED
  BY <1>3, <1>4, <1>5

-----------------------------------------------------------------------------
(* The reply that dispatch() has changed the login state for and has still  *)
(* to send.                                                                 *)
Owed ==
  IF tick = "feedback"
    THEN [kind |-> "login", userNum |-> local.userNum, result |-> local.result]
    ELSE [kind |-> "pin", userNum |-> 0, result |-> local.result]

(* In the middle of a dispatch the login state of every client is the one   *)
(* its replies told it, but for the client in hand when its reply is owed;  *)
(* and what dispatch() has read of the state before its last database call  *)
(* still agrees with what that client was told.                             *)
DispatchInvariant ==
  /\ \A c \in Clients : HasLastLogin(replies[c])
  /\ \A c \in m_sessions :
       m_loginSessions[c] = IF c = cur /\ tick \in {"feedback", "pinReply"}
                              THEN After(Known(replies[c]), Owed) ELSE Known(replies[c])
  /\ tick = "store" => LoggedIn(local.result)
  /\ tick = "pinClear" => local.result = "SUB_OK"
  /\ tick \in {"list", "detail", "pin"} /\ cur \notin m_sessions => m_loginSessions[cur] = NoLogin
  /\ tick \in {"listDb", "detailDb"} => local.userNum > 0 /\ local.userNum = Known(replies[cur]).userNum
  /\ tick \in {"pinDb", "pinClear", "pinReply"} => Known(replies[cur]).use2ndPass # 0

(* Every code of gs_user_verify has a result.                               *)
LEMMA LoginResultType ==
  ASSUME NEW code
  PROVE  LoginResult(code) \in Results
BY DEF LoginResult, Results

(* An owed reply is a reply.                                                *)
LEMMA OwedType ==
  ASSUME TypeOK, tick \in {"feedback", "pinReply"}
  PROVE  Owed \in Reply
BY DEF TypeOK, Owed, Reply

(* What the steps that answer hand to Send.                                 *)
LEMMA RepliesGrow ==
  ASSUME TypeOK
  PROVE  /\ LoginReplies \/ PinReplies =>
              Owed \in Reply /\ replies' = [replies EXCEPT ![cur] = Append(replies[cur], Owed)]
         /\ ListReplies => \E r \in Reply :
              /\ r.kind = "list" /\ r.userNum = local.userNum
              /\ replies' = [replies EXCEPT ![cur] = Append(replies[cur], r)]
         /\ DetailReplies => \E r, e \in Reply :
              /\ r.kind = "info" /\ e.kind = "end" /\ r.userNum = local.userNum /\ e.userNum = local.userNum
              /\ replies' = [replies EXCEPT ![cur] = Append(Append(replies[cur], r), e)]
         /\ LoginReplies \/ ListReplies \/ PinReplies \/ DetailReplies =>
              \E rs \in Seq(Reply) : replies' = [replies EXCEPT ![cur] = rs]
<1>0. replies[cur] \in Seq(Reply)
  BY DEF TypeOK
<1>1. ASSUME LoginReplies \/ PinReplies
      PROVE  Owed \in Reply /\ replies' = [replies EXCEPT ![cur] = Append(replies[cur], Owed)]
  <2>1. tick \in {"feedback", "pinReply"}
    BY <1>1 DEF LoginReplies, PinReplies, Go
  <2>2. Owed \in Reply
    BY <2>1, OwedType
  <2> QED
    BY <1>1, <2>2 DEF LoginReplies, PinReplies, Go, Send, Owed
<1>2. ASSUME ListReplies
      PROVE  \E r \in Reply :
              /\ r.kind = "list" /\ r.userNum = local.userNum
              /\ replies' = [replies EXCEPT ![cur] = Append(replies[cur], r)]
  <2> DEFINE r == [kind |-> "list", userNum |-> local.userNum, result |-> "none"]
  <2>1. r \in Reply
    BY DEF TypeOK, Reply
  <2>2. replies' = [replies EXCEPT ![cur] = Append(replies[cur], r)]
    BY <1>2 DEF ListReplies, Send
  <2> QED
    BY <2>1, <2>2
<1>3. ASSUME DetailReplies
      PROVE  \E r, e \in Reply :
              /\ r.kind = "info" /\ e.kind = "end" /\ r.userNum = local.userNum /\ e.userNum = local.userNum
              /\ replies' = [replies EXCEPT ![cur] = Append(Append(replies[cur], r), e)]
  <2> DEFINE r == [kind |-> "info", userNum |-> local.userNum, result |-> "none"]
             e == [r EXCEPT !.kind = "end"]
  <2>1. r \in Reply /\ e \in Reply
    BY DEF TypeOK, Reply
  <2>2. replies' = [replies EXCEPT ![cur] = replies[cur] \o << r, e >>]
    BY <1>3 DEF DetailReplies
  <2> HIDE DEF r, e
  <2>3. replies[cur] \o << r, e >> = Append(Append(replies[cur], r), e)
    BY <1>0, <2>1
  <2> QED
    BY <2>1, <2>2, <2>3 DEF r, e
<1> QED
  BY <1>0, <1>1, <1>2, <1>3, AppendProperties

(* The handlers of the login keep their type (agent_server.cpp): every      *)
(* reply is one the client knows.                                           *)
THEOREM AgentTypeCorrect == Spec => []TypeOK
<1>1. Init => TypeOK
  BY AgentAssumption DEF Init, TypeOK, NoLogin, NoLocal, Logins
<1>2. TypeOK /\ [Next]_vars => TypeOK'
  <2> SUFFICES ASSUME TypeOK, [Next]_vars PROVE TypeOK'
    OBVIOUS
  <2> USE AgentAssumption DEF TypeOK, Go, maps, Messages
  <2>1. ASSUME NEW c \in Clients, LinkDrops(c) PROVE TypeOK'
    BY <2>1 DEF LinkDrops
  <2>13. ASSUME NEW c \in Clients, DispatchDrops(c) PROVE TypeOK'
    <3>1. requests' \in 0..MaxRequests
      BY <2>13 DEF DispatchDrops
    <3> QED
      BY <2>13, <3>1 DEF DispatchDrops
  <2>2. ASSUME NEW c \in Clients, OnClose(c) PROVE TypeOK'
    BY <2>2 DEF OnClose, Erased, NoLogin, Logins
  <2>3. CASE TickErases
    BY <2>3 DEF TickErases, Erased, NoLogin, Logins
  <2>4. ASSUME NEW c \in Clients, NEW kind \in Messages, DispatchFinds(c, kind) PROVE TypeOK'
    BY <2>4 DEF DispatchFinds, NoLocal
  <2>5. CASE Ignored \/ LoginShort \/ LobbyRefuses \/ DetailFails \/ PinNotPending \/ PinPending
    BY <2>5 DEF Ignored, LoginShort, LobbyRefuses, DetailFails, PinNotPending, PinPending, CloseFromTick
  <2>6. CASE LoginFails \/ LoginSucceeds
    <3>1. local' \in [userNum : Users \cup {0}, result : Results \cup {"none"}]
      <4>1. {"SUB_INCORRECT", "SUB_SYSTEM"} \subseteq Results /\ \A code \in VerifyCodes : LoginResult(code) \in Results
        BY LoginResultType DEF Results
      <4>2. CASE LoginFails
        <5>1. PICK result \in Results : local' = [local EXCEPT !.result = result]
          BY <4>1, <4>2 DEF LoginFails
        <5> QED
          BY <5>1
      <4>3. CASE LoginSucceeds
        <5>1. PICK result \in Results, userNum \in Users \cup {0} :
                local' = [local EXCEPT !.result = result, !.userNum = userNum]
          BY <4>1, <4>3 DEF LoginSucceeds
        <5> QED
          BY <5>1
      <4> QED
        BY <2>6, <4>2, <4>3
    <3> QED
      BY <2>6, <3>1 DEF LoginFails, LoginSucceeds
  <2>7. CASE LoginStores
    <3>1. Use2nd(local.result) \in 0..2
      BY DEF Use2nd
    <3> QED
      BY <2>7, <3>1 DEF LoginStores, Logins
  <2>8. CASE LobbyFinds
    BY <2>8 DEF LobbyFinds, Logins
  <2>9. CASE PinDbFails \/ PinChecks
    BY <2>9 DEF PinDbFails, PinChecks, PinResult, Results
  <2>10. CASE PinClears
    BY <2>10 DEF PinClears, Logins
  <2>11. CASE LoginReplies \/ ListReplies \/ PinReplies \/ DetailReplies
    <3>1. PICK rs \in Seq(Reply) : replies' = [replies EXCEPT ![cur] = rs]
      BY <2>11, RepliesGrow
    <3>2. replies' \in [Clients -> Seq(Reply)]
      BY <3>1
    <3>3. tick' = "idle" /\ UNCHANGED << link, maps, requests, cur, local >>
      BY <2>11 DEF LoginReplies, ListReplies, PinReplies, DetailReplies
    <3> QED
      BY <3>2, <3>3
  <2>12. CASE UNCHANGED vars
    BY <2>12 DEF vars
  <2> HIDE DEF TypeOK, Go, maps, Messages
  <2> QED
    BY <2>1, <2>2, <2>3, <2>4, <2>5, <2>6, <2>7, <2>8, <2>9, <2>10, <2>11, <2>12, <2>13 DEF Next, Dispatch
<1> QED
  BY <1>1, <1>2, PTL DEF Spec

-----------------------------------------------------------------------------
(* A reply that is neither a login nor about a PIN tells nothing new.       *)
LEMMA NothingNew ==
  ASSUME NEW r \in Reply, r.kind \in {"list", "info", "end"}, NEW known
  PROVE  After(known, r) = known
BY DEF After, IsLogin, IsPinOk

(* What dispatch() knows in the middle of a message stays true of what the  *)
(* client was told, whatever the workers erase meanwhile                    *)
(* (agent_server.cpp:134-413).                                              *)
THEOREM DispatchInvariantHolds == Spec => []DispatchInvariant
<1>1. Init => DispatchInvariant
  BY DEF Init, DispatchInvariant, HasLastLogin, Known
<1>2. TypeOK /\ DispatchInvariant /\ [Next]_vars => DispatchInvariant'
  <2> SUFFICES ASSUME TypeOK, DispatchInvariant, [Next]_vars PROVE DispatchInvariant'
    OBVIOUS
  <2>0. /\ m_loginSessions \in [Clients -> Logins] /\ cur \in Clients /\ m_sessions \subseteq Clients
        /\ replies \in [Clients -> Seq(Reply)]
        /\ local \in [userNum : Users \cup {0}, result : Results \cup {"none"}]
    BY DEF TypeOK
  <2>1. ASSUME UNCHANGED << m_sessions, m_loginSessions, cur, local, replies >>,
               tick' \in {tick, "idle", "erase"}, tick' = tick \/ tick \notin {"feedback", "pinReply"}
        PROVE  DispatchInvariant'
    BY <2>1 DEF DispatchInvariant, Owed
  <2>2. ASSUME NEW c \in Clients, LinkDrops(c) \/ DispatchDrops(c) PROVE DispatchInvariant'
    BY <2>1, <2>2 DEF LinkDrops, DispatchDrops, maps
  <2>3. CASE Ignored \/ LoginShort \/ LobbyRefuses \/ DetailFails \/ PinNotPending
    BY <2>1, <2>3 DEF Ignored, LoginShort, LobbyRefuses, DetailFails, PinNotPending, CloseFromTick, Go, maps
  <2>4. CASE UNCHANGED vars
    BY <2>1, <2>4 DEF vars, maps
  <2>5. ASSUME NEW c \in Clients, Erased(c), UNCHANGED << cur, local, replies >>,
               tick' = tick \/ (c = cur /\ tick = "erase" /\ tick' = "idle")
        PROVE  DispatchInvariant'
    <3>1. m_sessions' = m_sessions \ {c} /\ m_loginSessions' = [m_loginSessions EXCEPT ![c] = NoLogin]
      BY <2>5 DEF Erased
    <3>2. \A d \in m_sessions' : m_loginSessions'[d] = m_loginSessions[d] /\ d \in m_sessions
      BY <2>0, <3>1
    <3>3. m_loginSessions'[cur] \in {m_loginSessions[cur], NoLogin}
          /\ (cur \notin m_sessions' => cur \notin m_sessions \/ m_loginSessions'[cur] = NoLogin)
      BY <2>0, <3>1
    <3>4. Owed' = Owed \/ tick' = "idle"
      BY <2>5 DEF Owed
    <3> QED
      BY <2>5, <3>2, <3>3, <3>4 DEF DispatchInvariant
  <2>6. ASSUME NEW c \in Clients, OnClose(c) PROVE DispatchInvariant'
    BY <2>5, <2>6 DEF OnClose
  <2>7. CASE TickErases
    BY <2>0, <2>5, <2>7 DEF TickErases, Go
  <2>8. ASSUME NEW c \in Clients, NEW kind \in Messages, DispatchFinds(c, kind) PROVE DispatchInvariant'
    BY <2>8 DEF DispatchFinds, Go, Messages, maps, DispatchInvariant
  <2>9. CASE LoginFails
    <3>1. tick' = "feedback" /\ ~LoggedIn(local'.result)
          /\ UNCHANGED << m_sessions, m_loginSessions, cur, replies >> /\ tick = "login"
      BY <2>0, <2>9 DEF LoginFails, Go, maps
    <3>2. \A known : After(known, Owed') = known
      BY <3>1 DEF After, Owed, IsLogin, IsPinOk
    <3> QED
      BY <3>1, <3>2 DEF DispatchInvariant
  <2>10. CASE LoginSucceeds
    <3>1. tick = "login" /\ tick' = "store" /\ LoggedIn(local'.result)
          /\ UNCHANGED << m_sessions, m_loginSessions, cur, replies >>
      BY <2>0, <2>10 DEF LoginSucceeds, Go, maps
    <3> QED
      BY <3>1 DEF DispatchInvariant
  <2>11. CASE LoginStores
    <3>1. tick = "store" /\ tick' = "feedback" /\ UNCHANGED << m_sessions, cur, local, replies >>
      BY <2>11 DEF LoginStores, Go
    <3>2. \A known : After(known, Owed') = [userNum |-> local.userNum, use2ndPass |-> Use2nd(local.result)]
      BY <3>1 DEF After, Owed, IsLogin, DispatchInvariant
    <3>3. m_loginSessions'[cur] = [userNum |-> local.userNum, use2ndPass |-> Use2nd(local.result)]
          /\ \A c \in Clients \ {cur} : m_loginSessions'[c] = m_loginSessions[c]
      BY <2>0, <2>11 DEF LoginStores
    <3> QED
      BY <2>0, <3>1, <3>2, <3>3 DEF DispatchInvariant
  <2>12. CASE LobbyFinds
    <3>1. tick \in {"list", "detail"} /\ tick' \in {"listDb", "detailDb"}
          /\ UNCHANGED << m_sessions, m_loginSessions, cur, replies >>
          /\ m_loginSessions[cur].userNum > 0 /\ local'.userNum = m_loginSessions[cur].userNum
      BY <2>0, <2>12 DEF LobbyFinds, maps
    <3>2. cur \in m_sessions
      BY <3>1 DEF DispatchInvariant, NoLogin
    <3> QED
      BY <3>1, <3>2 DEF DispatchInvariant
  <2>13. CASE PinPending
    <3>1. tick = "pin" /\ tick' = "pinDb" /\ m_loginSessions[cur].use2ndPass # 0
          /\ UNCHANGED << m_sessions, m_loginSessions, cur, local, replies >>
      BY <2>13 DEF PinPending, Go, maps
    <3>2. cur \in m_sessions
      BY <3>1 DEF DispatchInvariant, NoLogin
    <3> QED
      BY <3>1, <3>2 DEF DispatchInvariant
  <2>14. CASE PinDbFails \/ PinChecks
    <3>1. tick = "pinDb" /\ UNCHANGED << m_sessions, m_loginSessions, cur, replies >>
          /\ \/ tick' = "pinClear" /\ local'.result = "SUB_OK"
             \/ tick' = "pinReply" /\ local'.result # "SUB_OK"
      BY <2>0, <2>14 DEF PinDbFails, PinChecks, PinResult, Go, maps
    <3>2. tick' = "pinReply" => \A known : After(known, Owed') = known
      BY <3>1 DEF After, Owed, IsLogin, IsPinOk
    <3> QED
      BY <3>1, <3>2 DEF DispatchInvariant
  <2>15. CASE PinClears
    <3>1. tick = "pinClear" /\ tick' = "pinReply" /\ UNCHANGED << m_sessions, cur, local, replies >>
      BY <2>15 DEF PinClears, Go
    <3>2. \A known : After(known, Owed') = [known EXCEPT !.use2ndPass = 0]
      BY <3>1 DEF After, Owed, IsLogin, IsPinOk, DispatchInvariant
    <3>3. m_loginSessions'[cur] = [m_loginSessions[cur] EXCEPT !.use2ndPass = 0]
          /\ \A c \in Clients \ {cur} : m_loginSessions'[c] = m_loginSessions[c]
      BY <2>0, <2>15 DEF PinClears
    <3>4. cur \in m_sessions => m_loginSessions'[cur] = After(Known(replies[cur]), Owed')
      <4>1. cur \in m_sessions => m_loginSessions[cur] = Known(replies[cur])
        BY <3>1 DEF DispatchInvariant
      <4> QED
        BY <3>2, <3>3, <4>1
    <3> QED
      BY <2>0, <3>1, <3>3, <3>4 DEF DispatchInvariant
  <2>16. ASSUME tick' = "idle", UNCHANGED << m_sessions, m_loginSessions, cur >>,
                NEW rs \in Seq(Reply), HasLastLogin(rs), replies' = [replies EXCEPT ![cur] = rs],
                cur \in m_sessions => m_loginSessions[cur] = Known(rs)
         PROVE  DispatchInvariant'
    <3>1. replies'[cur] = rs /\ \A c \in Clients \ {cur} : replies'[c] = replies[c]
      BY <2>0, <2>16
    <3> QED
      BY <2>0, <2>16, <3>1 DEF DispatchInvariant
  <2>17. CASE LoginReplies \/ PinReplies
    <3>1. tick \in {"feedback", "pinReply"} /\ tick' = "idle" /\ UNCHANGED << m_sessions, m_loginSessions, cur >>
      BY <2>17 DEF LoginReplies, PinReplies, Go, maps
    <3>2. Owed \in Reply /\ replies' = [replies EXCEPT ![cur] = Append(replies[cur], Owed)]
      BY <2>17, RepliesGrow
    <3> DEFINE rs == Append(replies[cur], Owed)
    <3>3. rs \in Seq(Reply) /\ HasLastLogin(rs) /\ Known(rs) = After(Known(replies[cur]), Owed)
      BY <2>0, <3>2, KnownAfter, AppendProperties DEF DispatchInvariant
    <3>4. cur \in m_sessions => m_loginSessions[cur] = Known(rs)
      BY <3>1, <3>3 DEF DispatchInvariant
    <3> QED
      BY <2>16, <3>1, <3>2, <3>3, <3>4
  <2>18. CASE ListReplies
    <3>1. tick = "listDb" /\ tick' = "idle" /\ UNCHANGED << m_sessions, m_loginSessions, cur >>
      BY <2>18 DEF ListReplies, Go, maps
    <3>2. PICK r \in Reply : r.kind = "list" /\ replies' = [replies EXCEPT ![cur] = Append(replies[cur], r)]
      BY <2>18, RepliesGrow
    <3> DEFINE rs == Append(replies[cur], r)
    <3>3. rs \in Seq(Reply) /\ HasLastLogin(rs) /\ Known(rs) = Known(replies[cur])
      BY <2>0, <3>2, KnownAfter, NothingNew, AppendProperties DEF DispatchInvariant
    <3>4. cur \in m_sessions => m_loginSessions[cur] = Known(rs)
      BY <3>1, <3>3 DEF DispatchInvariant
    <3> QED
      BY <2>16, <3>1, <3>2, <3>3, <3>4
  <2>19. CASE DetailReplies
    <3>1. tick = "detailDb" /\ tick' = "idle" /\ UNCHANGED << m_sessions, m_loginSessions, cur >>
      BY <2>19 DEF DetailReplies, Go, maps
    <3>2. PICK r, e \in Reply :
            /\ r.kind = "info" /\ e.kind = "end"
            /\ replies' = [replies EXCEPT ![cur] = Append(Append(replies[cur], r), e)]
      BY <2>19, RepliesGrow
    <3> DEFINE is == Append(replies[cur], r)
               rs == Append(is, e)
    <3>3. is \in Seq(Reply) /\ HasLastLogin(is) /\ Known(is) = Known(replies[cur])
      BY <2>0, <3>2, KnownAfter, NothingNew, AppendProperties DEF DispatchInvariant
    <3> HIDE DEF is
    <3>4. rs \in Seq(Reply) /\ HasLastLogin(rs) /\ Known(rs) = Known(is)
      BY <3>2, <3>3, KnownAfter, NothingNew, AppendProperties
    <3>5. cur \in m_sessions => m_loginSessions[cur] = Known(rs)
      BY <3>1, <3>3, <3>4 DEF DispatchInvariant
    <3>6. replies' = [replies EXCEPT ![cur] = rs]
      BY <3>2 DEF is
    <3> QED
      BY <2>16, <3>1, <3>4, <3>5, <3>6
  <2> QED
    BY <2>2, <2>3, <2>4, <2>6, <2>7, <2>8, <2>9, <2>10, <2>11, <2>12, <2>13, <2>14, <2>15, <2>17, <2>18, <2>19
    DEF Next, Dispatch
<1> QED
  BY <1>1, <1>2, AgentTypeCorrect, PTL DEF Spec

(* Between two messages the login state of every client in the session map  *)
(* is the one its replies told it (agent_server.cpp:224-259, 408-413).      *)
THEOREM StateMatchesRepliesCorrect == Spec => []StateMatchesReplies
<1>1. DispatchInvariant => StateMatchesReplies
  BY DEF DispatchInvariant, StateMatchesReplies
<1> QED
  BY <1>1, DispatchInvariantHolds, PTL

-----------------------------------------------------------------------------
(* Of the replies of one client: lobby replies belong to the last login,    *)
(* PIN replies come while a PIN is pending.                                 *)
Justified(rs, i) ==
  /\ rs[i].kind \in {"list", "info", "end"} =>
       rs[i].userNum > 0 /\ rs[i].userNum = Known(SubSeq(rs, 1, i - 1)).userNum
  /\ rs[i].kind = "pin" => Known(SubSeq(rs, 1, i - 1)).use2ndPass # 0

AllJustified(rs) == \A i \in 1..Len(rs) : Justified(rs, i)

(* One more reply leaves the earlier ones justified.                        *)
LEMMA JustifiedAppend ==
  ASSUME NEW rs \in Seq(Reply), NEW r \in Reply, AllJustified(rs),
         r.kind \in {"list", "info", "end"} => r.userNum > 0 /\ r.userNum = Known(rs).userNum,
         r.kind = "pin" => Known(rs).use2ndPass # 0
  PROVE  AllJustified(Append(rs, r))
<1> DEFINE new == Append(rs, r)
           n == Len(rs) + 1
<1>1. new \in Seq(Reply) /\ Len(new) = n /\ new[n] = r /\ \A i \in 1..Len(rs) : new[i] = rs[i]
  BY AppendProperties
<1>2. Len(rs) \in Nat
  OBVIOUS
<1>3. ASSUME NEW i \in 1..n PROVE SubSeq(new, 1, i - 1) = SubSeq(rs, 1, i - 1)
  <2> DEFINE s == SubSeq(new, 1, i - 1)
             t == SubSeq(rs, 1, i - 1)
  <2>1. /\ s \in Seq(Reply) /\ Len(s) = i - 1 /\ \A j \in 1..i - 1 : s[j] = new[j]
        /\ t \in Seq(Reply) /\ Len(t) = i - 1 /\ \A j \in 1..i - 1 : t[j] = rs[j]
    <3>1. i - 1 \in Nat /\ i - 1 <= Len(rs)
      BY <1>2
    <3>2. \A j \in 1..i - 1 : new[j] \in Reply /\ rs[j] \in Reply
      BY <1>1, <1>2, <3>1
    <3> HIDE DEF new
    <3> QED
      BY <1>2, <3>1, <3>2, SubSeqProperties
  <2> HIDE DEF s, t, new
  <2>2. \A j \in 1..Len(s) : s[j] = t[j]
    BY <1>1, <1>2, <2>1
  <2> QED
    BY <2>1, <2>2, SeqEqual DEF s, t
<1>4. SubSeq(rs, 1, n - 1) = rs
  BY <1>2, SubSeqFull
<1> HIDE DEF new
<1>5. ASSUME NEW i \in 1..Len(new) PROVE Justified(new, i)
  <2>1. CASE i = n
    BY <1>1, <1>3, <1>4, <2>1 DEF Justified
  <2>2. CASE i # n
    <3>1. i \in 1..Len(rs) /\ i \in 1..n
      BY <1>1, <1>2, <2>2
    <3>2. Justified(rs, i)
      BY <3>1 DEF AllJustified
    <3> QED
      BY <1>1, <1>3, <3>1, <3>2 DEF Justified
  <2> QED
    BY <2>1, <2>2
<1> QED
  BY <1>5 DEF AllJustified, new

(* Every reply that was sent is justified by the replies before it.         *)
THEOREM RepliesJustified == Spec => [](\A c \in Clients : AllJustified(replies[c]))
<1> DEFINE Inv == \A c \in Clients : AllJustified(replies[c])
<1>1. Init => Inv
  BY DEF Init, AllJustified
<1>2. TypeOK /\ DispatchInvariant /\ Inv /\ [Next]_vars => Inv'
  <2> SUFFICES ASSUME TypeOK, DispatchInvariant, Inv, [Next]_vars PROVE Inv'
    OBVIOUS
  <2>0. cur \in Clients /\ replies \in [Clients -> Seq(Reply)] /\ replies[cur] \in Seq(Reply)
    BY DEF TypeOK
  <2>1. CASE replies' = replies
    BY <2>1
  <2>2. ASSUME NEW rs, AllJustified(rs), replies' = [replies EXCEPT ![cur] = rs] PROVE Inv'
    BY <2>0, <2>2
  <2>3. CASE LoginReplies \/ PinReplies
    <3>1. Owed \in Reply /\ replies' = [replies EXCEPT ![cur] = Append(replies[cur], Owed)]
      BY <2>3, RepliesGrow
    <3>2. Owed.kind = "login" \/ (Owed.kind = "pin" /\ Known(replies[cur]).use2ndPass # 0)
      <4>1. CASE tick = "feedback"
        <5>0. Owed = [kind |-> "login", userNum |-> local.userNum, result |-> local.result]
          BY <4>1 DEF Owed
        <5> QED
          BY <5>0
      <4>2. CASE tick = "pinReply"
        <5>0. Owed = [kind |-> "pin", userNum |-> 0, result |-> local.result]
          BY <4>2 DEF Owed
        <5>1. Owed.kind = "pin"
          BY <5>0
        <5> QED
          BY <4>2, <5>1 DEF DispatchInvariant
      <4> QED
        BY <2>3, <4>1, <4>2 DEF LoginReplies, PinReplies, Go
    <3>4. AllJustified(replies[cur])
      BY <2>0
    <3>5. Owed.kind \notin {"list", "info", "end"} /\ (Owed.kind = "pin" => Known(replies[cur]).use2ndPass # 0)
      BY <3>2
    <3>3. AllJustified(Append(replies[cur], Owed))
      BY <2>0, <3>1, <3>4, <3>5, JustifiedAppend
    <3> QED
      BY <2>2, <3>1, <3>3
  <2>4. CASE ListReplies
    <3>1. PICK r \in Reply :
            /\ r.kind = "list" /\ r.userNum = local.userNum
            /\ replies' = [replies EXCEPT ![cur] = Append(replies[cur], r)]
      BY <2>4, RepliesGrow
    <3>2. r.userNum > 0 /\ r.userNum = Known(replies[cur]).userNum
      BY <2>4, <3>1 DEF ListReplies, Go, DispatchInvariant
    <3>3. AllJustified(Append(replies[cur], r))
      BY <2>0, <3>1, <3>2, JustifiedAppend
    <3> QED
      BY <2>2, <3>1, <3>3
  <2>5. CASE DetailReplies
    <3>1. PICK r, e \in Reply :
            /\ r.kind = "info" /\ e.kind = "end" /\ r.userNum = local.userNum /\ e.userNum = local.userNum
            /\ replies' = [replies EXCEPT ![cur] = Append(Append(replies[cur], r), e)]
      BY <2>5, RepliesGrow
    <3> DEFINE is == Append(replies[cur], r)
    <3>2. r.userNum > 0 /\ r.userNum = Known(replies[cur]).userNum /\ HasLastLogin(replies[cur])
      BY <2>0, <2>5, <3>1 DEF DetailReplies, Go, DispatchInvariant
    <3>3. is \in Seq(Reply) /\ AllJustified(is) /\ Known(is) = Known(replies[cur])
      BY <2>0, <3>1, <3>2, JustifiedAppend, KnownAfter, NothingNew, AppendProperties
    <3> HIDE DEF is
    <3>4. AllJustified(Append(is, e))
      BY <3>1, <3>2, <3>3, JustifiedAppend
    <3> QED
      BY <2>2, <3>1, <3>4 DEF is
  <2>6. replies' = replies \/ LoginReplies \/ PinReplies \/ ListReplies \/ DetailReplies
    BY DEF Next, Dispatch, vars, LinkDrops, OnClose, DispatchDrops, DispatchFinds, Ignored, LoginShort, LoginFails,
       LoginSucceeds, LoginStores, LobbyFinds, LobbyRefuses, DetailFails, PinNotPending, PinPending, PinDbFails,
       PinChecks, PinClears, TickErases
  <2> QED
    BY <2>1, <2>3, <2>4, <2>5, <2>6
<1> QED
  BY <1>1, <1>2, AgentTypeCorrect, DispatchInvariantHolds, PTL DEF Spec

(* A lobby reply is about the user that the same connection last logged in  *)
(* as (agent_server.cpp:263-268, 314-320).                                  *)
THEOREM LobbyBelongsToLoginCorrect == Spec => []LobbyBelongsToLogin
<1>1. (\A c \in Clients : AllJustified(replies[c])) => LobbyBelongsToLogin
  BY DEF AllJustified, Justified, LobbyBelongsToLogin
<1> QED
  BY <1>1, RepliesJustified, PTL

(* A PIN is checked only while the replies so far left one pending          *)
(* (agent_server.cpp:382-393, 408-413).                                     *)
THEOREM PinAnsweredWhilePendingCorrect == Spec => []PinAnsweredWhilePending
<1>1. (\A c \in Clients : AllJustified(replies[c])) => PinAnsweredWhilePending
  BY DEF AllJustified, Justified, PinAnsweredWhilePending
<1> QED
  BY <1>1, RepliesJustified, PTL

(* A forgotten client is forgotten for good, also the login that was stored *)
(* after its entry was erased (agent_server.cpp:246).                       *)
THEOREM StrangersChangeNothingCorrect == Spec => StrangersChangeNothing
<1> DEFINE Kept(c) == /\ Forgotten(c)'
                      /\ replies'[c] = replies[c]
                      /\ m_loginSessions'[c] = m_loginSessions[c] \/ c \in erasing
<1>1. TypeOK /\ [Next]_vars => [\A c \in Clients : Forgotten(c) => Kept(c)]_vars
  <2> SUFFICES ASSUME TypeOK, Next, NEW c \in Clients, Forgotten(c) PROVE Kept(c)
    OBVIOUS
  <2>0. m_loginSessions \in [Clients -> Logins] /\ replies \in [Clients -> Seq(Reply)] /\ cur \in Clients
    BY DEF TypeOK
  <2> USE DEF Forgotten
  <2>1. ASSUME NEW d \in Clients, LinkDrops(d) \/ DispatchDrops(d) PROVE Kept(c)
    BY <2>1 DEF LinkDrops, DispatchDrops, maps
  <2>2. ASSUME NEW d \in Clients, OnClose(d) PROVE Kept(c)
    BY <2>0, <2>2 DEF OnClose, Erased
  <2>3. ASSUME NEW d \in Clients, NEW kind \in Messages, DispatchFinds(d, kind) PROVE Kept(c)
    BY <2>3 DEF DispatchFinds, maps
  <2>4. CASE tick # "idle"
    <3>1. c # cur /\ c \notin m_sessions
      BY <2>4
    <3>2. CASE UNCHANGED << m_sessions, m_loginSessions, cur, replies >>
      BY <3>1, <3>2
    <3>3. CASE LoginStores \/ PinClears
      BY <2>0, <3>1, <3>3 DEF LoginStores, PinClears
    <3>4. CASE TickErases
      BY <2>0, <3>1, <3>4 DEF TickErases, Erased
    <3>5. CASE LoginReplies \/ ListReplies \/ PinReplies \/ DetailReplies
      BY <2>0, <3>1, <3>5 DEF LoginReplies, ListReplies, PinReplies, DetailReplies, Send, maps
    <3>6. CASE Ignored \/ LoginShort \/ LoginFails \/ LoginSucceeds \/ LobbyFinds \/ LobbyRefuses
               \/ DetailFails \/ PinNotPending \/ PinPending \/ PinDbFails \/ PinChecks
      BY <3>2, <3>6 DEF Ignored, LoginShort, LoginFails, LoginSucceeds, LobbyFinds, LobbyRefuses,
         DetailFails, PinNotPending, PinPending, PinDbFails, PinChecks, maps
    <3> QED
      BY <2>1, <2>2, <2>3, <3>3, <3>4, <3>5, <3>6 DEF Next, Dispatch
  <2>5. CASE tick = "idle"
    <3>1. \E d \in Clients : LinkDrops(d) \/ DispatchDrops(d) \/ OnClose(d) \/ \E kind \in Messages : DispatchFinds(d, kind)
      BY <2>5 DEF Next, Dispatch, Ignored, LoginShort, LoginFails, LoginSucceeds, LoginStores, LoginReplies,
         LobbyFinds, LobbyRefuses, ListReplies, DetailFails, DetailReplies,
         PinNotPending, PinPending, PinDbFails, PinChecks, PinClears, PinReplies, TickErases, Go
    <3> QED
      BY <2>1, <2>2, <2>3, <3>1
  <2> QED
    BY <2>4, <2>5
<1> QED
  BY <1>1, AgentTypeCorrect, PTL DEF Spec, StrangersChangeNothing
=============================================================================
