----------------------------- MODULE AuthServer -----------------------------
(***************************************************************************)
(* The certification of servers/authserver/auth_server.cpp: dispatch() and *)
(* ProcessCertificationForAuth() from the encrypted request of another     *)
(* server to the encrypted answer.  The other side is the client of        *)
(* authserver_smoke.cpp, and the stored procedure its stand-in.            *)
(*                                                                         *)
(* The receive queue, the session map and the way out are those of module  *)
(* GameServer: here a client's messages come in its order, its session may *)
(* be erased between any two steps, and a reply is what is handed to Send. *)
(* The calls on the database are those of "cert" in module DbCallers.      *)
(***************************************************************************)
EXTENDS AuthCrypto, SequencesExt, FiniteSets

CONSTANTS
  Clients,           (* connections of other servers                          *)
  Messages,          (* what they send: its type, the fields that the sender  *)
                     (* means, and szAuthData                                 *)
  GOODKEY,           (* the key that the procedure certifies                  *)
  NewSuffix,         (* what the procedure appends to a key                   *)
  AUTH_DATA_LENGTH,  (* characters of szAuthData (500)                        *)
  MAX_IP_LENGTH,     (* characters of szServerIP (20)                         *)
  MaxMessages        (* Bound: messages sent, of all clients together         *)

VARIABLES
  m_sessions,   (* the clients in the session map                             *)
  m_recvMsgs,   (* messages to be dispatched; the first one is in hand        *)
  tick,         (* where dispatch() is                                        *)
  req,          (* dispatch()'s variables                                     *)
  res,
  sent,         (* history, per client: the messages it sent                  *)
  replies       (* history, per client: what was handed to Send for it        *)

vars == << m_sessions, m_recvMsgs, tick, req, res, sent, replies >>

-----------------------------------------------------------------------------
(* Texts.  Characters: 0 ends a C string, 1..10 are the decimal digits, 11  *)
(* is the comma, the rest are letters.                                      *)
Comma == 11

to_string(n) ==
  LET digits[k \in 0..n] == IF k < 10 THEN << k + 1 >> ELSE Append(digits[k \div 10], (k % 10) + 1)
  IN  digits[n]

(* The value of the leading digits; 0 without any.                          *)
atoi(s) ==
  LET value[k \in 0..Len(s)] ==
        IF k = 0 THEN 0
        ELSE IF \E j \in 1..k : s[j] \notin 1..10 THEN value[k - 1]
        ELSE 10 * value[k - 1] + s[k] - 1
  IN  value[Len(s)]

(* One step of splitFields().                                               *)
NextChar(out, c) ==
  IF c = Comma THEN Append(out, << >>) ELSE [out EXCEPT ![Len(out)] = Append(@, c)]

(* Faulty variants, named Bad..., are what a plausible bug would make of    *)
(* the definition that follows them; no specification uses them.            *)
BadSplitFields(s) ==
  LET out[k \in 0..Len(s)] == IF k = 0 THEN << << >> >> ELSE NextChar(out[k - 1], s[k])
  IN  IF Last(out[Len(s)]) = << >> THEN Front(out[Len(s)]) ELSE out[Len(s)]

splitFields(s) ==
  LET out[k \in 0..Len(s)] == IF k = 0 THEN << << >> >> ELSE NextChar(out[k - 1], s[k]) IN out[Len(s)]

Joined(fields) ==
  LET text[k \in 1..Len(fields)] == IF k = 1 THEN fields[1] ELSE text[k - 1] \o << Comma >> \o fields[k]
  IN  text[Len(fields)]

BadStrncpy(s, n) == LET m == IF Len(s) < n + 1 THEN Len(s) ELSE n + 1 IN SubSeq(s, 1, m)

(* strncpy into a field that keeps a 0 behind its n characters.             *)
strncpy(s, n) == LET m == IF Len(s) < n THEN Len(s) ELSE n IN SubSeq(s, 1, m)

(* szAuthData, of a request and of an answer.                               *)
Seal(fields) == strncpy(EncryptAuthData(Joined(fields)), AUTH_DATA_LENGTH)

(* Texts that can be a field.                                               *)
Plain == Seq((1..Byte - 1) \ {Comma})

(* A text cut off at the end of szAuthData is not a number of whole blocks. *)
ASSUME TextAssumption ==
  /\ Comma < Byte
  /\ AUTH_DATA_LENGTH \in Nat /\ AUTH_DATA_LENGTH % (2 * Block) # 0
  /\ MAX_IP_LENGTH \in Nat
  /\ NewSuffix \in Plain

(* A request carries its fields, sealed, or else it was damaged: then it has*)
(* too few fields, if any can be read.                                      *)
ASSUME MessagesAssumption ==
  \A m \in Messages :
    /\ {"type", "fields", "authData"} \subseteq DOMAIN m
    /\ m.type \in {"request", "short", "other"} /\ m.fields \in Seq(Plain)
    /\ m.type = "request" =>
         \/ m.fields # << >> /\ m.authData = Seal(m.fields) /\ Len(m.authData) < AUTH_DATA_LENGTH
         \/ Len(m.fields) < 5 /\ Len(splitFields(DecryptAuthData(m.authData))) < 5

-----------------------------------------------------------------------------
SERVER_SESSION == 2

NoReq == [country |-> 0, serverType |-> 0, ip |-> << >>, port |-> 0, uniqKey |-> << >>, isSessionSvr |-> 0]

CertRequest(f) ==
  [country |-> atoi(f[1]), serverType |-> atoi(f[2]), ip |-> f[3], port |-> atoi(f[4]), uniqKey |-> f[5],
   isSessionSvr |-> IF atoi(f[2]) = SERVER_SESSION THEN 1 ELSE 0]

NoCert == [certification |-> 0, sessionSvrId |-> 0, newUniqKey |-> << >>]

(* The row of dbo.sp_CertificationUniqKey.                                  *)
CertificationUniqKey(r) ==
  [certification |-> IF r.uniqKey = GOODKEY THEN 1 ELSE 0,
   sessionSvrId  |-> r.port + 1000,
   newUniqKey    |-> r.uniqKey \o NewSuffix]

BadAnswer(r, c) ==
  [country |-> r.country, serverType |-> r.serverType, serverIP |-> strncpy(r.ip, MAX_IP_LENGTH), port |-> r.port,
   sessionSvrId |-> IF r.serverType = SERVER_SESSION THEN c.sessionSvrId ELSE 0,
   authData |-> Seal(<< to_string(r.country), to_string(r.serverType), strncpy(r.ip, MAX_IP_LENGTH),
                        to_string(r.port), c.newUniqKey, to_string(c.certification) >>)]

(* The G_AUTH_INFO of the answer.                                           *)
Answer(r, c) ==
  [country |-> r.country, serverType |-> r.serverType, serverIP |-> strncpy(r.ip, MAX_IP_LENGTH), port |-> r.port,
   sessionSvrId |-> IF r.serverType = SERVER_SESSION THEN c.sessionSvrId ELSE 0,
   authData |-> Seal(<< to_string(r.country), to_string(r.serverType), r.ip,
                        to_string(r.port), c.newUniqKey, to_string(c.certification) >>)]

-----------------------------------------------------------------------------
Init ==
  /\ m_sessions = Clients
  /\ m_recvMsgs = << >>
  /\ tick = "idle"
  /\ req = NoReq
  /\ res = NoCert
  /\ sent = [c \in Clients |-> << >>]
  /\ replies = [c \in Clients |-> << >>]

Count(seqs) == FoldFunction(LAMBDA s, n : n + Len(s), 0, seqs)

(* The client of the smoke test, with more to say.                          *)
Asks(c, message) ==
  /\ c \in m_sessions
  /\ Count(sent) < MaxMessages
  /\ sent' = [sent EXCEPT ![c] = Append(@, message)]
  /\ m_recvMsgs' = Append(m_recvMsgs, [client |-> c, message |-> message])
  /\ UNCHANGED << m_sessions, tick, req, res, replies >>

OnClose(c) ==
  /\ c \in m_sessions
  /\ m_sessions' = m_sessions \ {c}
  /\ UNCHANGED << m_recvMsgs, tick, req, res, sent, replies >>

InHand == Head(m_recvMsgs).message
Asker  == Head(m_recvMsgs).client

Dispatches == tick = "idle" /\ m_recvMsgs # << >>
Send(reply) == replies' = [replies EXCEPT ![Asker] = Append(@, reply)]
Done == m_recvMsgs' = Tail(m_recvMsgs) /\ UNCHANGED << m_sessions, sent >>

DispatchDrops ==
  /\ Dispatches
  /\ Asker \notin m_sessions
  /\ Done
  /\ UNCHANGED << tick, req, res, replies >>

(* Another type of message comes back as it is.                             *)
DispatchEchoes ==
  /\ Dispatches
  /\ Asker \in m_sessions
  /\ InHand.type = "other"
  /\ Send(InHand)
  /\ Done
  /\ UNCHANGED << tick, req, res >>

Fields == splitFields(DecryptAuthData(InHand.authData))

(* An empty text has one field.                                             *)
FieldsSuffice == Len(Fields) >= 5

(* Too small for a G_AUTH_INFO, not to be decrypted, or too few fields: not *)
(* answered.                                                                *)
DispatchIgnores ==
  /\ Dispatches
  /\ Asker \in m_sessions
  /\ InHand.type # "other"
  /\ InHand.type = "short" \/ ~FieldsSuffice
  /\ Done
  /\ UNCHANGED << tick, req, res, replies >>

BadDispatchParses ==
  /\ Dispatches
  /\ Asker \in m_sessions
  /\ InHand.type = "request" /\ FieldsSuffice
  /\ tick' = "certify"
  /\ req' = CertRequest(Fields)
  /\ UNCHANGED << m_sessions, m_recvMsgs, res, sent, replies >>

DispatchParses ==
  /\ Dispatches
  /\ Asker \in m_sessions
  /\ InHand.type = "request" /\ FieldsSuffice
  /\ tick' = "certify"
  /\ req' = CertRequest(Fields)
  /\ res' = NoCert
  /\ UNCHANGED << m_sessions, m_recvMsgs, sent, replies >>

(* The procedure fails or has no row, or else its row is read, column by    *)
(* column: one that cannot be read is 0 or empty.                           *)
ProcessCertificationForAuth ==
  LET row == CertificationUniqKey(req) IN
  /\ tick = "certify"
  /\ tick' = "answer"
  /\ \/ UNCHANGED res
     \/ res' \in [certification : {0, row.certification}, sessionSvrId : {0, row.sessionSvrId},
                  newUniqKey : {<< >>, row.newUniqKey}]
  /\ UNCHANGED << m_sessions, m_recvMsgs, req, sent, replies >>

(* Answered in any case, to the session that was found before.              *)
DispatchAnswers ==
  /\ tick = "answer"
  /\ tick' = "idle"
  /\ Send(Answer(req, res))
  /\ Done
  /\ UNCHANGED << req, res >>

Next ==
  \/ \E c \in Clients : OnClose(c) \/ \E message \in Messages : Asks(c, message)
  \/ DispatchDrops \/ DispatchEchoes \/ DispatchIgnores
  \/ DispatchParses \/ ProcessCertificationForAuth \/ DispatchAnswers

Spec == Init /\ [][Next]_vars

-----------------------------------------------------------------------------
(* The queue holds only messages that were sent, and an answer fits its     *)
(* fields (auth_server.cpp:153-174, auth_server_msg.h:34-44).               *)
TypeOK ==
  /\ m_sessions \subseteq Clients
  /\ \A i \in DOMAIN m_recvMsgs :
       m_recvMsgs[i].client \in Clients /\ m_recvMsgs[i].message \in ToSet(sent[m_recvMsgs[i].client])
  /\ tick \in {"idle", "certify", "answer"}
  /\ req.ip \in Texts /\ req.uniqKey \in Texts /\ req.isSessionSvr \in {0, 1}
  /\ res.certification \in {0, 1} /\ res.newUniqKey \in Texts
  /\ \A c \in Clients : \A i \in DOMAIN replies[c] :
       \/ replies[c][i] \in ToSet(sent[c])
       \/ /\ Len(replies[c][i].authData) <= AUTH_DATA_LENGTH
          /\ Len(replies[c][i].serverIP) <= MAX_IP_LENGTH

(* The messages that call for a reply are those of another type than the   *)
(* request, and the requests with at least the five fields.                 *)
CallsForReply(m) == m.type = "other" \/ (m.type = "request" /\ Len(m.fields) >= 5)

Answerable(messages) == {i \in DOMAIN messages : CallsForReply(messages[i])}

Waiting(c) == {i \in DOMAIN m_recvMsgs : m_recvMsgs[i].client = c /\ CallsForReply(m_recvMsgs[i].message)}

(* As long as its session is there, a server gets one reply for every       *)
(* message that calls for one and none for another, whatever the database   *)
(* does: a request is not dropped because the procedure failed, and a       *)
(* damaged one is not answered (auth_server.cpp:128-182).                   *)
EveryRequestAnswered ==
  \A c \in m_sessions : Len(replies[c]) + Cardinality(Waiting(c)) = Cardinality(Answerable(sent[c]))

IsAnswer(reply) == "type" \notin DOMAIN reply

(* The last reply of each client with the message that it answers; the      *)
(* replies before were the last ones earlier.                               *)
Answered == {c \in Clients : replies[c] # << >> /\ IsAnswer(Last(replies[c]))}
AnswerTo(c) == Last(replies[c])
Request(c)  ==
  sent[c][CHOOSE i \in Answerable(sent[c]) : Cardinality({j \in Answerable(sent[c]) : j <= i}) = Len(replies[c])]
ReadBack(c) == splitFields(DecryptAuthData(AnswerTo(c).authData))

(* The answer, decrypted, has the fields of the very request that it        *)
(* answers, numbers by value; an answer too long for szAuthData is cut,     *)
(* which the other side cannot decrypt, but never takes for something else  *)
(* (auth_server.cpp:149-181, auth_crypto.cpp:93-164).                       *)
AnswerReadsBack ==
  \A c \in Answered :
    LET f == ReadBack(c)
        own == Request(c).fields
    IN  IF Len(AnswerTo(c).authData) = AUTH_DATA_LENGTH THEN f = << << >> >> ELSE
          /\ Len(f) = 6
          /\ f[3] = own[3]
          /\ \A i \in {1, 2, 4} : atoi(f[i]) = atoi(own[i])

(* A server is certified only if the procedure certified the key that it    *)
(* sent itself with this request, and it is told no key and no session id   *)
(* of another one, whatever failed or was left unread                       *)
(* (auth_server.cpp:149-179, 187-210).                                      *)
CertifiedByOwnKey ==
  \A c \in Answered :
    LET f == ReadBack(c)
        own == Request(c).fields
    IN  /\ AnswerTo(c).sessionSvrId \in {0} \cup
             (IF atoi(own[2]) = SERVER_SESSION THEN {atoi(own[4]) + 1000} ELSE {})
        /\ Len(f) = 6 => /\ atoi(f[6]) # 0 => own[5] = GOODKEY
                         /\ f[5] \in {<< >>, own[5] \o NewSuffix}
=============================================================================
