---------------------------- MODULE SystemProofs ----------------------------
(***************************************************************************)
(* Theorems about System: the client is one of GameClient and the server   *)
(* one of GameServer, whatever the network and the threads do, and the     *)
(* answer that the user's thread handles is still true at the server.      *)
(*                                                                         *)
(* The invariant follows the one login and its answer through the queues   *)
(* of both programs: Token(n) says where it is, if it is still anywhere,   *)
(* and that nothing else in either program looks like it.                  *)
(***************************************************************************)
EXTENDS System, TLAPS

USE SystemAssumption

-----------------------------------------------------------------------------
(* The login, on its way to the server and back *)

LoginReq == Request([name |-> "LoginReq"])
Ping == Request([name |-> "Ping"])

\* The answer of a server that has handled the login.
Reply == Sv!LoginRsp(IF authed[Own] THEN "Success" ELSE "Logined")

\* The handlers and the closures that carry it.
WriteReq   == Cl!C!Handler("write", "ok", [name |-> "LoginReq"])
ReadReq    == Sv!C!Handler("body", "ok", LoginReq)
HandleReq  == Sv!Task("LoginReq", Own, LoginReq)
ReadHeader == Cl!C!Handler("header", "ok", NoMsg)
Written    == Cl!C!Handler("written", "ok", NoMsg)

\* The places of f in the sequence q.
At(q, f) == {i \in DOMAIN q : q[i] = f}
AtMostOne(q, f) == \A i, j \in At(q, f) : i = j
Never(q, f) == At(q, f) = {}

\* How far the login has come, if it has not been lost on the way: it is,
\* after the connection, in a closure of the client's pipe (1), being written
\* (2), under way (3), read (4), in the queue of the logic thread (5); its answer
\* is in a closure of the session (6), being written (7), under way (8), read (9).
Stages == 0 .. 9

\* The client: it writes the login once, and before its pings.
Sending(n) ==
  /\ n = 0 <=> phase # "connected"
  /\ n <= 1 <=> first = NoMsg
  /\ AtMostOne(pipe.ioq, WriteReq) /\ (n # 1 => Never(pipe.ioq, WriteReq))
  /\ n <= 1 => pipe.write_bufs = <<>>
  /\ \A i \in DOMAIN pipe.write_bufs :
       pipe.write_bufs[i].name = "LoginReq" => i = 1
  /\ pipe.writing > 0 /\ Head(pipe.write_bufs).name = "LoginReq" => n = 2

\* The way to the server.
Asking(n) ==
  /\ c2s \in Seq({LoginReq, Ping})
  /\ AtMostOne(c2s, LoginReq) /\ (n # 3 => Never(c2s, LoginReq))

\* The server: it reads the login once and handles it once.
Serving(n) ==
  /\ n <= 3 => logins[Own] = 0
  /\ AtMostOne(conn[Own].ioq, ReadReq) /\ (n # 4 => Never(conn[Own].ioq, ReadReq))
  /\ AtMostOne(logicq, HandleReq) /\ (n # 5 => Never(logicq, HandleReq))
  /\ \A i \in DOMAIN logicq : logicq[i].run = "LoginReq" => logicq[i].s = Own
  /\ n <= 5 => ~authed[Own]
  /\ authed[Own] => user_id[Own] = Uid

\* The session: what it writes is the answer, once.
Replying(n) ==
  /\ Sv!C!Single(conn[Own], {"write"})
  /\ n # 6 => Sv!C!Queued(conn[Own], {"write"}) = {}
  /\ \A i \in Sv!C!Queued(conn[Own], {"write"}) : conn[Own].ioq[i].m = Reply
  /\ conn[Own].write_bufs \in IF n <= 6 THEN {<<>>} ELSE {<<>>, <<Reply>>}
  /\ n # 7 => conn[Own].writing = 0

\* The way back, and the client: nothing but the answer is there.
Answering(n) ==
  /\ s2c \in IF n # 8 THEN {<<>>} ELSE {<<>>, <<Reply>>}
  /\ n <= 8 => ~answered /\ userq = <<>>
  /\ \A i \in DOMAIN pipe.ioq :
       Cl!C!IsMessage(pipe.ioq[i]) => n = 9 /\ pipe.ioq[i].m = Reply
  /\ \A i \in DOMAIN userq : userq[i] = Reply.result

\* The client reads a body when its header has come, and then there is one.
Following ==
  pipe.reading = "body" \/ ~Never(pipe.ioq, ReadHeader) => s2c # <<>>

\* While the login that was sent is still in the client's queue, the handler that
\* takes it out comes before that of a header.
Sent ==
  /\ pipe.write_bufs # <<>> /\ pipe.writing = 0
  /\ Head(pipe.write_bufs).name = "LoginReq"

Popping ==
  /\ pipe.reading # "body"
  /\ \E i \in At(pipe.ioq, Written) : \A j \in At(pipe.ioq, ReadHeader) : i < j

Token(n) ==
  /\ Sending(n) /\ Asking(n) /\ Serving(n) /\ Replying(n) /\ Answering(n)
  /\ Following
  /\ n >= 3 /\ Sent => Popping

\* The invariants of both programs and of the registry, and the login between
\* them.
SystemInv ==
  /\ Cl!ClientInv /\ Sv!ServerInv /\ Sv!RP!ExclusiveInv
  /\ \E n \in Stages : Token(n)

-----------------------------------------------------------------------------
(* The assumptions of the modules that are composed *)

LEMMA Composed ==
  /\ Cl!ClientAssumption /\ Sv!ServerAssumption /\ Sv!RP!RegistryAssumption
<1>1. Cl!ClientAssumption
  BY DEF SystemAssumption, Cl!ClientAssumption
<1>2. Sv!ServerAssumption
  BY DEF SystemAssumption, Sv!ServerAssumption, Sessions
<1>3. Sv!RP!RegistryAssumption
  BY DEF SystemAssumption, Sv!RP!RegistryAssumption, Sessions
<1> QED BY <1>1, <1>2, <1>3

-----------------------------------------------------------------------------
(* Places in a sequence *)

LEMMA AppendAt ==
  ASSUME NEW S, NEW q \in Seq(S), NEW x, NEW f
  PROVE  /\ x # f => At(Append(q, x), f) = At(q, f)
         /\ x # f /\ AtMostOne(q, f) => AtMostOne(Append(q, x), f)
         /\ Never(q, f) => AtMostOne(Append(q, x), f)
<1> DEFINE p == Append(q, x)
<1>1. /\ DOMAIN q = 1 .. Len(q) /\ Len(q) \in Nat
      /\ DOMAIN p = 1 .. Len(q) + 1
      /\ \A i \in 1 .. Len(q) : p[i] = q[i]
      /\ p[Len(q) + 1] = x
  OBVIOUS
<1> HIDE DEF p
<1>2. x # f => At(p, f) = At(q, f)
  BY <1>1 DEF At
<1>3. Never(q, f) => AtMostOne(p, f)
  <2> SUFFICES ASSUME Never(q, f), NEW i \in At(p, f), NEW j \in At(p, f)
               PROVE  i = j
    BY DEF AtMostOne
  <2> QED BY <1>1 DEF At, Never
<1> QED BY <1>2, <1>3 DEF AtMostOne, p

LEMMA TailAt ==
  ASSUME NEW S, NEW q \in Seq(S), q # <<>>, NEW f
  PROVE  /\ AtMostOne(q, f) => AtMostOne(Tail(q), f)
         /\ Never(q, f) => Never(Tail(q), f) /\ Head(q) # f
         /\ AtMostOne(q, f) /\ Head(q) = f => Never(Tail(q), f)
<1> DEFINE p == Tail(q)
<1>1. /\ DOMAIN q = 1 .. Len(q) /\ Len(q) \in Nat /\ 1 \in DOMAIN q
      /\ Head(q) = q[1] /\ DOMAIN p = 1 .. Len(q) - 1
      /\ \A i \in DOMAIN p : i + 1 \in DOMAIN q /\ p[i] = q[i + 1]
  OBVIOUS
<1> HIDE DEF p
<1>2. \A i \in At(p, f) : i \in Nat /\ i > 0 /\ i + 1 \in At(q, f)
  BY <1>1 DEF At
<1>3. Head(q) = f => 1 \in At(q, f)
  BY <1>1 DEF At
<1>4. AtMostOne(q, f) => AtMostOne(p, f)
  <2> SUFFICES ASSUME AtMostOne(q, f), NEW i \in At(p, f), NEW j \in At(p, f)
               PROVE  i = j
    BY DEF AtMostOne
  <2>1. i + 1 = j + 1
    BY <1>2 DEF AtMostOne
  <2> QED BY <1>2, <2>1
<1>5. Never(q, f) => Never(p, f) /\ Head(q) # f
  BY <1>2, <1>3 DEF Never
<1>6. AtMostOne(q, f) /\ Head(q) = f => Never(p, f)
  <2> SUFFICES ASSUME AtMostOne(q, f), Head(q) = f, NEW i \in At(p, f)
               PROVE  FALSE
    BY DEF Never
  <2>1. i + 1 = 1
    BY <1>2, <1>3 DEF AtMostOne
  <2> QED BY <1>2, <2>1
<1> QED BY <1>4, <1>5, <1>6 DEF p

\* What is put on a queue of handlers that is not looked for here.
LEMMA PaddedAt ==
  ASSUME NEW c, NEW d, NEW f
  PROVE  /\ Cl!C!Padded(d, c) /\ ~Cl!C!Plain(f) => At(d.ioq, f) = At(c.ioq, f)
         /\ Sv!C!Padded(d, c) /\ ~Sv!C!Plain(f) => At(d.ioq, f) = At(c.ioq, f)
         /\ Cl!C!Padded(d, c) => At(c.ioq, f) \subseteq At(d.ioq, f)
  BY DEF Cl!C!Padded, Sv!C!Padded, Cl!C!Plain, Sv!C!Plain, At

\* None of the handlers that carry the login is put there unnoticed.
LEMMA Carriers ==
  /\ ~Cl!C!Plain(WriteReq) /\ ~Cl!C!Plain(ReadHeader) /\ ~Sv!C!Plain(ReadReq)
  /\ WriteReq.h = "write" /\ ReadHeader.h = "header" /\ Written.h = "written"
  /\ Written.ec = "ok" /\ ReadHeader.ec = "ok"
  /\ LoginReq.name = "LoginReq" /\ Ping.name = "Ping" /\ LoginReq # Ping
  BY DEF WriteReq, ReadHeader, ReadReq, Written, Cl!C!Plain, Sv!C!Plain,
         Cl!C!Handler, Sv!C!Handler, LoginReq, Ping, Request

-----------------------------------------------------------------------------
(* A step of the one program is no step of the other *)

LEMMA ServerStutters == Client => UNCHANGED server
  BY DEF Client, Connect, ClientReadsHeader, ClientReadsBody, ClientReadFails,
         ClientWrites, ClientWriteFails, ClientTimer, ClientIo, ClientUser,
         server

LEMMA ClientStutters == Server => UNCHANGED client
  BY DEF Server, Accept, ServerReadsHeader, ServerReadsBody, ServerReadFails,
         ServerWrites, ServerWriteFails, ServerTimer, ServerIo, Logic,
         OtherCloses, client

\* Nothing but an answer is on the way to the client.
LEMMA AnswerComes ==
  ASSUME NEW n \in Stages, Token(n), s2c # <<>>
  PROVE  /\ n = 8 /\ s2c = <<Reply>> /\ Head(s2c) = Reply /\ Tail(s2c) = <<>>
         /\ Reply.name = "LoginRsp" /\ Reply.result \in {"Success", "Logined"}
         /\ Reply = [name |-> "LoginRsp", result |-> Reply.result]
<1>1. n = 8 /\ s2c = <<Reply>>
  BY DEF Token, Answering
<1>2. Head(<<Reply>>) = Reply /\ Tail(<<Reply>>) = <<>>
  OBVIOUS
<1> QED BY <1>1, <1>2 DEF Reply, Sv!LoginRsp

\* The client reads it after LoginReq was handed to async_write.
LEMMA AnswerAfter ==
  ASSUME NEW n \in Stages, Token(n), s2c # <<>>, pipe.reading = "body"
  PROVE  Cl!LoginSent /\ ~answered
<1>1. n = 8
  BY AnswerComes
<1>2. first # NoMsg /\ ~answered
  BY <1>1 DEF Token, Sending, Answering
<1>3. ~Sent
  BY <1>1 DEF Token, Popping
<1> QED BY <1>2, <1>3 DEF Cl!LoginSent, Sent

\* Every step of the client is one of GameClient.
LEMMA ClientRefines ==
  ASSUME NEW n \in Stages, Token(n), Client
  PROVE  Cl!Next
<1>1. CASE Connect
  BY <1>1 DEF Connect, Cl!Next
<1>2. CASE ClientReadsHeader
  <2>1. Cl!HeaderArrives
    BY <1>2 DEF ClientReadsHeader, Cl!HeaderArrives
  <2> QED BY <2>1 DEF Cl!Next, Cl!Network
<1>3. CASE ClientReadsBody
  <2> DEFINE r == Reply.result
  <2>1. pipe.reading = "body" /\ s2c # <<>>
    BY <1>3 DEF ClientReadsBody
  <2>2. /\ Head(s2c) = [name |-> "LoginRsp", result |-> r]
        /\ Head(s2c).name = "LoginRsp" /\ r \in {"Success", "Logined"}
    BY <2>1, AnswerComes
  <2>3. answered' = TRUE
    BY <1>3, <2>2 DEF ClientReadsBody
  <2>4. pipe' = Cl!C!ReadCompletes(pipe, "ok",
                                   [name |-> "LoginRsp", result |-> r])
    BY <1>3, <2>2 DEF ClientReadsBody
  <2>5. UNCHANGED <<phase, gameclient, recent, pinging, stopping, userq,
                    cl_closes, first, cl_frames>>
    BY <1>3 DEF ClientReadsBody
  <2> HIDE DEF r
  <2>6. Cl!AnswerArrives
    BY <2>1, <2>2, <2>3, <2>4, <2>5, AnswerAfter DEF Cl!AnswerArrives
  <2> QED BY <2>6 DEF Cl!Next, Cl!Network
<1>4. CASE ClientReadFails
  BY <1>4 DEF ClientReadFails, Cl!Next, Cl!Network
<1>5. CASE ClientWrites \/ ClientWriteFails
  <2>1. Cl!WriteEnds
    BY <1>5 DEF ClientWrites, ClientWriteFails, Cl!WriteEnds, Cl!server
  <2> QED BY <2>1 DEF Cl!Next, Cl!Network
<1>6. CASE ClientTimer \/ ClientIo \/ ClientUser
  BY <1>6 DEF ClientTimer, ClientIo, ClientUser, Cl!Next
<1> QED BY <1>1, <1>2, <1>3, <1>4, <1>5, <1>6 DEF Client

\* The one message that is read with the name LoginReq is the login, once.
LEMMA LoginComes ==
  ASSUME NEW n \in Stages, Token(n), c2s # <<>>
  PROVE  /\ Head(c2s) \in {LoginReq, Ping} /\ Tail(c2s) \in Seq({LoginReq, Ping})
         /\ Head(c2s).name = "LoginReq" =>
              Head(c2s) = LoginReq /\ n = 3 /\ logins[Own] = 0
<1>1. c2s \in Seq({LoginReq, Ping})
  BY DEF Token, Asking
<1>2. Head(c2s) \in {LoginReq, Ping} /\ Tail(c2s) \in Seq({LoginReq, Ping})
  BY <1>1
<1>3. ASSUME Head(c2s).name = "LoginReq"
      PROVE  Head(c2s) = LoginReq /\ n = 3 /\ logins[Own] = 0
  <2>1. Head(c2s) = LoginReq
    BY <1>2, <1>3, Carriers
  <2>2. n = 3
    BY <1>1, <2>1, TailAt DEF Token, Asking
  <2> QED BY <2>1, <2>2 DEF Token, Serving
<1> QED BY <1>2, <1>3

\* Every step of the server is one of GameServer.
LEMMA ServerRefines ==
  ASSUME NEW n \in Stages, Token(n), Server
  PROVE  Sv!Next
<1>1. Own \in Sessions /\ Other \in Sessions
  BY DEF Sessions
<1> SUFFICES ASSUME Server, ~Logic
             PROVE  \E s \in Sessions :
                      \/ Sv!Accept(s) \/ Sv!Network(s) \/ Sv!TimerExpires(s)
                      \/ Sv!IoThread(s)
  BY DEF Logic, Sv!Next
<1>2. CASE Accept
  BY <1>1, <1>2 DEF Accept
<1>3. CASE ServerReadsHeader
  <2>1. Sv!HeaderArrives(Own)
    BY <1>3 DEF ServerReadsHeader, Sv!HeaderArrives, registry, Sv!registry
  <2> QED BY <1>1, <2>1 DEF Sv!Network
<1>4. CASE ServerReadsBody
  <2> DEFINE m == Head(c2s)
  <2>1. /\ conn[Own].reading = "body" /\ c2s # <<>>
        /\ conn' = [conn EXCEPT ![Own] = Sv!C!ReadCompletes(@, "ok", m)]
        /\ logins' = IF m.name = "LoginReq"
                     THEN [logins EXCEPT ![Own] = @ + 1] ELSE logins
        /\ UNCHANGED <<registry, accepted, alive, logicq, sv_closes, sv_frames>>
    BY <1>4 DEF ServerReadsBody
  <2>2. /\ m \in {LoginReq, Ping}
        /\ m.name = "LoginReq" => m = LoginReq /\ logins[Own] = 0
    BY <2>1, LoginComes
  <2> HIDE DEF m
  <2>3. CASE m.name = "LoginReq"
    <3>1. LoginReq \in Sv!LoginReqs
      BY DEF LoginReq, Request, Sv!LoginReqs
    <3>2. /\ conn' = [conn EXCEPT ![Own] = Sv!C!ReadCompletes(@, "ok", LoginReq)]
          /\ logins' = [logins EXCEPT ![Own] = @ + 1] /\ logins[Own] < 1
      BY <2>1, <2>2, <2>3
    <3>3. Sv!LoginArrives(Own)
      BY <2>1, <3>1, <3>2 DEF Sv!LoginArrives, registry, Sv!registry
    <3> QED BY <1>1, <3>3 DEF Sv!Network
  <2>4. CASE m.name # "LoginReq"
    <3>1. m = Ping /\ Ping \in [name : {"Ping"}]
      BY <2>2, <2>4, Carriers DEF Ping, Request
    <3>2. Sv!BodyArrives(Own)
      BY <2>1, <2>4, <3>1
         DEF Sv!BodyArrives, registry, Sv!registry, Sv!environment
    <3> QED BY <1>1, <3>2 DEF Sv!Network
  <2> QED BY <2>3, <2>4
<1>5. CASE ServerReadFails
  BY <1>1, <1>5 DEF ServerReadFails, Sv!Network
<1>6. CASE ServerWrites \/ ServerWriteFails
  <2>1. Sv!WriteEnds(Own)
    BY <1>1, <1>6 DEF ServerWrites, ServerWriteFails, Sv!WriteEnds, registry,
                      Sv!registry, Sv!environment
  <2> QED BY <1>1, <2>1 DEF Sv!Network
<1>7. CASE ServerTimer
  BY <1>1, <1>7 DEF ServerTimer
<1>8. CASE ServerIo
  BY <1>1, <1>8 DEF ServerIo
<1>9. CASE OtherCloses
  BY <1>1, <1>9 DEF OtherCloses, Sv!IoThread
<1> QED BY <1>2, <1>3, <1>4, <1>5, <1>6, <1>7, <1>8, <1>9 DEF Server

-----------------------------------------------------------------------------
(* What the steps of the client do to the login *)

\* The pipe p before its next handler runs, or with the handler taken.
Taken(c, p) == c = p \/ (p.ioq # <<>> /\ c = Cl!C!Pop(p))

LEMMA TakenFacts ==
  ASSUME NEW p \in Cl!C!Channels, NEW c, Taken(c, p)
  PROVE  /\ c \in Cl!C!Channels /\ c.write_bufs = p.write_bufs
         /\ c.writing = p.writing /\ c.reading = p.reading
         /\ \A f : AtMostOne(p.ioq, f) => AtMostOne(c.ioq, f)
         /\ \A f : Never(p.ioq, f) => Never(c.ioq, f)
         /\ \A i \in DOMAIN c.ioq : \E j \in DOMAIN p.ioq : c.ioq[i] = p.ioq[j]
<1>1. CASE c = p
  BY <1>1
<1>2. CASE p.ioq # <<>> /\ c = Cl!C!Pop(p)
  <2>1. c \in Cl!C!Channels
    BY <1>2, Cl!C!PopType
  <2>2. /\ c.write_bufs = p.write_bufs /\ c.writing = p.writing
        /\ c.reading = p.reading
    BY <1>2, Cl!C!PopFields
  <2>3. c.ioq = Tail(p.ioq) /\ p.ioq \in Seq(Cl!C!Handlers)
    BY <1>2 DEF Cl!C!Pop, Cl!C!Channels
  <2>4. /\ \A f : AtMostOne(p.ioq, f) => AtMostOne(c.ioq, f)
        /\ \A f : Never(p.ioq, f) => Never(c.ioq, f)
    BY <1>2, <2>3, TailAt
  <2>5. \A i \in DOMAIN c.ioq : i + 1 \in DOMAIN p.ioq /\ c.ioq[i] = p.ioq[i + 1]
    BY <1>2, <2>3
  <2> QED BY <2>1, <2>2, <2>4, <2>5
<1> QED BY <1>1, <1>2 DEF Taken

\* The reading end of the pipe after a step that brings no message.
LEMMA QuietFacts ==
  ASSUME NEW p \in Cl!C!Channels, NEW c, Taken(c, p), NEW d, Cl!C!Padded(d, c)
  PROVE  /\ \A f : ~Cl!C!Plain(f) /\ AtMostOne(p.ioq, f) => AtMostOne(d.ioq, f)
         /\ \A f : ~Cl!C!Plain(f) /\ Never(p.ioq, f) => Never(d.ioq, f)
         /\ \A i \in DOMAIN d.ioq : Cl!C!IsMessage(d.ioq[i]) =>
              \E j \in DOMAIN p.ioq : d.ioq[i] = p.ioq[j]
<1>1. \A f : ~Cl!C!Plain(f) => At(d.ioq, f) = At(c.ioq, f)
  BY PaddedAt
<1>2. /\ \A f : AtMostOne(p.ioq, f) => AtMostOne(c.ioq, f)
      /\ \A f : Never(p.ioq, f) => Never(c.ioq, f)
      /\ \A i \in DOMAIN c.ioq : \E j \in DOMAIN p.ioq : c.ioq[i] = p.ioq[j]
  BY TakenFacts
<1>3. \A f : ~Cl!C!Plain(f) /\ AtMostOne(p.ioq, f) => AtMostOne(d.ioq, f)
  BY <1>1, <1>2 DEF AtMostOne
<1>4. \A f : ~Cl!C!Plain(f) /\ Never(p.ioq, f) => Never(d.ioq, f)
  BY <1>1, <1>2 DEF Never
<1>5. \A i \in DOMAIN d.ioq : Cl!C!IsMessage(d.ioq[i]) =>
        i \in DOMAIN c.ioq /\ d.ioq[i] = c.ioq[i]
  BY DEF Cl!C!Padded, Cl!C!Plain, Cl!C!IsMessage
<1> QED BY <1>2, <1>3, <1>4, <1>5

\* The handler that pops the login stays in front of those of headers.
LEMMA PoppingFacts ==
  ASSUME NEW p \in Cl!C!Channels, NEW c, Taken(c, p), NEW d, Cl!C!Padded(d, c),
         c # p => Head(p.ioq) # Written,
         NEW i \in At(p.ioq, Written), \A j \in At(p.ioq, ReadHeader) : i < j
  PROVE  \E k \in At(d.ioq, Written) : \A j \in At(d.ioq, ReadHeader) : k < j
<1>1. p.ioq \in Seq(Cl!C!Handlers)
  BY DEF Cl!C!Channels
<1>2. /\ At(c.ioq, Written) \subseteq At(d.ioq, Written)
      /\ At(d.ioq, ReadHeader) = At(c.ioq, ReadHeader)
  BY PaddedAt, Carriers
<1>3. CASE c = p
  BY <1>2, <1>3
<1>4. CASE c # p
  <2>1. p.ioq # <<>> /\ c.ioq = Tail(p.ioq) /\ Head(p.ioq) # Written
    BY <1>4 DEF Taken, Cl!C!Pop, Cl!C!Channels
  <2>2. /\ DOMAIN p.ioq = 1 .. Len(p.ioq) /\ Len(p.ioq) \in Nat
        /\ Head(p.ioq) = p.ioq[1] /\ DOMAIN c.ioq = 1 .. Len(p.ioq) - 1
        /\ \A k \in DOMAIN c.ioq : c.ioq[k] = p.ioq[k + 1]
    BY <1>1, <2>1
  <2>3. i \in 2 .. Len(p.ioq) /\ p.ioq[i] = Written
    BY <2>1, <2>2 DEF At
  <2>4. i - 1 \in DOMAIN c.ioq /\ c.ioq[i - 1] = p.ioq[(i - 1) + 1]
    BY <2>2, <2>3
  <2>5. i - 1 \in At(c.ioq, Written)
    BY <2>3, <2>4 DEF At
  <2>6. \A j \in At(c.ioq, ReadHeader) : j + 1 \in At(p.ioq, ReadHeader) /\ j \in Nat
    BY <2>2 DEF At
  <2>7. \A j \in At(c.ioq, ReadHeader) : i - 1 < j
    BY <2>3, <2>6
  <2> QED BY <1>2, <2>5, <2>7
<1> QED BY <1>3, <1>4

\* What the client holds, after a step that neither writes nor reads.
LEMMA ClientQuiet ==
  ASSUME NEW n \in Stages, Token(n), pipe \in Cl!C!Channels,
         NEW c, Taken(c, pipe), c # pipe => Head(pipe.ioq) # Written,
         NEW d, Cl!C!Quiet(d, c), pipe' = d,
         UNCHANGED <<phase, first, server, c2s, s2c, answered>>,
         n <= 8 => userq' = <<>>,
         \A i \in DOMAIN userq' : userq'[i] = Reply.result
  PROVE  Token(n)'
<1>1. /\ d.write_bufs = pipe.write_bufs /\ (d.writing > 0 => pipe.writing > 0)
      /\ d.reading = "body" => pipe.reading = "body"
      /\ Cl!C!Padded(d, c)
  BY TakenFacts DEF Cl!C!Quiet, Cl!C!Calm
<1>2. Sending(n)'
  BY <1>1, QuietFacts, Carriers DEF Token, Sending
<1>3. Asking(n)' /\ Serving(n)' /\ Replying(n)' /\ Reply' = Reply
  BY DEF Token, Asking, Serving, Replying, Reply, server, registry
<1>4. Answering(n)'
  BY <1>1, <1>3, QuietFacts DEF Token, Answering
<1>5. Following'
  BY <1>1, QuietFacts, Carriers DEF Token, Following
<1>6. n >= 3 /\ Sent' => Popping'
  <2> SUFFICES ASSUME n >= 3, Sent'
               PROVE  Popping'
    OBVIOUS
  <2>1. pipe.write_bufs # <<>> /\ Head(pipe.write_bufs).name = "LoginReq"
    BY <1>1 DEF Sent
  <2>2. pipe.writing = 0
    <3>1. n # 2 /\ pipe.writing \in Nat
      BY DEF Cl!C!Channels
    <3> QED BY <2>1, <3>1 DEF Token, Sending
  <2>3. Popping
    BY <2>1, <2>2 DEF Sent, Token
  <2>4. \E i \in At(d.ioq, Written) : \A j \in At(d.ioq, ReadHeader) : i < j
    BY <1>1, <2>3, PoppingFacts DEF Popping
  <2>5. d.reading # "body"
    BY <1>1, <2>3 DEF Popping
  <2> QED BY <2>4, <2>5 DEF Popping
<1> QED BY <1>2, <1>3, <1>4, <1>5, <1>6 DEF Token

\* The server's part is true of another stage too when nothing is asked of the
\* server between the two.
LEMMA ServerWaits ==
  ASSUME NEW n \in Stages, Token(n), NEW m \in Stages, UNCHANGED server,
         m = n \/ (n <= 3 /\ m <= 3) \/ (n = 8 /\ m = 9)
  PROVE  Serving(m)' /\ Replying(m)' /\ Reply' = Reply
<1>1. UNCHANGED <<conn, logicq, logins, authed, user_id>>
  BY DEF server, registry
<1>2. Reply' = Reply
  BY <1>1 DEF Reply
<1>3. Serving(m) /\ Replying(m)
  BY DEF Token, Serving, Replying, Stages
<1> QED BY <1>1, <1>2, <1>3 DEF Serving, Replying

LEMMA ClientConnects ==
  ASSUME NEW n \in Stages, Token(n), Cl!ClientInv, Connect
  PROVE  \E m \in Stages : Token(m)'
<1>1. n = 0 /\ UNCHANGED <<server, c2s, s2c, first, userq, answered>>
  BY DEF Connect, Cl!Connected, Cl!ConnectFails, Token, Sending, Cl!server
<1>2. /\ pipe = Cl!C!Connected /\ first = NoMsg /\ userq = <<>>
      /\ ~answered /\ s2c = <<>>
  BY <1>1 DEF Cl!ClientInv, Token, Sending, Answering
<1>3. CASE Cl!ConnectFails
  <2>1. phase' = "failed" /\ pipe' = pipe
    BY <1>3 DEF Cl!ConnectFails
  <2>2. Serving(0)' /\ Replying(0)' /\ Reply' = Reply
    BY <1>1, ServerWaits
  <2>3. Token(0)'
    BY <1>1, <1>2, <2>1, <2>2
       DEF Token, Sending, Asking, Answering, Following
  <2> QED BY <2>3 DEF Stages
<1>4. CASE Cl!Connected
  <2> DEFINE d == Cl!C!AsyncRead(Cl!SendLogin(Cl!RunTimer(Cl!C!Connected)),
                                 "header")
  <2>1. phase' = "connected" /\ pipe' = d
    BY <1>2, <1>4 DEF Cl!Connected
  <2>2. /\ d.reading = "header" /\ d.writing = 0 /\ d.write_bufs = <<>>
        /\ DOMAIN d.ioq = {1} /\ d.ioq[1] = WriteReq
    BY Composed, Cl!ConnectedPipe DEF WriteReq
  <2> HIDE DEF d
  <2>3. AtMostOne(d.ioq, WriteReq) /\ Never(d.ioq, ReadHeader)
        /\ ~Cl!C!IsMessage(WriteReq)
    BY <2>2, Carriers DEF AtMostOne, Never, At, Cl!C!IsMessage
  <2>4. Sending(1)'
    BY <1>1, <1>2, <2>1, <2>2, <2>3 DEF Sending
  <2>5. Serving(1)' /\ Replying(1)' /\ Reply' = Reply
    BY <1>1, ServerWaits DEF Stages
  <2>6. Answering(1)' /\ Following'
    BY <1>1, <1>2, <2>1, <2>2, <2>3 DEF Answering, Following
  <2>7. Asking(1)'
    BY <1>1 DEF Token, Asking
  <2>8. Token(1)'
    BY <2>4, <2>5, <2>6, <2>7 DEF Token
  <2> QED BY <2>8 DEF Stages
<1> QED BY <1>3, <1>4 DEF Connect

\* A handler that carries nothing is ready, or that of a header.
LEMMA ClientAppends ==
  ASSUME NEW n \in Stages, Token(n), pipe \in Cl!C!Channels,
         NEW x, x # WriteReq, x # Written, ~Cl!C!IsMessage(x),
         x = ReadHeader => s2c # <<>>,
         pipe'.ioq = Append(pipe.ioq, x), pipe'.write_bufs = pipe.write_bufs,
         pipe'.writing = pipe.writing,
         pipe'.reading = "body" => pipe.reading = "body",
         UNCHANGED <<phase, first, server, c2s, s2c, answered, userq>>
  PROVE  Token(n)'
<1> DEFINE q == pipe.ioq
           r == pipe'.ioq
<1>1. q \in Seq(Cl!C!Handlers)
  BY DEF Cl!C!Channels
<1>2. /\ At(r, WriteReq) = At(q, WriteReq) /\ At(r, Written) = At(q, Written)
      /\ x # ReadHeader => At(r, ReadHeader) = At(q, ReadHeader)
  BY <1>1, AppendAt
<1>3. /\ Len(q) \in Nat /\ DOMAIN q = 1 .. Len(q) /\ DOMAIN r = 1 .. Len(q) + 1
      /\ \A i \in DOMAIN q : r[i] = q[i]
      /\ r[Len(q) + 1] = x
  BY <1>1
<1>4. Sending(n)'
  BY <1>2 DEF Token, Sending, AtMostOne, Never
<1>5. Serving(n)' /\ Replying(n)' /\ Reply' = Reply
  BY ServerWaits
<1>6. Asking(n)'
  BY DEF Token, Asking
<1>7. Answering(n)'
  <2>1. \A i \in DOMAIN r : Cl!C!IsMessage(r[i]) => i \in DOMAIN q /\ r[i] = q[i]
    BY <1>3
  <2> QED BY <1>5, <2>1 DEF Token, Answering
<1>8. Following'
  BY <1>2 DEF Token, Following, Never
<1>9. n >= 3 /\ Sent' => Popping'
  <2> SUFFICES ASSUME n >= 3, Sent
               PROVE  Popping'
    BY DEF Sent
  <2>1. PICK i \in At(q, Written) : \A j \in At(q, ReadHeader) : i < j
    BY DEF Token, Popping
  <2>2. i \in DOMAIN q
    BY DEF At
  <2>3. \A j \in At(r, ReadHeader) : j \in At(q, ReadHeader) \/ j = Len(q) + 1
    BY <1>3 DEF At
  <2>4. \A j \in At(r, ReadHeader) : i < j
    BY <1>3, <2>1, <2>2, <2>3
  <2> QED BY <1>2, <2>1, <2>4 DEF Token, Popping
<1> QED BY <1>4, <1>5, <1>6, <1>7, <1>8, <1>9 DEF Token

LEMMA ClientReceives ==
  ASSUME NEW n \in Stages, Token(n), Cl!ClientInv,
         ClientReadsHeader \/ ClientReadsBody \/ ClientReadFails
  PROVE  \E m \in Stages : Token(m)'
<1>1. pipe.reading # "none"
  BY DEF ClientReadsHeader, ClientReadsBody, ClientReadFails, Cl!ReadFails
<1>2. pipe \in Cl!C!Channels /\ Cl!C!Core(pipe)
  BY <1>1, Composed, Cl!ActivePipe
<1>3. CASE ClientReadsHeader
  <2>1. /\ pipe.reading = "header" /\ s2c # <<>>
        /\ pipe' = Cl!C!ReadCompletes(pipe, "ok", NoMsg)
        /\ UNCHANGED <<phase, first, server, c2s, s2c, answered, userq>>
    BY <1>3 DEF ClientReadsHeader
  <2>2. /\ pipe'.reading = "none" /\ pipe'.writing = pipe.writing
        /\ pipe'.write_bufs = pipe.write_bufs
        /\ pipe'.ioq = Append(pipe.ioq, ReadHeader)
    BY <1>2, <2>1, Cl!C!CompletesFields DEF ReadHeader
  <2>3. ReadHeader # WriteReq /\ ReadHeader # Written
        /\ ~Cl!C!IsMessage(ReadHeader)
    BY Carriers DEF Cl!C!IsMessage
  <2>4. Token(n)'
    BY <1>2, <2>1, <2>2, <2>3, ClientAppends
  <2> QED BY <2>4
<1>4. CASE ClientReadsBody
  <2> DEFINE x == Cl!C!Handler("body", "ok", Reply)
             q == pipe.ioq
             r == pipe'.ioq
  <2>1. /\ pipe.reading = "body" /\ s2c # <<>>
        /\ pipe' = Cl!C!ReadCompletes(pipe, "ok", Head(s2c)) /\ s2c' = Tail(s2c)
        /\ UNCHANGED <<phase, first, server, c2s, userq>>
    BY <1>4 DEF ClientReadsBody
  <2>2. n = 8 /\ Head(s2c) = Reply /\ s2c' = <<>>
    BY <2>1, AnswerComes
  <2>3. /\ pipe'.reading = "none" /\ pipe'.writing = pipe.writing
        /\ pipe'.write_bufs = pipe.write_bufs /\ r = Append(q, x)
    BY <1>2, <2>1, <2>2, Cl!C!CompletesFields
  <2>4. x # WriteReq /\ x # ReadHeader /\ x.m = Reply
    BY Carriers DEF Cl!C!Handler
  <2>5. q \in Seq(Cl!C!Handlers)
    BY <1>2 DEF Cl!C!Channels
  <2> HIDE DEF x
  <2>6. /\ At(r, WriteReq) = At(q, WriteReq)
        /\ At(r, ReadHeader) = At(q, ReadHeader)
    BY <2>3, <2>4, <2>5, AppendAt
  <2>7. \A i \in DOMAIN r : (i \in DOMAIN q /\ r[i] = q[i]) \/ r[i] = x
    BY <2>3, <2>5
  <2>8. Never(q, ReadHeader)
    BY <1>2, <2>1, Carriers
       DEF Cl!C!Core, Cl!C!OneRead, Cl!C!Queued, Cl!C!Reads, Never, At
  <2>9. ~Sent
    BY <2>1, <2>2 DEF Token, Popping
  <2>10. Serving(9)' /\ Replying(9)' /\ Reply' = Reply
    BY <2>1, <2>2, ServerWaits DEF Stages
  <2>11. Sending(9)' /\ Asking(9)'
    BY <2>1, <2>2, <2>3, <2>6 DEF Token, Sending, Asking, AtMostOne, Never
  <2>12. Answering(9)'
    BY <2>1, <2>2, <2>4, <2>7, <2>10 DEF Token, Answering
  <2>13. Following' /\ ~Sent'
    BY <2>3, <2>6, <2>8, <2>9 DEF Following, Never, Sent
  <2>14. Token(9)'
    BY <2>10, <2>11, <2>12, <2>13 DEF Token
  <2> QED BY <2>14 DEF Stages
<1>5. CASE ClientReadFails
  <2> DEFINE d == Cl!C!ReadCompletes(pipe, "error", NoMsg)
  <2>1. pipe' = d /\ UNCHANGED <<phase, first, server, c2s, s2c, answered, userq>>
    BY <1>5 DEF ClientReadFails, Cl!ReadFails, Cl!server
  <2>2. Cl!C!Quiet(d, pipe)
    BY <1>2, Cl!C!ReadFailsQuiet
  <2> HIDE DEF d
  <2>3. Taken(pipe, pipe)
    BY DEF Taken
  <2>4. /\ n <= 8 => userq' = <<>>
        /\ \A i \in DOMAIN userq' : userq'[i] = Reply.result
    BY <2>1 DEF Token, Answering
  <2>5. Token(n)'
    BY <1>2, <2>1, <2>2, <2>3, <2>4, ClientQuiet
  <2> QED BY <2>5
<1> QED BY <1>3, <1>4, <1>5

LEMMA ClientSends ==
  ASSUME NEW n \in Stages, Token(n), Cl!ClientInv,
         ClientWrites \/ ClientWriteFails
  PROVE  \E m \in Stages : Token(m)'
<1>1. pipe.writing > 0
  BY DEF ClientWrites, ClientWriteFails
<1>2. pipe \in Cl!C!Channels /\ Cl!C!Core(pipe)
  BY <1>1, Composed, Cl!ActivePipe
<1>3. pipe.write_bufs # <<>> /\ pipe.writing = 1
  BY <1>1, <1>2 DEF Cl!C!Core, Cl!C!WriteUnderway, Cl!C!OneWrite, Cl!C!Channels
<1> DEFINE m == Head(pipe.write_bufs)
<1>4. m \in [name : {"LoginReq", "Ping"}]
  <2> DEFINE S == [name : {"LoginReq", "Ping"}]
  <2>1. pipe.write_bufs \in Seq(S)
    BY <1>2 DEF Cl!C!Channels
  <2> HIDE DEF S
  <2>2. m \in S
    BY <1>3, <2>1
  <2> QED BY <2>2 DEF S
<1>5. UNCHANGED <<phase, first, server, s2c, answered, userq>>
  BY DEF ClientWrites, ClientWriteFails
<1>6. Taken(pipe, pipe)
  BY DEF Taken
<1>7. /\ n <= 8 => userq' = <<>>
      /\ \A i \in DOMAIN userq' : userq'[i] = Reply.result
  BY <1>5 DEF Token, Answering
<1>8. CASE ClientWriteFails
  <2>1. pipe' = Cl!C!WriteCompletes(pipe, "error") /\ c2s' = c2s
    BY <1>8 DEF ClientWriteFails
  <2>2. Cl!C!Quiet(pipe', pipe)
    BY <1>1, <1>2, <2>1, Cl!C!WriteCompletesQuiet
  <2>3. Token(n)'
    BY <1>2, <1>5, <1>6, <1>7, <2>1, <2>2, ClientQuiet
  <2> QED BY <2>3
<1>9. CASE ClientWrites
  <2>1. pipe' = Cl!C!WriteCompletes(pipe, "ok")
        /\ c2s' = Append(c2s, Request(m))
    BY <1>9 DEF ClientWrites
  <2>2. /\ pipe'.reading = pipe.reading /\ pipe'.writing = pipe.writing - 1
        /\ pipe'.write_bufs = pipe.write_bufs
        /\ pipe'.ioq = Append(pipe.ioq, Written)
    BY <1>2, <2>1, Cl!C!CompletesFields DEF Written
  <2>3. pipe'.writing = 0
    BY <1>3, <2>2
  <2>4. Request(m) = (IF m.name = "LoginReq" THEN LoginReq ELSE Ping)
    <3>1. m = [name |-> "LoginReq"] \/ m = [name |-> "Ping"]
      BY <1>4
    <3> QED BY <3>1 DEF LoginReq, Ping
  <2>5. /\ At(pipe'.ioq, WriteReq) = At(pipe.ioq, WriteReq)
        /\ At(pipe'.ioq, ReadHeader) = At(pipe.ioq, ReadHeader)
    BY <1>2, <2>2, AppendAt, Carriers DEF Cl!C!Channels
  <2>6. c2s \in Seq({LoginReq, Ping})
    BY DEF Token, Asking
  <2>7. \A i \in DOMAIN pipe'.ioq : Cl!C!IsMessage(pipe'.ioq[i]) =>
          i \in DOMAIN pipe.ioq /\ pipe'.ioq[i] = pipe.ioq[i]
    BY <1>2, <2>2, Carriers DEF Cl!C!IsMessage, Cl!C!Channels
  <2>8. At(pipe'.ioq, Written) # {}
    <3>1. pipe.ioq \in Seq(Cl!C!Handlers)
      BY <1>2 DEF Cl!C!Channels
    <3>2. /\ Len(pipe.ioq) + 1 \in DOMAIN Append(pipe.ioq, Written)
          /\ Append(pipe.ioq, Written)[Len(pipe.ioq) + 1] = Written
      BY <3>1
    <3> QED BY <2>2, <3>2 DEF At
  <2>9. CASE m.name = "LoginReq"
    <3>1. n = 2
      BY <1>1, <2>9 DEF Token, Sending
    <3>2. c2s' = Append(c2s, LoginReq) /\ Never(c2s, LoginReq)
      BY <2>1, <2>4, <2>9, <3>1 DEF Token, Asking
    <3>3. c2s' \in Seq({LoginReq, Ping}) /\ AtMostOne(c2s', LoginReq)
      BY <2>6, <3>2, AppendAt
    <3>4. Never(pipe.ioq, ReadHeader) /\ pipe.reading # "body"
      BY <3>1 DEF Token, Following, Answering
    <3>5. Serving(3)' /\ Replying(3)' /\ Reply' = Reply
      BY <1>5, <3>1, ServerWaits DEF Stages
    <3>6. Sending(3)'
      BY <1>5, <2>2, <2>3, <2>5, <3>1 DEF Token, Sending, AtMostOne, Never
    <3>7. Asking(3)'
      BY <3>3 DEF Asking
    <3>8. Answering(3)'
      BY <1>5, <2>7, <3>1, <3>5 DEF Token, Answering
    <3>9. Following' /\ Popping'
      BY <2>2, <2>5, <2>8, <3>4 DEF Following, Popping, Never
    <3>10. Token(3)'
      BY <3>5, <3>6, <3>7, <3>8, <3>9 DEF Token
    <3> QED BY <3>10 DEF Stages
  <2>10. CASE m.name # "LoginReq"
    <3>1. c2s' = Append(c2s, Ping)
      BY <2>1, <2>4, <2>10
    <3>2. c2s' \in Seq({LoginReq, Ping}) /\ At(c2s', LoginReq) = At(c2s, LoginReq)
      BY <2>6, <3>1, AppendAt, Carriers
    <3>3. Asking(n)'
      BY <3>2 DEF Token, Asking, AtMostOne, Never
    <3>4. Serving(n)' /\ Replying(n)' /\ Reply' = Reply
      BY <1>5, ServerWaits
    <3>5. Sending(n)'
      BY <1>5, <2>2, <2>3, <2>5 DEF Token, Sending, AtMostOne, Never
    <3>6. Answering(n)'
      BY <1>5, <2>7, <3>4 DEF Token, Answering
    <3>7. Following' /\ ~Sent'
      BY <1>5, <2>2, <2>5, <2>10 DEF Token, Following, Never, Sent
    <3>8. Token(n)'
      BY <3>3, <3>4, <3>5, <3>6, <3>7 DEF Token
    <3> QED BY <3>8
  <2> QED BY <2>9, <2>10
<1> QED BY <1>8, <1>9

\* What every handler of the pipe finds.
LEMMA ClientHandler ==
  ASSUME Cl!ClientInv, NEW h, NEW ec, Cl!C!Ready(pipe, h, ec)
  PROVE  LET c == Cl!C!Pop(pipe) IN
         /\ pipe \in Cl!C!Channels /\ Cl!C!Core(pipe) /\ pipe.ioq # <<>>
         /\ Head(pipe.ioq) \in Cl!C!Handlers
         /\ Head(pipe.ioq).h = h /\ Head(pipe.ioq).ec = ec
         /\ c \in Cl!C!Channels /\ Cl!C!Core(c) /\ Taken(c, pipe)
         /\ h # "written" \/ ec # "ok" => Head(pipe.ioq) # Written
         /\ phase = "connected" /\ Cl!QueueInv(pipe.ioq, first)
<1>1. pipe.ioq # <<>>
  BY DEF Cl!C!Ready
<1>2. /\ phase = "connected" /\ pipe \in Cl!C!Channels /\ Cl!C!Core(pipe)
      /\ Cl!QueueInv(pipe.ioq, first)
  BY <1>1, Composed, Cl!ActivePipe
<1>3. /\ Head(pipe.ioq) \in Cl!C!Handlers /\ Cl!C!Pop(pipe) \in Cl!C!Channels
      /\ Head(pipe.ioq).h = h /\ Head(pipe.ioq).ec = ec
  BY <1>2, Cl!C!NextHandler
<1>4. Cl!C!Core(Cl!C!Pop(pipe))
  BY <1>1, <1>2, Cl!C!PopCore
<1>5. Taken(Cl!C!Pop(pipe), pipe)
  BY <1>1 DEF Taken
<1>6. h # "written" \/ ec # "ok" => Head(pipe.ioq) # Written
  BY <1>3, Carriers
<1> QED BY <1>1, <1>2, <1>3, <1>4, <1>5, <1>6

\* The handlers of the pipe's io_service that neither write nor read a body.
LEMMA ClientSettles ==
  ASSUME NEW n \in Stages, Token(n), Cl!ClientInv,
         Cl!OnUnknown \/ Cl!OnError \/ Cl!OnAborted \/ Cl!RunClose \/ Cl!OnTimer,
         UNCHANGED <<server, c2s, s2c>>
  PROVE  Token(n)'
<1> DEFINE c == Cl!C!Pop(pipe)
           d == pipe'
<1>1. UNCHANGED <<phase, first, answered, userq>>
  BY DEF Cl!OnUnknown, Cl!OnError, Cl!OnAborted, Cl!RunClose, Cl!OnTimer,
         Cl!server
<1>2. /\ n <= 8 => userq' = <<>>
      /\ \A i \in DOMAIN userq' : userq'[i] = Reply.result
  BY <1>1 DEF Token, Answering
<1>3. ASSUME NEW h, NEW ec, Cl!C!Ready(pipe, h, ec), h # "written" \/ ec # "ok",
             Cl!C!Quiet(d, c)
      PROVE  Token(n)'
  <2>1. /\ pipe \in Cl!C!Channels /\ Taken(c, pipe)
        /\ Head(pipe.ioq) # Written
    BY <1>3, ClientHandler
  <2> HIDE DEF c
  <2> QED BY <1>1, <1>2, <1>3, <2>1, ClientQuiet
<1>4. ASSUME NEW h, NEW ec, Cl!C!Ready(pipe, h, ec)
      PROVE  c \in Cl!C!Channels /\ Cl!C!Core(c)
  BY <1>4, ClientHandler
<1>5. CASE Cl!OnUnknown
  <2>1. Cl!C!Ready(pipe, "body", "ok") /\ d = Cl!C!AsyncRead(c, "header")
    BY <1>5 DEF Cl!OnUnknown, Cl!Runs
  <2>2. Cl!C!Quiet(d, c)
    BY <1>4, <2>1, Cl!C!AsyncReadPadded DEF Cl!C!Quiet
  <2> QED BY <1>3, <2>1, <2>2
<1>6. CASE Cl!OnError
  <2>1. PICK h, ec : Cl!C!Ready(pipe, h, ec) /\ (h # "written" \/ ec # "ok")
    BY <1>6 DEF Cl!OnError, Cl!Runs
  <2>2. d = Cl!C!Close(c)
    BY <1>6 DEF Cl!OnError
  <2>3. Cl!C!Quiet(d, c)
    BY <1>4, <2>1, <2>2, Cl!C!TimerQuiet
  <2> QED BY <1>3, <2>1, <2>3
<1>7. CASE Cl!OnAborted
  <2>1. PICK h : Cl!C!Ready(pipe, h, "aborted")
    BY <1>7 DEF Cl!OnAborted, Cl!Runs
  <2>2. d = c
    BY <1>7 DEF Cl!OnAborted
  <2>3. Cl!C!Quiet(d, c)
    BY <2>2, Cl!C!SameQuiet DEF Cl!C!Calm
  <2> QED BY <1>3, <2>1, <2>3
<1>8. CASE Cl!RunClose
  <2>1. Cl!C!Ready(pipe, "close", "ok") /\ d = Cl!C!CloseSocket(c)
    BY <1>8 DEF Cl!RunClose, Cl!Runs
  <2>2. Cl!C!Quiet(d, c)
    BY <1>4, <2>1, Cl!C!CloseSocketQuiet
  <2> QED BY <1>3, <2>1, <2>2
<1>9. CASE Cl!OnTimer
  <2>1. Cl!C!Ready(pipe, "timer", "ok") /\ d = Cl!C!TimerLoop(c)
    BY <1>9 DEF Cl!OnTimer, Cl!Runs
  <2>2. Cl!C!Quiet(d, c)
    BY <1>4, <2>1, Cl!C!TimerQuiet
  <2> QED BY <1>3, <2>1, <2>2
<1> QED BY <1>5, <1>6, <1>7, <1>8, <1>9

LEMMA ClientReadsOn ==
  ASSUME NEW n \in Stages, Token(n), Cl!ClientInv,
         Cl!OnReadHeader \/ Cl!OnLoginRsp,
         UNCHANGED <<server, c2s, s2c>>
  PROVE  Token(n)'
<1> DEFINE c == Cl!C!Pop(pipe)
           d == pipe'
<1>1. UNCHANGED <<phase, first, answered>>
  BY DEF Cl!OnReadHeader, Cl!OnLoginRsp, Cl!server
<1>2. CASE Cl!OnLoginRsp
  <2> DEFINE x == Head(pipe.ioq)
  <2>1. /\ Cl!C!Ready(pipe, "body", "ok") /\ d = Cl!C!AsyncRead(c, "header")
        /\ userq' = Append(userq, x.m.result)
    BY <1>2 DEF Cl!OnLoginRsp, Cl!Runs
  <2>2. /\ pipe \in Cl!C!Channels /\ Taken(c, pipe) /\ x # Written
        /\ pipe.ioq # <<>> /\ x.h = "body" /\ x.ec = "ok"
        /\ c \in Cl!C!Channels
    BY <2>1, ClientHandler
  <2>3. n = 9 /\ x.m = Reply
    <3>1. 1 \in DOMAIN pipe.ioq /\ pipe.ioq[1] = x /\ Cl!C!IsMessage(x)
      BY <2>2 DEF Cl!C!Channels, Cl!C!IsMessage
    <3> QED BY <3>1 DEF Token, Answering
  <2>4. Cl!C!Quiet(d, c)
    BY <2>1, <2>2, Cl!C!AsyncReadPadded DEF Cl!C!Quiet
  <2>5. \A i \in DOMAIN userq' : userq'[i] = Reply.result
    <3>1. userq' = Append(userq, Reply.result)
      BY <2>1, <2>3
    <3>2. userq \in Seq({"Success", "Logined"})
      BY DEF Cl!ClientInv, Cl!TypeOK
    <3>3. \A i \in DOMAIN userq : userq[i] = Reply.result
      BY DEF Token, Answering
    <3> QED BY <3>1, <3>2, <3>3
  <2> HIDE DEF c
  <2> QED BY <1>1, <2>2, <2>3, <2>4, <2>5, ClientQuiet
<1>3. CASE Cl!OnReadHeader
  <2>1. /\ Cl!C!Ready(pipe, "header", "ok") /\ d = Cl!C!AsyncRead(c, "body")
        /\ userq' = userq
    BY <1>3 DEF Cl!OnReadHeader, Cl!Runs
  <2>2. /\ pipe \in Cl!C!Channels /\ Taken(c, pipe) /\ pipe.ioq # <<>>
        /\ Head(pipe.ioq).h = "header" /\ Head(pipe.ioq).ec = "ok"
        /\ c \in Cl!C!Channels /\ Head(pipe.ioq) \in Cl!C!Handlers
    BY <2>1, ClientHandler
  <2>3. /\ Cl!C!Padded(d, c) /\ d.write_bufs = pipe.write_bufs
        /\ d.writing = pipe.writing
    BY <2>1, <2>2, Cl!C!AsyncReadPadded, Cl!C!PopFields
  <2>4. /\ 1 \in At(pipe.ioq, ReadHeader)
        /\ \A i \in At(pipe.ioq, Written) : i \in Nat /\ i > 0
    <3>1. Head(pipe.ioq) = ReadHeader
      BY <2>2 DEF ReadHeader, Cl!C!Handler, Cl!C!Handlers
    <3> QED BY <2>2, <3>1 DEF At, Cl!C!Channels
  <2>5. s2c # <<>>
    BY <2>4 DEF Token, Following, Never
  <2>6. ~(n >= 3 /\ Sent)
    BY <2>4 DEF Token, Popping
  <2> HIDE DEF c
  <2>7. Sending(n)'
    BY <1>1, <2>2, <2>3, QuietFacts, Carriers DEF Token, Sending
  <2>8. Serving(n)' /\ Replying(n)' /\ Reply' = Reply
    BY ServerWaits
  <2>9. Answering(n)'
    BY <1>1, <2>1, <2>2, <2>3, <2>8, QuietFacts DEF Token, Answering
  <2>10. Asking(n)' /\ Following' /\ ~(n >= 3 /\ Sent')
    BY <2>3, <2>5, <2>6 DEF Token, Asking, Following, Sent
  <2> QED BY <2>7, <2>8, <2>9, <2>10 DEF Token
<1> QED BY <1>2, <1>3

\* The queue of buffers: the login is in it at the front only, and once.
LEMMA ClientWrote ==
  ASSUME NEW n \in Stages, Token(n), Cl!ClientInv, Cl!OnWritten,
         UNCHANGED <<server, c2s, s2c>>
  PROVE  Token(n)'
<1> DEFINE c == Cl!C!Pop(pipe)
           d == pipe'
           w == pipe.write_bufs
<1>1. /\ Cl!C!Ready(pipe, "written", "ok") /\ d = Cl!C!PopWrite(c)
      /\ UNCHANGED <<phase, first, answered, userq>>
  BY DEF Cl!OnWritten, Cl!Runs, Cl!server
<1>2. /\ pipe \in Cl!C!Channels /\ Cl!C!Core(pipe) /\ Taken(c, pipe)
      /\ pipe.ioq # <<>> /\ Head(pipe.ioq).h = "written" /\ c \in Cl!C!Channels
  BY <1>1, ClientHandler
<1>3. w # <<>> /\ c.write_bufs = w
  BY <1>2, Cl!C!HeadQueued, Cl!C!PopFields DEF Cl!C!Core, Cl!C!WriteUnderway
<1>4. /\ Cl!C!Padded(d, c) /\ d.reading = pipe.reading /\ d.write_bufs = Tail(w)
      /\ d.write_bufs = <<>> => d.writing = pipe.writing
  BY <1>1, <1>2, <1>3, Cl!C!PopWritePadded, Cl!C!PopFields
<1> HIDE DEF c
<1>5. n >= 2 /\ \A i \in DOMAIN w : w[i].name = "LoginReq" => i = 1
  BY <1>3 DEF Token, Sending, Stages
<1>6. \A i \in DOMAIN d.write_bufs : d.write_bufs[i].name # "LoginReq"
  <2> DEFINE S == [name : {"LoginReq", "Ping"}]
  <2>1. w \in Seq(S)
    BY <1>2 DEF Cl!C!Channels
  <2> HIDE DEF S, w
  <2>2. \A i \in DOMAIN Tail(w) :
          i + 1 \in DOMAIN w /\ Tail(w)[i] = w[i + 1] /\ i \in Nat /\ i > 0
    BY <1>3, <2>1
  <2> QED BY <1>4, <1>5, <2>2
<1>7. d.write_bufs = <<>> \/ Head(d.write_bufs).name # "LoginReq"
  <2> DEFINE S == [name : {"LoginReq", "Ping"}]
  <2>1. w \in Seq(S)
    BY <1>2 DEF Cl!C!Channels
  <2> HIDE DEF S, w
  <2>2. Tail(w) # <<>> => 1 \in DOMAIN Tail(w) /\ Head(Tail(w)) = Tail(w)[1]
    BY <1>3, <2>1
  <2> QED BY <1>4, <1>6, <2>2
<1>8. pipe.writing = 0
  <2>1. Cl!C!Queued(pipe, {"written"}) # {}
    BY <1>2, Cl!C!HeadQueued
  <2> QED BY <1>2, <2>1 DEF Cl!C!Core, Cl!C!OneWrite, Cl!C!Channels
<1>9. Sending(n)'
  BY <1>1, <1>2, <1>4, <1>5, <1>6, <1>7, <1>8, QuietFacts, Carriers
     DEF Token, Sending
<1>10. Serving(n)' /\ Replying(n)' /\ Reply' = Reply
  BY ServerWaits
<1>11. Answering(n)'
  BY <1>1, <1>2, <1>4, <1>10, QuietFacts DEF Token, Answering
<1>12. Following'
  BY <1>2, <1>4, QuietFacts, Carriers DEF Token, Following
<1>13. Asking(n)' /\ ~Sent'
  BY <1>7 DEF Token, Asking, Sent
<1> QED BY <1>9, <1>10, <1>11, <1>12, <1>13 DEF Token

LEMMA ClientQueues ==
  ASSUME NEW n \in Stages, Token(n), Cl!ClientInv, Cl!RunWrite,
         UNCHANGED <<server, c2s, s2c>>
  PROVE  \E k \in Stages : Token(k)'
<1> DEFINE c == Cl!C!Pop(pipe)
           d == pipe'
           w == pipe.write_bufs
           x == Head(pipe.ioq)
<1>1. /\ Cl!C!Ready(pipe, "write", "ok") /\ d = Cl!C!PushWrite(c, x.m)
      /\ first' = IF first = NoMsg THEN x.m.name ELSE first
      /\ UNCHANGED <<phase, answered, userq>>
  BY DEF Cl!RunWrite, Cl!Runs, Cl!server
<1>2. /\ pipe \in Cl!C!Channels /\ Cl!C!Core(pipe) /\ Taken(c, pipe)
      /\ pipe.ioq # <<>> /\ x \in Cl!C!Handlers /\ x.h = "write" /\ x.ec = "ok"
      /\ x # Written /\ c \in Cl!C!Channels /\ Cl!QueueInv(pipe.ioq, first)
      /\ phase = "connected"
  BY <1>1, ClientHandler
<1>3. /\ x.m \in [name : {"LoginReq", "Ping"}]
      /\ x = Cl!C!Handler("write", "ok", x.m)
  BY <1>2 DEF Cl!C!Handlers, Cl!C!Handler
<1>4. /\ Cl!C!Padded(d, c) /\ d.reading = pipe.reading
      /\ d.write_bufs = Append(w, x.m)
      /\ w # <<>> => d.writing = pipe.writing
  BY <1>1, <1>2, <1>3, Cl!C!PushWritePadded, Cl!C!PopFields
<1> HIDE DEF c
<1>5. 1 \in DOMAIN pipe.ioq /\ pipe.ioq[1] = x /\ pipe.ioq \in Seq(Cl!C!Handlers)
  BY <1>2 DEF Cl!C!Channels
<1>6. /\ DOMAIN d.write_bufs = DOMAIN w \cup {Len(w) + 1}
      /\ \A i \in DOMAIN w : d.write_bufs[i] = w[i]
      /\ d.write_bufs[Len(w) + 1] = x.m /\ Len(w) + 1 \notin DOMAIN w
      /\ w = <<>> => Head(d.write_bufs) = x.m /\ Len(w) = 0
      /\ w # <<>> => Head(d.write_bufs) = Head(w)
  <2> DEFINE S == [name : {"LoginReq", "Ping"}]
  <2>1. w \in Seq(S) /\ x.m \in S
    BY <1>2, <1>3 DEF Cl!C!Channels
  <2> HIDE DEF S, w, d, x
  <2>2. /\ DOMAIN Append(w, x.m) = 1 .. Len(w) + 1 /\ DOMAIN w = 1 .. Len(w)
        /\ Len(w) \in Nat /\ Append(w, x.m)[Len(w) + 1] = x.m
        /\ \A i \in DOMAIN w : Append(w, x.m)[i] = w[i]
        /\ Head(Append(w, x.m)) = Append(w, x.m)[1]
        /\ w # <<>> => Head(w) = w[1] /\ 1 \in DOMAIN w
        /\ w = <<>> => Len(w) = 0
    BY <2>1
  <2> QED BY <1>4, <2>2
<1>7. CASE first = NoMsg
  <2>1. x.m.name = "LoginReq"
    BY <1>1, <1>2, <1>7, Composed, Cl!FirstWrite DEF Cl!QueueInv
  <2>2. x = WriteReq
    BY <1>3, <2>1 DEF WriteReq
  <2>3. n = 1 /\ w = <<>>
    BY <1>5, <1>7, <2>2 DEF Token, Sending, Never, At
  <2>4. Never(d.ioq, WriteReq)
    <3>1. At(d.ioq, WriteReq) = At(c.ioq, WriteReq)
      BY <1>4, PaddedAt, Carriers
    <3>2. c.ioq = Tail(pipe.ioq)
      BY <1>2 DEF c, Cl!C!Pop, Cl!C!Channels
    <3>3. Never(Tail(pipe.ioq), WriteReq)
      BY <1>2, <1>5, <2>2, TailAt DEF Token, Sending
    <3> QED BY <3>1, <3>2, <3>3 DEF Never
  <2>5. Sending(2)'
    BY <1>1, <1>2, <1>4, <1>6, <2>1, <2>3, <2>4 DEF Sending, AtMostOne, Never
  <2>6. Serving(2)' /\ Replying(2)' /\ Reply' = Reply
    BY <2>3, ServerWaits DEF Stages
  <2>7. Answering(2)'
    BY <1>1, <1>2, <1>4, <2>3, <2>6, QuietFacts DEF Token, Answering
  <2>8. Following' /\ Asking(2)'
    BY <1>2, <1>4, <2>3, QuietFacts, Carriers DEF Token, Following, Asking
  <2>9. Token(2)'
    BY <2>5, <2>6, <2>7, <2>8 DEF Token
  <2> QED BY <2>9 DEF Stages
<1>8. CASE first # NoMsg
  <2>1. n # 1 /\ n > 1
    BY <1>2, <1>8 DEF Token, Sending, Stages
  <2>2. x.m.name # "LoginReq"
    BY <1>3, <1>5, <2>1 DEF Token, Sending, Never, At, WriteReq
  <2>3. Sending(n)'
    BY <1>1, <1>2, <1>4, <1>6, <1>8, <2>1, <2>2, QuietFacts, Carriers
       DEF Token, Sending
  <2>4. Serving(n)' /\ Replying(n)' /\ Reply' = Reply
    BY ServerWaits
  <2>5. Answering(n)'
    BY <1>1, <1>2, <1>4, <2>4, QuietFacts DEF Token, Answering
  <2>6. Following' /\ Asking(n)'
    BY <1>2, <1>4, QuietFacts, Carriers DEF Token, Following, Asking
  <2>7. n >= 3 /\ Sent' => Popping'
    <3> SUFFICES ASSUME n >= 3, Sent'
                 PROVE  Popping'
      OBVIOUS
    <3>1. Sent
      BY <1>4, <1>6, <2>2 DEF Sent
    <3>2. Popping
      BY <3>1 DEF Token
    <3>3. \E i \in At(d.ioq, Written) : \A j \in At(d.ioq, ReadHeader) : i < j
      BY <1>2, <1>4, <3>2, PoppingFacts DEF Popping
    <3> QED BY <1>4, <3>2, <3>3 DEF Popping
  <2> QED BY <2>3, <2>4, <2>5, <2>6, <2>7 DEF Token
<1> QED BY <1>7, <1>8

\* SendPing queues a ping, the user's thread handles the answer and closes.
LEMMA ClientOthers ==
  ASSUME NEW n \in Stages, Token(n), Cl!ClientInv,
         Cl!SendPing \/ Cl!SkipPing \/ Cl!UserThread \/ ClientTimer,
         UNCHANGED <<server, c2s, s2c>>
  PROVE  Token(n)'
<1> DEFINE d == pipe'
<1>1. pipe \in Cl!C!Channels
  BY DEF Cl!ClientInv, Cl!TypeOK
<1>2. UNCHANGED <<phase, first, answered>>
  BY DEF Cl!SendPing, Cl!SkipPing, Cl!UserThread, Cl!LoginSucceeds,
         Cl!LoginRefused, Cl!PostClose, ClientTimer, Cl!TimerExpires, Cl!server
<1>3. userq' = userq \/ (userq # <<>> /\ userq' = Tail(userq))
  BY DEF Cl!SendPing, Cl!SkipPing, Cl!UserThread, Cl!LoginSucceeds,
         Cl!LoginRefused, Cl!PostClose, ClientTimer, Cl!TimerExpires
<1>4. /\ n <= 8 => userq' = <<>>
      /\ \A i \in DOMAIN userq' : userq'[i] = Reply.result
  <2>1. userq \in Seq({"Success", "Logined"})
    BY DEF Cl!ClientInv, Cl!TypeOK
  <2>2. /\ n <= 8 => userq = <<>>
        /\ \A i \in DOMAIN userq : userq[i] = Reply.result
    BY DEF Token, Answering
  <2>3. userq # <<>> => \A i \in DOMAIN Tail(userq) :
          i + 1 \in DOMAIN userq /\ Tail(userq)[i] = userq[i + 1]
    BY <2>1
  <2> QED BY <1>3, <2>2, <2>3
<1>5. CASE Cl!SendPing
  <2> DEFINE x == Cl!C!Handler("write", "ok", [name |-> "Ping"])
  <2>1. d = Cl!C!Post(pipe, x) /\ userq' = userq
    BY <1>5 DEF Cl!SendPing, Cl!Write
  <2>2. /\ d.ioq = Append(pipe.ioq, x) /\ d.write_bufs = pipe.write_bufs
        /\ d.writing = pipe.writing /\ d.reading = pipe.reading
    BY <1>1, <2>1, Cl!C!PostFields DEF Cl!C!Post, Cl!C!Channels
  <2>3. /\ x # WriteReq /\ x # Written /\ x # ReadHeader
        /\ ~Cl!C!IsMessage(x)
    BY DEF WriteReq, Written, ReadHeader, Cl!C!Handler, Cl!C!IsMessage
  <2> HIDE DEF x, d
  <2> QED BY <1>1, <1>2, <2>1, <2>2, <2>3, ClientAppends DEF d
<1>6. CASE Cl!SkipPing \/ Cl!UserThread \/ ClientTimer
  <2>1. \/ d = pipe \/ d = Cl!C!Stop(pipe)
        \/ d = Cl!C!Post(pipe, Cl!C!Handler("close", "ok", NoMsg))
        \/ d = Cl!C!TimerExpires(pipe)
    BY <1>6
       DEF Cl!SkipPing, Cl!UserThread, Cl!LoginSucceeds, Cl!LoginRefused,
           Cl!PostClose, ClientTimer, Cl!TimerExpires
  <2>2. Cl!C!Plain(Cl!C!Handler("close", "ok", NoMsg))
    BY DEF Cl!C!Plain, Cl!C!Handler
  <2>3. Cl!C!Quiet(d, pipe)
    <3>1. Cl!C!Quiet(pipe, pipe)
      BY Cl!C!SameQuiet DEF Cl!C!Calm
    <3> QED BY <1>1, <2>1, <2>2, <3>1, Cl!C!TimerQuiet, Cl!C!PostQuiet
  <2>4. Taken(pipe, pipe)
    BY DEF Taken
  <2> QED BY <1>1, <1>2, <1>4, <2>3, <2>4, ClientQuiet
<1> QED BY <1>5, <1>6

\* Every step of the client leaves the login somewhere.
LEMMA ClientToken ==
  ASSUME NEW n \in Stages, Token(n), Cl!ClientInv, Client
  PROVE  \E m \in Stages : Token(m)'
<1>1. CASE Connect
  BY <1>1, ClientConnects
<1>2. CASE ClientReadsHeader \/ ClientReadsBody \/ ClientReadFails
  BY <1>2, ClientReceives
<1>3. CASE ClientWrites \/ ClientWriteFails
  BY <1>3, ClientSends
<1>4. CASE ClientTimer \/ ClientUser
  <2>1. Cl!UserThread \/ ClientTimer
    BY <1>4 DEF ClientUser
  <2>2. UNCHANGED <<server, c2s, s2c>>
    BY <1>4 DEF ClientTimer, ClientUser
  <2> QED BY <2>1, <2>2, ClientOthers
<1>5. CASE ClientIo
  <2>1. UNCHANGED <<server, c2s, s2c>>
    BY <1>5 DEF ClientIo
  <2>2. CASE Cl!OnReadHeader \/ Cl!OnLoginRsp
    BY <2>1, <2>2, ClientReadsOn
  <2>3. CASE \/ Cl!OnUnknown \/ Cl!OnError \/ Cl!OnAborted \/ Cl!RunClose
             \/ Cl!OnTimer
    BY <2>1, <2>3, ClientSettles
  <2>4. CASE Cl!OnWritten
    BY <2>1, <2>4, ClientWrote
  <2>5. CASE Cl!RunWrite
    BY <2>1, <2>5, ClientQueues
  <2>6. CASE Cl!SendPing \/ Cl!SkipPing
    BY <2>1, <2>6, ClientOthers
  <2> QED BY <1>5, <2>2, <2>3, <2>4, <2>5, <2>6 DEF ClientIo, Cl!IoThread
<1> QED BY <1>1, <1>2, <1>3, <1>4, <1>5 DEF Client

-----------------------------------------------------------------------------
(* What the steps of the server do to the login *)

\* The session's channel p before its next handler runs, or with it taken.
Begun(c, p) == c = p \/ (p.ioq # <<>> /\ c = Sv!C!Pop(p))

\* What is in the queue afterwards was there before, one place further on if the
\* handler is gone, or carries nothing.
LEMMA BegunFacts ==
  ASSUME NEW p \in Sv!C!Channels, NEW c, Begun(c, p), NEW d, Sv!C!Padded(d, c)
  PROVE  /\ c \in Sv!C!Channels /\ c.write_bufs = p.write_bufs
         /\ c.writing = p.writing /\ c.reading = p.reading
         /\ \E k \in {0, 1} :
              /\ c = p \/ k = 1
              /\ \A i \in DOMAIN d.ioq :
                   \/ Sv!C!Plain(d.ioq[i])
                   \/ /\ i \in Nat /\ i > 0 /\ i + k \in DOMAIN p.ioq
                      /\ d.ioq[i] = p.ioq[i + k]
<1>1. p.ioq \in Seq(Sv!C!Handlers)
  BY DEF Sv!C!Channels
<1>2. \A i \in DOMAIN d.ioq :
        Sv!C!Plain(d.ioq[i]) \/ (i \in DOMAIN c.ioq /\ d.ioq[i] = c.ioq[i])
  BY DEF Sv!C!Padded
<1>3. CASE c = p
  <2>1. \A i \in DOMAIN p.ioq : i \in Nat /\ i > 0 /\ i + 0 = i
    BY <1>1
  <2> QED BY <1>2, <1>3, <2>1
<1>4. CASE p.ioq # <<>> /\ c = Sv!C!Pop(p)
  <2>1. /\ c \in Sv!C!Channels /\ c.write_bufs = p.write_bufs
        /\ c.writing = p.writing /\ c.reading = p.reading
    BY <1>4, Composed, Sv!C!PopType, Sv!C!PopFields DEF Sv!ServerAssumption
  <2>2. c.ioq = Tail(p.ioq)
    BY <1>4 DEF Sv!C!Pop, Sv!C!Channels
  <2>3. \A i \in DOMAIN c.ioq :
          /\ i \in Nat /\ i > 0 /\ i + 1 \in DOMAIN p.ioq
          /\ c.ioq[i] = p.ioq[i + 1]
    BY <1>1, <1>4, <2>2
  <2> QED BY <1>2, <2>1, <2>3
<1> QED BY <1>3, <1>4 DEF Begun

\* The requests and the replies that are ready, when nothing brings another.
LEMMA ReadyFacts ==
  ASSUME NEW p \in Sv!C!Channels, NEW c, Begun(c, p),
         NEW d \in Sv!C!Channels, Sv!C!Padded(d, c), NEW m
  PROVE  LET W(q) == Sv!C!Queued(q, {"write"}) IN
         /\ AtMostOne(p.ioq, ReadReq) => AtMostOne(d.ioq, ReadReq)
         /\ Never(p.ioq, ReadReq) => Never(d.ioq, ReadReq)
         /\ Sv!C!Single(p, {"write"}) => Sv!C!Single(d, {"write"})
         /\ W(p) = {} => W(d) = {}
         /\ (\A i \in W(p) : p.ioq[i].m = m) => \A i \in W(d) : d.ioq[i].m = m
         /\ AtMostOne(p.ioq, ReadReq) /\ c # p /\ Head(p.ioq) = ReadReq
              => Never(d.ioq, ReadReq)
         /\ Sv!C!Single(p, {"write"}) /\ c # p /\ Head(p.ioq).h = "write"
              => W(d) = {}
<1> DEFINE W(q) == Sv!C!Queued(q, {"write"})
<1>1. PICK k \in {0, 1} :
        /\ c = p \/ k = 1
        /\ \A i \in DOMAIN d.ioq :
             \/ Sv!C!Plain(d.ioq[i])
             \/ /\ i \in Nat /\ i > 0 /\ i + k \in DOMAIN p.ioq
                /\ d.ioq[i] = p.ioq[i + k]
  BY BegunFacts
<1>2. \A i \in At(d.ioq, ReadReq) : i \in Nat /\ i > 0 /\ i + k \in At(p.ioq, ReadReq)
  BY <1>1, Carriers DEF At
<1>3. \A i \in W(d) :
        i \in Nat /\ i > 0 /\ i + k \in W(p) /\ d.ioq[i] = p.ioq[i + k]
  <2> SUFFICES ASSUME NEW i \in W(d)
               PROVE  i \in Nat /\ i > 0 /\ i + k \in W(p)
                      /\ d.ioq[i] = p.ioq[i + k]
    OBVIOUS
  <2>1. i \in DOMAIN d.ioq /\ d.ioq[i].h = "write"
    BY DEF Sv!C!Queued
  <2>2. d.ioq[i] \in Sv!C!Handlers
    BY <2>1 DEF Sv!C!Channels
  <2>3. ~Sv!C!Plain(d.ioq[i])
    BY <2>1, <2>2 DEF Sv!C!Plain, Sv!C!Handlers
  <2> QED BY <1>1, <2>1, <2>3 DEF Sv!C!Queued
<1>4. c # p => k = 1 /\ p.ioq # <<>> /\ 1 \in DOMAIN p.ioq /\ Head(p.ioq) = p.ioq[1]
  BY <1>1 DEF Begun, Sv!C!Channels
<1>5. AtMostOne(p.ioq, ReadReq) => AtMostOne(d.ioq, ReadReq)
  <2> SUFFICES ASSUME AtMostOne(p.ioq, ReadReq), NEW i \in At(d.ioq, ReadReq),
                      NEW j \in At(d.ioq, ReadReq)
               PROVE  i = j
    BY DEF AtMostOne
  <2>1. i + k = j + k
    BY <1>2 DEF AtMostOne
  <2> QED BY <1>2, <2>1
<1>6. Never(p.ioq, ReadReq) => Never(d.ioq, ReadReq)
  BY <1>2 DEF Never
<1>7. Sv!C!Single(p, {"write"}) => Sv!C!Single(d, {"write"})
  <2> SUFFICES ASSUME Sv!C!Single(p, {"write"}), NEW i \in W(d), NEW j \in W(d)
               PROVE  i = j
    BY DEF Sv!C!Single
  <2>1. i + k = j + k
    BY <1>3 DEF Sv!C!Single
  <2> QED BY <1>3, <2>1
<1>8. W(p) = {} => W(d) = {}
  BY <1>3
<1>9. (\A i \in W(p) : p.ioq[i].m = m) => \A i \in W(d) : d.ioq[i].m = m
  BY <1>3
<1>10. ASSUME AtMostOne(p.ioq, ReadReq), c # p, Head(p.ioq) = ReadReq,
              NEW i \in At(d.ioq, ReadReq)
       PROVE  FALSE
  <2>1. 1 \in At(p.ioq, ReadReq) /\ k = 1
    BY <1>4, <1>10 DEF At
  <2>2. i + 1 = 1
    BY <1>2, <1>10, <2>1 DEF AtMostOne
  <2> QED BY <1>2, <1>10, <2>2
<1>11. ASSUME Sv!C!Single(p, {"write"}), c # p, Head(p.ioq).h = "write",
              NEW i \in W(d)
       PROVE  FALSE
  <2>1. 1 \in W(p) /\ k = 1
    BY <1>4, <1>11 DEF Sv!C!Queued
  <2>2. i + 1 = 1
    BY <1>3, <1>11, <2>1 DEF Sv!C!Single
  <2> QED BY <1>3, <1>11, <2>2
<1>12. AtMostOne(p.ioq, ReadReq) /\ c # p /\ Head(p.ioq) = ReadReq
         => Never(d.ioq, ReadReq)
  BY <1>10 DEF Never
<1>13. Sv!C!Single(p, {"write"}) /\ c # p /\ Head(p.ioq).h = "write" => W(d) = {}
  BY <1>11
<1> HIDE DEF W
<1> QED BY <1>5, <1>6, <1>7, <1>8, <1>9, <1>12, <1>13 DEF W

\* The client's part is true of another stage too when nothing is asked of the
\* client between the two.
LEMMA ClientWaits ==
  ASSUME NEW n \in Stages, Token(n), NEW m \in Stages, UNCHANGED client,
         m = n \/ (n \in 3 .. 8 /\ m \in 3 .. 8)
  PROVE  /\ Sending(m)' /\ (m >= 3 /\ Sent' => Popping')
         /\ s2c' = s2c \/ s2c' # <<>> => Following'
<1>1. UNCHANGED <<phase, first, pipe>>
  BY DEF client
<1>2. Sending(m) /\ (m >= 3 /\ Sent => Popping) /\ Following
  BY DEF Token, Sending, Stages
<1> QED BY <1>1, <1>2 DEF Sending, Sent, Popping, Following

\* While there is no answer, it is not settled what it will be.
LEMMA AnswerWaits ==
  ASSUME NEW n \in Stages, Token(n), NEW m \in Stages, UNCHANGED <<client, s2c>>,
         \/ m = n /\ Reply' = Reply
         \/ n \in 3 .. 7 /\ m \in 3 .. 7
  PROVE  Answering(m)'
<1>1. UNCHANGED <<answered, userq, pipe, s2c>>
  BY DEF client
<1>2. CASE m = n /\ Reply' = Reply
  BY <1>1, <1>2 DEF Token, Answering
<1>3. CASE n \in 3 .. 7 /\ m \in 3 .. 7
  <2>1. /\ s2c = <<>> /\ userq = <<>> /\ ~answered
        /\ \A i \in DOMAIN pipe.ioq : ~Cl!C!IsMessage(pipe.ioq[i])
    BY <1>3 DEF Token, Answering
  <2> QED BY <1>1, <1>3, <2>1 DEF Answering
<1> QED BY <1>2, <1>3

\* What is put on the queue of the logic thread, or taken from it.
LEMMA LogicFacts ==
  ASSUME Sv!ServerInv, NEW n \in Stages, Serving(n), NEW q,
         \/ q = logicq
         \/ \E task \in Sv!Tasks :
              task.run # "LoginReq" /\ q = Append(logicq, task)
         \/ logicq # <<>> /\ q = Tail(logicq)
  PROVE  /\ AtMostOne(q, HandleReq) /\ (n # 5 => Never(q, HandleReq))
         /\ \A i \in DOMAIN q : q[i].run = "LoginReq" => q[i].s = Own
<1>1. logicq \in Seq(Sv!Tasks)
  BY DEF Sv!ServerInv, Sv!TypeOK
<1>2. CASE q = logicq
  BY <1>2 DEF Serving
<1>3. ASSUME NEW task \in Sv!Tasks, task.run # "LoginReq",
             q = Append(logicq, task)
      PROVE  /\ AtMostOne(q, HandleReq) /\ (n # 5 => Never(q, HandleReq))
             /\ \A i \in DOMAIN q : q[i].run = "LoginReq" => q[i].s = Own
  <2>1. task # HandleReq
    BY <1>3 DEF HandleReq, Sv!Task
  <2>2. At(q, HandleReq) = At(logicq, HandleReq)
    BY <1>1, <1>3, <2>1, AppendAt
  <2>3. \A i \in DOMAIN q : (i \in DOMAIN logicq /\ q[i] = logicq[i]) \/ q[i] = task
    BY <1>1, <1>3
  <2> QED BY <1>3, <2>2, <2>3 DEF Serving, AtMostOne, Never
<1>4. CASE logicq # <<>> /\ q = Tail(logicq)
  <2>1. \A i \in DOMAIN q : i + 1 \in DOMAIN logicq /\ q[i] = logicq[i + 1]
    BY <1>1, <1>4
  <2> QED BY <1>1, <1>4, <2>1, TailAt DEF Serving
<1> QED BY <1>2, <1>3, <1>4

\* The types of the user's session.
LEMMA OwnTypes ==
  /\ Sv!ServerInv => conn[Own] \in Sv!C!Channels
  /\ Sv!ServerInv' => conn'[Own] \in Sv!C!Channels
  BY DEF Sv!ServerInv, Sv!TypeOK, Sessions

\* What the server holds, after a step that neither writes, nor reads a body, nor
\* logs in.
LEMMA ServerQuiet ==
  ASSUME NEW n \in Stages, Token(n), Sv!ServerInv, Sv!ServerInv',
         NEW c, Begun(c, conn[Own]), Sv!C!Padded(conn'[Own], c),
         conn'[Own].write_bufs \in {conn[Own].write_bufs, <<>>},
         conn'[Own].writing > 0 => conn[Own].writing > 0,
         \/ logicq' = logicq
         \/ \E task \in Sv!Tasks :
              task.run # "LoginReq" /\ logicq' = Append(logicq, task)
         \/ logicq # <<>> /\ logicq' = Tail(logicq),
         UNCHANGED <<client, c2s, s2c, logins, authed, user_id>>
  PROVE  Token(n)'
<1> DEFINE p == conn[Own]
           d == conn'[Own]
<1>1. p \in Sv!C!Channels /\ d \in Sv!C!Channels
  BY OwnTypes
<1>2. Serving(n) /\ Replying(n)
  BY DEF Token
<1>3. /\ AtMostOne(d.ioq, ReadReq) /\ (n # 4 => Never(d.ioq, ReadReq))
      /\ Sv!C!Single(d, {"write"})
      /\ n # 6 => Sv!C!Queued(d, {"write"}) = {}
      /\ \A i \in Sv!C!Queued(d, {"write"}) : d.ioq[i].m = Reply
  <2> HIDE DEF p, d
  <2>1. /\ AtMostOne(p.ioq, ReadReq) /\ (n # 4 => Never(p.ioq, ReadReq))
        /\ Sv!C!Single(p, {"write"})
        /\ n # 6 => Sv!C!Queued(p, {"write"}) = {}
        /\ \A i \in Sv!C!Queued(p, {"write"}) : p.ioq[i].m = Reply
    BY <1>2 DEF Serving, Replying, p
  <2>2. Begun(c, p) /\ Sv!C!Padded(d, c)
    BY DEF p, d
  <2> QED BY <1>1, <2>1, <2>2, ReadyFacts
<1>4. Reply' = Reply
  BY DEF Reply
<1>5. /\ AtMostOne(logicq', HandleReq) /\ (n # 5 => Never(logicq', HandleReq))
      /\ \A i \in DOMAIN logicq' : logicq'[i].run = "LoginReq" => logicq'[i].s = Own
  BY <1>2, LogicFacts
<1>6. Serving(n)'
  BY <1>2, <1>3, <1>5 DEF Serving
<1>7. Replying(n)'
  <2>1. d.write_bufs \in IF n <= 6 THEN {<<>>} ELSE {<<>>, <<Reply>>}
    BY <1>2 DEF Replying
  <2>2. n # 7 => d.writing = 0
    BY <1>1, <1>2 DEF Replying, Sv!C!Channels
  <2> QED BY <1>3, <1>4, <2>1, <2>2 DEF Replying
<1>8. Sending(n)' /\ Following' /\ (n >= 3 /\ Sent' => Popping')
  BY ClientWaits
<1>9. Answering(n)'
  BY <1>4, AnswerWaits
<1>10. Asking(n)'
  BY DEF Token, Asking
<1> QED BY <1>6, <1>7, <1>8, <1>9, <1>10 DEF Token

\* What every handler of the session finds.
LEMMA ServerHandler ==
  ASSUME Sv!ServerInv, NEW h, NEW ec, Sv!C!Ready(conn[Own], h, ec)
  PROVE  LET p == conn[Own]
             c == Sv!C!Pop(p)
         IN  /\ p \in Sv!C!Channels /\ Sv!C!Core(p) /\ p.ioq # <<>>
             /\ Head(p.ioq) \in Sv!C!Handlers /\ Head(p.ioq) = p.ioq[1]
             /\ 1 \in DOMAIN p.ioq
             /\ Head(p.ioq).h = h /\ Head(p.ioq).ec = ec
             /\ c \in Sv!C!Channels /\ Sv!C!Core(c) /\ Begun(c, p) /\ c # p
             /\ c.write_bufs = p.write_bufs /\ c.writing = p.writing
             /\ c.reading = p.reading
<1> DEFINE p == conn[Own]
           c == Sv!C!Pop(p)
<1>1. p.ioq # <<>> /\ Own \in Sessions
  BY DEF Sv!C!Ready, Sessions
<1>2. p \in Sv!C!Channels /\ Sv!C!Core(p)
  BY <1>1, Composed, Sv!ActiveAccepted DEF Sv!ServerAssumption, Sv!C!Sound
<1>3. /\ Head(p.ioq) \in Sv!C!Handlers /\ c \in Sv!C!Channels
      /\ Head(p.ioq).h = h /\ Head(p.ioq).ec = ec
  BY <1>2, Composed, Sv!C!NextHandler DEF Sv!ServerAssumption
<1>4. Sv!C!Core(c)
  BY <1>1, <1>2, Composed, Sv!C!PopCore DEF Sv!ServerAssumption
<1>5. /\ c.write_bufs = p.write_bufs /\ c.writing = p.writing
      /\ c.reading = p.reading
  BY <1>2, Composed, Sv!C!PopFields DEF Sv!ServerAssumption
<1>6. Begun(c, p)
  BY <1>1 DEF Begun
<1>7. c # p /\ Head(p.ioq) = p.ioq[1] /\ 1 \in DOMAIN p.ioq
  <2>1. p.ioq \in Seq(Sv!C!Handlers) /\ c.ioq = Tail(p.ioq)
    BY <1>2 DEF Sv!C!Channels, Sv!C!Pop
  <2>2. Len(Tail(p.ioq)) # Len(p.ioq) /\ Head(p.ioq) = p.ioq[1]
        /\ 1 \in DOMAIN p.ioq
    BY <1>1, <2>1
  <2> QED BY <2>1, <2>2
<1> HIDE DEF c, p
<1> QED BY <1>1, <1>2, <1>3, <1>4, <1>5, <1>6, <1>7 DEF c, p

\* The connection is accepted, its operations fail, or the timer expires.
LEMMA ServerNetworkQuiet ==
  ASSUME NEW n \in Stages, Token(n), Sv!ServerInv, Sv!ServerInv',
         Accept \/ ServerReadFails \/ ServerWriteFails \/ ServerTimer
  PROVE  Token(n)'
<1> DEFINE p == conn[Own]
<1>1. p \in Sv!C!Channels /\ Own \in Sessions /\ conn \in [Sessions -> Sv!C!Channels]
  BY DEF Sv!ServerInv, Sv!TypeOK, Sessions
<1>2. UNCHANGED <<client, c2s, s2c, logins, authed, user_id>>
  BY DEF Accept, ServerReadFails, ServerWriteFails, ServerTimer, Sv!Accept,
         Sv!ReadFails, Sv!TimerExpires, registry, Sv!registry, Sv!environment
<1>3. Begun(p, p)
  BY DEF Begun
<1>4. ASSUME NEW d, conn' = [conn EXCEPT ![Own] = d], Sv!C!Quiet(d, p),
             \/ logicq' = logicq
             \/ \E task \in Sv!Tasks :
                  task.run # "LoginReq" /\ logicq' = Append(logicq, task)
      PROVE  Token(n)'
  <2>1. conn'[Own] = d
    BY <1>1, <1>4
  <2>2. /\ Sv!C!Padded(conn'[Own], p)
        /\ conn'[Own].write_bufs \in {conn[Own].write_bufs, <<>>}
        /\ conn'[Own].writing > 0 => conn[Own].writing > 0
    BY <1>4, <2>1 DEF Sv!C!Quiet, Sv!C!Calm
  <2> QED BY <1>2, <1>3, <1>4, <2>2, ServerQuiet
<1>5. CASE Accept
  <2> DEFINE a == Sv!C!TimerLoop(p)
             d == Sv!C!AsyncRead(a, "header")
             task == Sv!Task("AddSession", Own, NoMsg)
  <2>1. conn' = [conn EXCEPT ![Own] = d] /\ logicq' = Append(logicq, task)
    BY <1>5 DEF Accept, Sv!Accept, Sv!PostLogic
  <2>2. task \in Sv!Tasks /\ task.run # "LoginReq"
    BY <1>1 DEF Sv!Task, Sv!Tasks
  <2>3. a \in Sv!C!Channels /\ Sv!C!Quiet(a, p)
    BY <1>1, Composed, Sv!C!TimerLoopType, Sv!C!TimerQuiet
       DEF Sv!ServerAssumption
  <2> HIDE DEF a
  <2>4. Sv!C!Quiet(d, a)
    BY <2>3, Composed, Sv!C!AsyncReadPadded
       DEF Sv!ServerAssumption, Sv!C!Quiet
  <2>5. Sv!C!Quiet(d, p)
    BY <2>3, <2>4, Composed, Sv!C!QuietTrans DEF Sv!ServerAssumption
  <2> HIDE DEF d, task
  <2> QED BY <1>4, <2>1, <2>2, <2>5
<1>6. CASE ServerReadFails
  <2>1. conn' = [conn EXCEPT ![Own] = Sv!C!ReadCompletes(p, "error", NoMsg)]
        /\ logicq' = logicq
    BY <1>6 DEF ServerReadFails, Sv!ReadFails
  <2>2. Sv!C!Quiet(Sv!C!ReadCompletes(p, "error", NoMsg), p)
    BY <1>1, Composed, Sv!C!ReadFailsQuiet DEF Sv!ServerAssumption
  <2> QED BY <1>4, <2>1, <2>2
<1>7. CASE ServerWriteFails
  <2>1. conn' = [conn EXCEPT ![Own] = Sv!C!WriteCompletes(p, "error")]
        /\ logicq' = logicq /\ p.writing > 0
    BY <1>7 DEF ServerWriteFails
  <2>2. Sv!C!Quiet(Sv!C!WriteCompletes(p, "error"), p)
    BY <1>1, <2>1, Composed, Sv!C!WriteCompletesQuiet DEF Sv!ServerAssumption
  <2> QED BY <1>4, <2>1, <2>2
<1>8. CASE ServerTimer
  <2>1. conn' = [conn EXCEPT ![Own] = Sv!C!TimerExpires(p)] /\ logicq' = logicq
    BY <1>8 DEF ServerTimer, Sv!TimerExpires
  <2>2. Sv!C!Quiet(Sv!C!TimerExpires(p), p)
    BY <1>1, Composed, Sv!C!TimerQuiet DEF Sv!ServerAssumption
  <2> QED BY <1>4, <2>1, <2>2
<1> QED BY <1>5, <1>6, <1>7, <1>8

\* The handlers of the session that take no request and write no reply.
LEMMA ServerIoQuiet ==
  ASSUME NEW n \in Stages, Token(n), Sv!ServerInv, Sv!ServerInv',
         \/ Sv!OnReadHeader(Own) \/ Sv!ReadBodyError(Own) \/ Sv!OnError(Own)
         \/ Sv!OnAborted(Own) \/ Sv!OnWritten(Own) \/ Sv!CheckAliveFails(Own)
         \/ Sv!CheckAlivePasses(Own) \/ Sv!RunClose(Own),
         UNCHANGED <<client, c2s, s2c>>
  PROVE  Token(n)'
<1> DEFINE p == conn[Own]
           c == Sv!C!Pop(p)
           task == Sv!Task("CleanUp", Own, NoMsg)
<1>1. Own \in Sessions /\ conn \in [Sessions -> Sv!C!Channels]
  BY DEF Sv!ServerInv, Sv!TypeOK, Sessions
<1>2. UNCHANGED <<logins, authed, user_id>>
  BY DEF Sv!OnReadHeader, Sv!ReadBodyError, Sv!OnError, Sv!OnAborted,
         Sv!OnWritten, Sv!CheckAliveFails, Sv!CheckAlivePasses, Sv!RunClose,
         Sv!registry, Sv!environment
<1>3. task \in Sv!Tasks /\ task.run # "LoginReq"
  BY <1>1 DEF Sv!Task, Sv!Tasks
<1>4. ASSUME NEW h, NEW ec, Sv!C!Ready(p, h, ec)
      PROVE  /\ p \in Sv!C!Channels /\ Sv!C!Core(p) /\ p.ioq # <<>>
             /\ Head(p.ioq).h = h
             /\ c \in Sv!C!Channels /\ Sv!C!Core(c) /\ Begun(c, p)
             /\ c.write_bufs = p.write_bufs /\ c.writing = p.writing
  BY <1>4, ServerHandler
<1>5. ASSUME NEW h, NEW ec, Sv!C!Ready(p, h, ec),
             NEW d, conn' = [conn EXCEPT ![Own] = d],
             Sv!C!Padded(d, c), d.write_bufs \in {p.write_bufs, <<>>},
             d.writing > 0 => p.writing > 0,
             logicq' = logicq \/ logicq' = Append(logicq, task)
      PROVE  Token(n)'
  <2>1. conn'[Own] = d
    BY <1>1, <1>5
  <2>2. Begun(c, p)
    BY <1>4, <1>5
  <2>3. /\ Sv!C!Padded(conn'[Own], c)
        /\ conn'[Own].write_bufs \in {conn[Own].write_bufs, <<>>}
        /\ conn'[Own].writing > 0 => conn[Own].writing > 0
    BY <1>5, <2>1
  <2> HIDE DEF c, task
  <2> QED BY <1>2, <1>3, <1>5, <2>2, <2>3, ServerQuiet
<1>6. ASSUME NEW h, NEW ec, Sv!C!Ready(p, h, ec),
             NEW d, conn' = [conn EXCEPT ![Own] = d], Sv!C!Quiet(d, c),
             logicq' = logicq \/ logicq' = Append(logicq, task)
      PROVE  Token(n)'
  <2>1. c.write_bufs = p.write_bufs /\ c.writing = p.writing
    BY <1>4, <1>6
  <2>2. /\ Sv!C!Padded(d, c) /\ d.write_bufs \in {p.write_bufs, <<>>}
        /\ d.writing > 0 => p.writing > 0
    BY <1>6, <2>1 DEF Sv!C!Quiet, Sv!C!Calm
  <2> HIDE DEF c, task
  <2> QED BY <1>5, <1>6, <2>2
<1>7. CASE Sv!OnReadHeader(Own)
  <2>1. /\ Sv!C!Ready(p, "header", "ok") /\ logicq' = logicq
        /\ conn' = [conn EXCEPT ![Own] = Sv!C!AsyncRead(c, "body")]
    BY <1>7 DEF Sv!OnReadHeader
  <2> DEFINE d == Sv!C!AsyncRead(c, "body")
  <2>2. /\ Sv!C!Padded(d, c) /\ d.write_bufs = c.write_bufs
        /\ d.writing = c.writing
    BY <1>4, <2>1, Composed, Sv!C!AsyncReadPadded DEF Sv!ServerAssumption
  <2>3. c.write_bufs = p.write_bufs /\ c.writing = p.writing
    BY <1>4, <2>1
  <2> HIDE DEF c, d, task
  <2> QED BY <1>5, <2>1, <2>2, <2>3 DEF d
<1>8. CASE Sv!ReadBodyError(Own) \/ Sv!OnError(Own)
  <2>1. PICK h, ec : Sv!C!Ready(p, h, ec)
    BY <1>8 DEF Sv!ReadBodyError, Sv!OnError
  <2>2. /\ conn' = [conn EXCEPT ![Own] = Sv!C!Close(c)]
        /\ logicq' = Append(logicq, task)
    BY <1>8 DEF Sv!ReadBodyError, Sv!OnError, Sv!CloseSession, Sv!PostLogic
  <2>3. Sv!C!Quiet(Sv!C!Close(c), c)
    BY <1>4, <2>1, Composed, Sv!C!TimerQuiet DEF Sv!ServerAssumption
  <2> HIDE DEF c, task
  <2> QED BY <1>6, <2>1, <2>2, <2>3
<1>9. CASE Sv!OnAborted(Own)
  <2>1. PICK h : Sv!C!Ready(p, h, "aborted")
    BY <1>9 DEF Sv!OnAborted
  <2>2. conn' = [conn EXCEPT ![Own] = c] /\ logicq' = logicq
    BY <1>9 DEF Sv!OnAborted
  <2>3. Sv!C!Quiet(c, c)
    BY Composed, Sv!C!SameQuiet DEF Sv!ServerAssumption, Sv!C!Calm
  <2> HIDE DEF c, task
  <2> QED BY <1>6, <2>1, <2>2, <2>3
<1>10. CASE Sv!OnWritten(Own)
  <2> DEFINE d == Sv!C!PopWrite(c)
  <2>1. /\ Sv!C!Ready(p, "written", "ok") /\ logicq' = logicq
        /\ conn' = [conn EXCEPT ![Own] = d]
    BY <1>10 DEF Sv!OnWritten
  <2>2. /\ p \in Sv!C!Channels /\ Sv!C!Core(p) /\ p.ioq # <<>>
        /\ Head(p.ioq).h = "written" /\ c \in Sv!C!Channels
        /\ c.write_bufs = p.write_bufs /\ c.writing = p.writing
    BY <1>4, <2>1
  <2>3. Sv!C!Queued(p, {"written"}) # {}
    BY <2>2, Composed, Sv!C!HeadQueued DEF Sv!ServerAssumption
  <2>4. p.write_bufs # <<>>
    BY <2>2, <2>3 DEF Sv!C!Core, Sv!C!WriteUnderway
  <2>5. p.write_bufs = <<Reply>>
    BY <2>4 DEF Token, Replying
  <2>6. Tail(<<Reply>>) = <<>>
    OBVIOUS
  <2>7. /\ Sv!C!Padded(d, c) /\ d.write_bufs = Tail(c.write_bufs)
        /\ d.write_bufs = <<>> => d.writing = c.writing
    BY <2>2, <2>4, Composed, Sv!C!PopWritePadded DEF Sv!ServerAssumption
  <2> HIDE DEF c, d, task
  <2>8. d.write_bufs = <<>> /\ d.writing = p.writing
    BY <2>2, <2>5, <2>6, <2>7
  <2> QED BY <1>5, <2>1, <2>7, <2>8
<1>11. CASE Sv!CheckAliveFails(Own) \/ Sv!CheckAlivePasses(Own)
  <2> DEFINE e == Sv!C!TimerLoop(c)
             d == Sv!C!Close(e)
  <2>1. Sv!C!Ready(p, "timer", "ok")
    BY <1>11 DEF Sv!CheckAliveFails, Sv!CheckAlivePasses
  <2>2. e \in Sv!C!Channels /\ Sv!C!Quiet(e, c)
    BY <1>4, <2>1, Composed, Sv!C!TimerLoopType, Sv!C!TimerQuiet
       DEF Sv!ServerAssumption
  <2>3. \/ conn' = [conn EXCEPT ![Own] = e] /\ logicq' = logicq
        \/ conn' = [conn EXCEPT ![Own] = d] /\ logicq' = Append(logicq, task)
    BY <1>11
       DEF Sv!CheckAliveFails, Sv!CheckAlivePasses, Sv!CloseSession,
           Sv!PostLogic
  <2> HIDE DEF c, e, task
  <2>4. Sv!C!Quiet(d, c)
    BY <2>2, Composed, Sv!C!TimerQuiet, Sv!C!QuietTrans DEF Sv!ServerAssumption
  <2> HIDE DEF d
  <2> QED BY <1>6, <2>1, <2>2, <2>3, <2>4
<1>12. CASE Sv!RunClose(Own)
  <2>1. /\ Sv!C!Ready(p, "close", "ok") /\ logicq' = logicq
        /\ conn' = [conn EXCEPT ![Own] = Sv!C!CloseSocket(c)]
    BY <1>12 DEF Sv!RunClose
  <2>2. Sv!C!Quiet(Sv!C!CloseSocket(c), c)
    BY <1>4, <2>1, Composed, Sv!C!CloseSocketQuiet DEF Sv!ServerAssumption
  <2> HIDE DEF c, task
  <2> QED BY <1>6, <2>1, <2>2
<1> QED BY <1>7, <1>8, <1>9, <1>10, <1>11, <1>12

\* The other session, and the closures of the logic thread that are no login.
LEMMA OthersQuiet ==
  ASSUME NEW n \in Stages, Token(n), Sv!ServerInv, Sv!ServerInv',
         \/ OtherCloses
         \/ \E s \in Sessions :
              Sv!AddSession(s) \/ Sv!HandlePing(s) \/ Sv!CleanUp(s),
         UNCHANGED <<client, c2s, s2c>>
  PROVE  Token(n)'
<1>1. Own \in Sessions /\ conn \in [Sessions -> Sv!C!Channels]
      /\ Other \in Sessions
  BY DEF Sv!ServerInv, Sv!TypeOK, Sessions
<1>2. UNCHANGED <<logins, authed, user_id>>
  BY DEF OtherCloses, Sv!OnError, Sv!AddSession, Sv!HandlePing, Sv!CleanUp,
         Sv!R!AddSession, Sv!R!CleanUp, Sv!registry, Sv!environment
<1>3. conn'[Own] = conn[Own]
  <2>1. Own # Other
    BY DEF SystemAssumption
  <2> QED BY <1>1, <2>1
          DEF OtherCloses, Sv!OnError, Sv!CloseSession, Sv!AddSession,
              Sv!HandlePing, Sv!CleanUp
<1>4. \/ \E task \in Sv!Tasks :
           task.run # "LoginReq" /\ logicq' = Append(logicq, task)
      \/ logicq # <<>> /\ logicq' = Tail(logicq)
  <2> DEFINE task == Sv!Task("CleanUp", Other, NoMsg)
  <2>1. task \in Sv!Tasks /\ task.run # "LoginReq"
    BY <1>1 DEF Sv!Task, Sv!Tasks
  <2>2. CASE OtherCloses
    <3>1. logicq' = Append(logicq, task)
      BY <2>2 DEF OtherCloses, Sv!OnError, Sv!CloseSession, Sv!PostLogic
    <3> QED BY <2>1, <3>1
  <2>3. CASE \E s \in Sessions :
               Sv!AddSession(s) \/ Sv!HandlePing(s) \/ Sv!CleanUp(s)
    BY <2>3 DEF Sv!AddSession, Sv!HandlePing, Sv!CleanUp, Sv!NextTask
  <2> QED BY <2>2, <2>3
<1>5. Begun(conn[Own], conn[Own])
  BY DEF Begun
<1>6. Sv!C!Padded(conn'[Own], conn[Own])
  BY <1>3, Composed, Sv!C!AppendedSame DEF Sv!ServerAssumption
<1> QED BY <1>2, <1>3, <1>4, <1>5, <1>6, ServerQuiet

\* The header or the body of a message has come.
LEMMA ServerReceives ==
  ASSUME NEW n \in Stages, Token(n), Sv!ServerInv,
         ServerReadsHeader \/ ServerReadsBody
  PROVE  \E k \in Stages : Token(k)'
<1> DEFINE p == conn[Own]
           d == conn'[Own]
           m == IF p.reading = "header" THEN NoMsg ELSE Head(c2s)
           x == Sv!C!Handler(p.reading, "ok", m)
<1>1. p \in Sv!C!Channels /\ Own \in Sessions /\ conn \in [Sessions -> Sv!C!Channels]
  BY DEF Sv!ServerInv, Sv!TypeOK, Sessions
<1>2. /\ conn' = [conn EXCEPT ![Own] = Sv!C!ReadCompletes(p, "ok", m)]
      /\ UNCHANGED <<client, s2c, authed, user_id, logicq>>
      /\ p.reading \in {"header", "body"} /\ c2s # <<>>
  BY DEF ServerReadsHeader, ServerReadsBody, registry
<1>3. /\ d.writing = p.writing /\ d.write_bufs = p.write_bufs
      /\ d.ioq = Append(p.ioq, x)
  <2>1. d = Sv!C!ReadCompletes(p, "ok", m)
    BY <1>1, <1>2
  <2> QED BY <1>1, <2>1, Composed, Sv!C!CompletesFields DEF Sv!ServerAssumption
<1>4. x.h = p.reading /\ x.m = m
  BY DEF Sv!C!Handler
<1> HIDE DEF x, m
<1>5. p.ioq \in Seq(Sv!C!Handlers)
  BY <1>1 DEF Sv!C!Channels
<1>6. Sv!C!Queued(d, {"write"}) = Sv!C!Queued(p, {"write"})
      /\ \A i \in Sv!C!Queued(p, {"write"}) : d.ioq[i] = p.ioq[i]
  <2>1. /\ Len(p.ioq) \in Nat /\ DOMAIN p.ioq = 1 .. Len(p.ioq)
        /\ DOMAIN d.ioq = 1 .. Len(p.ioq) + 1
        /\ \A i \in 1 .. Len(p.ioq) : d.ioq[i] = p.ioq[i]
        /\ d.ioq[Len(p.ioq) + 1] = x
    BY <1>3, <1>5
  <2> HIDE DEF d, p
  <2> QED BY <1>2, <1>4, <2>1 DEF Sv!C!Queued
<1>7. Reply' = Reply
  BY <1>2 DEF Reply
<1>8. ASSUME NEW k \in Stages, k = n \/ (n = 3 /\ k = 4)
      PROVE  Replying(k)' /\ Sending(k)' /\ Following' /\ Answering(k)'
             /\ (k >= 3 /\ Sent' => Popping')
  <2>1. Replying(k)'
    <3>1. /\ Sv!C!Single(p, {"write"})
          /\ k # 6 => Sv!C!Queued(p, {"write"}) = {}
          /\ \A i \in Sv!C!Queued(p, {"write"}) : p.ioq[i].m = Reply
          /\ p.write_bufs \in IF k <= 6 THEN {<<>>} ELSE {<<>>, <<Reply>>}
          /\ k # 7 => p.writing = 0
      BY <1>8 DEF Token, Replying
    <3>2. Sv!C!Single(d, {"write"})
      BY <1>6, <3>1 DEF Sv!C!Single
    <3> QED BY <1>3, <1>6, <1>7, <3>1, <3>2 DEF Replying
  <2>2. /\ Sending(k)' /\ (k >= 3 /\ Sent' => Popping')
        /\ Following'
    BY <1>2, <1>8, ClientWaits
  <2>3. Answering(k)'
    BY <1>2, <1>7, <1>8, AnswerWaits
  <2> QED BY <2>1, <2>2, <2>3
<1>9. ASSUME x # ReadReq, logins' = logins, c2s' \in Seq({LoginReq, Ping}),
             AtMostOne(c2s', LoginReq), n # 3 => Never(c2s', LoginReq)
      PROVE  Token(n)'
  <2>1. At(d.ioq, ReadReq) = At(p.ioq, ReadReq)
    BY <1>3, <1>5, <1>9, AppendAt
  <2>2. Serving(n)'
    BY <1>2, <1>9, <2>1 DEF Token, Serving, AtMostOne, Never
  <2>3. Asking(n)'
    BY <1>9 DEF Asking
  <2> QED BY <1>8, <2>2, <2>3 DEF Token
<1>10. CASE ServerReadsHeader
  <2>1. x # ReadReq
    BY <1>4, <1>10 DEF ServerReadsHeader, ReadReq, Sv!C!Handler
  <2>2. UNCHANGED <<logins, c2s>>
    BY <1>10 DEF ServerReadsHeader
  <2>3. /\ c2s' \in Seq({LoginReq, Ping}) /\ AtMostOne(c2s', LoginReq)
        /\ n # 3 => Never(c2s', LoginReq)
    BY <2>2 DEF Token, Asking
  <2>4. Token(n)'
    BY <1>9, <2>1, <2>2, <2>3
  <2> QED BY <2>4
<1>11. CASE ServerReadsBody
  <2>1. p.reading = "body" /\ c2s' = Tail(c2s) /\ m = Head(c2s)
    BY <1>11 DEF ServerReadsBody, m
  <2>2. /\ m \in {LoginReq, Ping} /\ c2s' \in Seq({LoginReq, Ping})
        /\ m.name = "LoginReq" => m = LoginReq /\ n = 3 /\ logins[Own] = 0
    BY <1>2, <2>1, LoginComes
  <2>3. c2s \in Seq({LoginReq, Ping}) /\ AtMostOne(c2s, LoginReq)
        /\ (n # 3 => Never(c2s, LoginReq))
    BY DEF Token, Asking
  <2>4. AtMostOne(c2s', LoginReq) /\ (n # 3 => Never(c2s', LoginReq))
        /\ (Head(c2s) = LoginReq => Never(c2s', LoginReq))
    BY <1>2, <2>1, <2>3, TailAt
  <2>5. CASE m.name = "LoginReq"
    <3>1. n = 3 /\ x = ReadReq
      BY <2>1, <2>2, <2>5 DEF x, ReadReq
    <3>2. Never(p.ioq, ReadReq)
      BY <3>1 DEF Token, Serving
    <3>3. AtMostOne(d.ioq, ReadReq)
      BY <1>3, <1>5, <3>1, <3>2, AppendAt
    <3>4. Serving(4)'
      BY <1>2, <3>1, <3>3 DEF Token, Serving
    <3>5. Asking(4)'
      BY <2>1, <2>2, <2>4, <2>5 DEF Asking
    <3>6. Token(4)'
      BY <1>8, <3>1, <3>4, <3>5 DEF Token, Stages
    <3> QED BY <3>6 DEF Stages
  <2>6. CASE m.name # "LoginReq"
    <3>1. logins' = logins
      BY <1>11, <2>1, <2>6 DEF ServerReadsBody
    <3>2. x # ReadReq
      BY <1>4, <2>6, Carriers DEF ReadReq, Sv!C!Handler
    <3>3. Token(n)'
      BY <1>9, <2>2, <2>4, <3>1, <3>2
    <3> QED BY <3>3
  <2> QED BY <2>5, <2>6
<1> QED BY <1>10, <1>11

\* The reply has been written.
LEMMA ServerSends ==
  ASSUME NEW n \in Stages, Token(n), Sv!ServerInv, Sv!ServerInv', ServerWrites
  PROVE  Token(8)'
<1> DEFINE p == conn[Own]
           d == conn'[Own]
<1>1. p \in Sv!C!Channels /\ Own \in Sessions /\ conn \in [Sessions -> Sv!C!Channels]
      /\ d \in Sv!C!Channels
  BY OwnTypes DEF Sv!ServerInv, Sv!TypeOK, Sessions
<1>2. /\ p.writing > 0
      /\ conn' = [conn EXCEPT ![Own] = Sv!C!WriteCompletes(p, "ok")]
      /\ s2c' = Append(s2c, Head(p.write_bufs))
      /\ UNCHANGED <<client, authed, user_id, logicq, logins, c2s>>
  BY DEF ServerWrites, registry
<1>3. n = 7
  BY <1>1, <1>2 DEF Token, Replying, Sv!C!Channels
<1>4. Sv!C!Core(p)
  BY <1>1, <1>2, Composed, Sv!ActiveAccepted DEF Sv!ServerAssumption, Sv!C!Sound
<1>5. p.writing = 1 /\ p.write_bufs # <<>>
  BY <1>1, <1>2, <1>4
     DEF Sv!C!Core, Sv!C!WriteUnderway, Sv!C!OneWrite, Sv!C!Channels
<1>6. p.write_bufs = <<Reply>> /\ s2c = <<>>
  BY <1>3, <1>5 DEF Token, Replying, Answering
<1>7. s2c' = <<Reply>>
  <2>1. Append(<<>>, Head(<<Reply>>)) = <<Reply>>
    OBVIOUS
  <2> QED BY <1>2, <1>6, <2>1
<1>8. d = Sv!C!WriteCompletes(p, "ok")
  BY <1>1, <1>2
<1>9. d.writing = p.writing - 1 /\ d.write_bufs = p.write_bufs
  <2> DEFINE w == Sv!C!WriteCompletes(p, "ok")
             r == Sv!C!ReadCompletes(p, "ok", NoMsg)
  <2>1. /\ r.reading = "none" /\ w.reading = p.reading
        /\ w.writing = p.writing - 1 /\ w.write_bufs = p.write_bufs
    BY <1>1, Composed, Sv!C!CompletesFields DEF Sv!ServerAssumption
  <2> QED BY <1>8, <2>1
<1>10. Sv!C!Quiet(d, p)
  BY <1>1, <1>2, <1>8, Composed, Sv!C!WriteCompletesQuiet
     DEF Sv!ServerAssumption
<1>11. Begun(p, p) /\ Sv!C!Padded(d, p)
  BY <1>10 DEF Begun, Sv!C!Quiet
<1>12. /\ Sv!C!Single(p, {"write"}) /\ Sv!C!Queued(p, {"write"}) = {}
       /\ Never(p.ioq, ReadReq)
  BY <1>3 DEF Token, Replying, Serving
<1>13. /\ Sv!C!Single(d, {"write"}) /\ Sv!C!Queued(d, {"write"}) = {}
       /\ Never(d.ioq, ReadReq)
  <2> HIDE DEF p, d
  <2> QED BY <1>1, <1>11, <1>12, ReadyFacts
<1>14. Reply' = Reply
  BY <1>2 DEF Reply
<1>15. Serving(8)'
  BY <1>2, <1>3, <1>13 DEF Token, Serving, Never, AtMostOne
<1>16. Replying(8)'
  BY <1>5, <1>6, <1>9, <1>13, <1>14 DEF Replying
<1>17. s2c' # <<>>
  BY <1>7
<1>18. Sending(8)' /\ Following' /\ (8 >= 3 /\ Sent' => Popping')
  BY <1>2, <1>3, <1>17, ClientWaits DEF Stages
<1>19. Answering(8)'
  <2>1. UNCHANGED <<answered, userq, pipe>>
    BY <1>2 DEF client
  <2> QED BY <1>3, <1>7, <1>14, <2>1 DEF Token, Answering
<1>20. Asking(8)'
  BY <1>2, <1>3 DEF Token, Asking
<1> QED BY <1>15, <1>16, <1>18, <1>19, <1>20 DEF Token

\* A message is posted to the logic thread.
LEMMA ServerTakes ==
  ASSUME NEW n \in Stages, Token(n), Sv!ServerInv, Sv!ServerInv',
         Sv!OnReadBody(Own), UNCHANGED <<client, c2s, s2c>>
  PROVE  \E k \in Stages : Token(k)'
<1> DEFINE p == conn[Own]
           c == Sv!C!Pop(p)
           d == Sv!C!AsyncRead(c, "header")
           m == Head(p.ioq).m
           task == Sv!Task(m.name, Own, m)
<1>1. Own \in Sessions /\ conn \in [Sessions -> Sv!C!Channels]
      /\ conn'[Own] \in Sv!C!Channels /\ p \in Sv!C!Channels
  BY OwnTypes DEF Sv!ServerInv, Sv!TypeOK, Sessions
<1>2. /\ Sv!C!Ready(p, "body", "ok") /\ m.name \in Sv!HandlerNames
      /\ logicq' = Append(logicq, task)
      /\ conn' = [conn EXCEPT ![Own] = d]
      /\ UNCHANGED <<logins, authed, user_id>>
  BY DEF Sv!OnReadBody, Sv!PostLogic, Sv!registry, Sv!environment
<1>3. /\ Head(p.ioq) \in Sv!C!Handlers /\ Head(p.ioq) = p.ioq[1]
      /\ 1 \in DOMAIN p.ioq /\ Head(p.ioq).h = "body" /\ Head(p.ioq).ec = "ok"
      /\ c \in Sv!C!Channels /\ Begun(c, p) /\ c # p
      /\ c.write_bufs = p.write_bufs /\ c.writing = p.writing
  BY <1>2, ServerHandler
<1>4. conn'[Own] = d
  BY <1>1, <1>2
<1>5. Sv!C!Padded(d, c) /\ d.write_bufs = c.write_bufs /\ d.writing = c.writing
  BY <1>3, Composed, Sv!C!AsyncReadPadded DEF Sv!ServerAssumption
<1>6. m \in Sv!Requests /\ Head(p.ioq) = Sv!C!Handler("body", "ok", m)
  <2> HIDE DEF c, d, p
  <2> QED BY <1>3 DEF Sv!C!Handlers, Sv!C!Handler
<1>7. CASE m.name = "LoginReq"
  <2>1. m = LoginReq
    BY <1>6, <1>7
       DEF Sv!Requests, Sv!LoginReqs, LoginReq, Request
  <2>2. Head(p.ioq) = ReadReq
    BY <1>6, <2>1 DEF ReadReq
  <2>3. n = 4
    BY <1>3, <2>2 DEF Token, Serving, Never, At
  <2>4. AtMostOne(p.ioq, ReadReq) /\ Sv!C!Single(p, {"write"})
        /\ Sv!C!Queued(p, {"write"}) = {}
    BY <2>3 DEF Token, Serving, Replying
  <2>5. /\ AtMostOne(d.ioq, ReadReq) /\ Never(d.ioq, ReadReq)
        /\ Sv!C!Single(d, {"write"}) /\ Sv!C!Queued(d, {"write"}) = {}
    <3>1. d \in Sv!C!Channels
      BY <1>1, <1>4
    <3> HIDE DEF p, c, d
    <3> QED BY <1>1, <1>3, <1>5, <2>2, <2>4, <3>1, ReadyFacts
  <2>6. task = HandleReq /\ task.s = Own
    BY <1>7, <2>1 DEF HandleReq, Sv!Task
  <2>7. logicq \in Seq(Sv!Tasks)
    BY DEF Sv!ServerInv, Sv!TypeOK
  <2>8. Never(logicq, HandleReq)
    BY <2>3 DEF Token, Serving
  <2>9. /\ AtMostOne(logicq', HandleReq)
        /\ \A i \in DOMAIN logicq' : logicq'[i].run = "LoginReq" => logicq'[i].s = Own
    <3>1. \A i \in DOMAIN logicq' :
            (i \in DOMAIN logicq /\ logicq'[i] = logicq[i]) \/ logicq'[i] = task
      <4> HIDE DEF task
      <4> QED BY <1>2, <2>7
    <3> HIDE DEF task
    <3> QED BY <1>2, <2>6, <2>7, <2>8, <3>1, AppendAt DEF Token, Serving
  <2> HIDE DEF task, m, c, d, p
  <2>10. Serving(5)'
    BY <1>2, <1>4, <2>3, <2>5, <2>9 DEF Token, Serving
  <2>11. Reply' = Reply
    BY <1>2 DEF Reply
  <2>12. Replying(5)'
    BY <1>3, <1>4, <1>5, <2>3, <2>5, <2>11 DEF Token, Replying, p
  <2>13. Sending(5)' /\ Following' /\ (5 >= 3 /\ Sent' => Popping')
    BY <2>3, ClientWaits DEF Stages
  <2>14. Answering(5)'
    BY <2>3, AnswerWaits DEF Stages
  <2>15. Asking(5)'
    BY <2>3 DEF Token, Asking
  <2>16. Token(5)'
    BY <2>10, <2>12, <2>13, <2>14, <2>15 DEF Token
  <2> QED BY <2>16 DEF Stages
<1>8. CASE m.name # "LoginReq"
  <2>1. task \in Sv!Tasks /\ task.run # "LoginReq"
    BY <1>1, <1>2, <1>6, <1>8
       DEF Sv!Task, Sv!Tasks, Sv!HandlerNames, Sv!Requests, Sv!LoginReqs
  <2>2. /\ Sv!C!Padded(conn'[Own], c)
        /\ conn'[Own].write_bufs \in {conn[Own].write_bufs, <<>>}
        /\ conn'[Own].writing > 0 => conn[Own].writing > 0
    BY <1>3, <1>4, <1>5
  <2> HIDE DEF task, m, c, d
  <2>3. Token(n)'
    BY <1>2, <1>3, <2>1, <2>2, ServerQuiet
  <2> QED BY <2>3
<1> QED BY <1>7, <1>8

\* The reply enters the queue of buffers, which is empty.
LEMMA ServerQueues ==
  ASSUME NEW n \in Stages, Token(n), Sv!ServerInv, Sv!ServerInv',
         Sv!RunWrite(Own), UNCHANGED <<client, c2s, s2c>>
  PROVE  Token(7)'
<1> DEFINE p == conn[Own]
           c == Sv!C!Pop(p)
           m == Head(p.ioq).m
           d == Sv!C!PushWrite(c, m)
<1>1. Own \in Sessions /\ conn \in [Sessions -> Sv!C!Channels]
      /\ conn'[Own] \in Sv!C!Channels /\ p \in Sv!C!Channels
  BY OwnTypes DEF Sv!ServerInv, Sv!TypeOK, Sessions
<1>2. /\ Sv!C!Ready(p, "write", "ok") /\ conn' = [conn EXCEPT ![Own] = d]
      /\ UNCHANGED <<logicq, logins, authed, user_id>>
  BY DEF Sv!RunWrite, Sv!registry, Sv!environment
<1>3. /\ Head(p.ioq) \in Sv!C!Handlers /\ Head(p.ioq) = p.ioq[1]
      /\ 1 \in DOMAIN p.ioq /\ Head(p.ioq).h = "write"
      /\ c \in Sv!C!Channels /\ Begun(c, p) /\ c # p
      /\ c.write_bufs = p.write_bufs
  BY <1>2, ServerHandler
<1>4. conn'[Own] = d
  BY <1>1, <1>2
<1>5. 1 \in Sv!C!Queued(p, {"write"})
  BY <1>3 DEF Sv!C!Queued
<1>6. n = 6 /\ m = Reply /\ p.write_bufs = <<>>
  BY <1>3, <1>5 DEF Token, Replying
<1>7. m \in Sv!Replies
  BY <1>6 DEF Reply, Sv!Replies
<1>8. Sv!C!Padded(d, c) /\ d.write_bufs = Append(c.write_bufs, m)
  BY <1>3, <1>7, Composed, Sv!C!PushWritePadded DEF Sv!ServerAssumption
<1>9. d.write_bufs = <<Reply>>
  <2>1. Append(<<>>, Reply) = <<Reply>>
    OBVIOUS
  <2> HIDE DEF d, c, m, p
  <2> QED BY <1>3, <1>6, <1>8, <2>1
<1>10. /\ Never(d.ioq, ReadReq)
       /\ Sv!C!Single(d, {"write"}) /\ Sv!C!Queued(d, {"write"}) = {}
  <2>1. Never(p.ioq, ReadReq) /\ Sv!C!Single(p, {"write"})
    BY <1>6 DEF Token, Serving, Replying
  <2>2. d \in Sv!C!Channels
    BY <1>1, <1>4
  <2> HIDE DEF p, c, d
  <2> QED BY <1>1, <1>3, <1>8, <2>1, <2>2, ReadyFacts
<1> HIDE DEF c, d, m
<1>11. Reply' = Reply
  BY <1>2 DEF Reply
<1>12. Serving(7)'
  BY <1>2, <1>4, <1>6, <1>10 DEF Token, Serving, Never, AtMostOne
<1>13. Replying(7)'
  BY <1>4, <1>9, <1>10, <1>11 DEF Replying
<1>14. Sending(7)' /\ Following' /\ (7 >= 3 /\ Sent' => Popping')
  BY <1>6, ClientWaits DEF Stages
<1>15. Answering(7)'
  BY <1>6, AnswerWaits DEF Stages
<1>16. Asking(7)'
  BY <1>6 DEF Token, Asking
<1> QED BY <1>12, <1>13, <1>14, <1>15, <1>16 DEF Token

\* The logic thread decides on the login.
LEMMA ServerAnswers ==
  ASSUME NEW n \in Stages, Token(n), Sv!ServerInv, Sv!ServerInv',
         NEW s \in Sessions, Sv!RefuseLogin(s) \/ Sv!GrantLogin(s),
         UNCHANGED <<client, c2s, s2c>>
  PROVE  Token(6)'
<1> DEFINE p == conn[Own]
           d == conn'[Own]
           f == Sv!C!Handler("write", "ok", Reply')
<1>1. Own \in Sessions /\ conn \in [Sessions -> Sv!C!Channels]
      /\ d \in Sv!C!Channels /\ p \in Sv!C!Channels
      /\ logicq \in Seq(Sv!Tasks)
  BY OwnTypes DEF Sv!ServerInv, Sv!TypeOK, Sessions
<1>2. /\ logicq # <<>> /\ Head(logicq).run = "LoginReq" /\ Head(logicq).s = s
      /\ logicq' = Tail(logicq) /\ logins' = logins
  BY DEF Sv!RefuseLogin, Sv!GrantLogin, Sv!NextTask, Sv!environment
<1>3. Head(logicq) = logicq[1] /\ 1 \in DOMAIN logicq /\ Head(logicq) \in Sv!Tasks
  BY <1>1, <1>2
<1>4. s = Own
  BY <1>2, <1>3 DEF Token, Serving
<1>5. Head(logicq).m = LoginReq /\ Head(logicq) = HandleReq
  BY <1>2, <1>3, <1>4
     DEF Sv!Tasks, Sv!LoginReqs, LoginReq, Request, HandleReq, Sv!Task
<1>6. n = 5 /\ ~authed[Own]
  <2>1. n = 5
    BY <1>3, <1>5 DEF Token, Serving, Never, At
  <2> QED BY <2>1 DEF Token, Serving
<1>7. authed \in [Sessions -> BOOLEAN] /\ user_id \in [Sessions -> {Uid, NoUid}]
  BY DEF Sv!ServerInv, Sv!TypeOK, Sv!R!TypeOK
<1>8. /\ conn' = [conn EXCEPT ![Own] = Sv!C!Post(p, f)]
      /\ authed'[Own] => user_id'[Own] = Uid
  <2>1. CASE Sv!RefuseLogin(Own)
    <3>1. /\ conn' = [conn EXCEPT ![Own] = Sv!C!Post(p, Sv!C!Handler(
                                     "write", "ok", Sv!LoginRsp("Logined")))]
          /\ authed' = authed
      BY <2>1 DEF Sv!RefuseLogin, Sv!SendMsg, Sv!R!Refuse, Sv!R!registry
    <3>2. Reply' = Sv!LoginRsp("Logined")
      BY <1>6, <3>1 DEF Reply
    <3> QED BY <1>6, <3>1, <3>2
  <2>2. CASE Sv!GrantLogin(Own)
    <3>1. /\ conn' = [conn EXCEPT ![Own] = Sv!C!Post(p, Sv!C!Handler(
                                     "write", "ok", Sv!LoginRsp("Success")))]
          /\ authed' = [authed EXCEPT ![Own] = TRUE]
          /\ user_id' = [user_id EXCEPT ![Own] = Head(logicq).m.uid]
      BY <2>2 DEF Sv!GrantLogin, Sv!SendMsg, Sv!R!Grant
    <3>2. authed'[Own] = TRUE /\ user_id'[Own] = LoginReq.uid
      BY <1>1, <1>5, <1>7, <3>1
    <3>3. Reply' = Sv!LoginRsp("Success")
      BY <3>2 DEF Reply
    <3>4. LoginReq.uid = Uid
      BY DEF LoginReq, Request
    <3> QED BY <3>1, <3>2, <3>3, <3>4
  <2> QED BY <1>4, <2>1, <2>2
<1>9. d.ioq = Append(p.ioq, f) /\ d.write_bufs = p.write_bufs
      /\ d.writing = p.writing
  <2>1. d = Sv!C!Post(p, f)
    BY <1>1, <1>8
  <2> HIDE DEF d, p, f
  <2>2. d.ioq = Append(p.ioq, f)
    BY <1>1, <2>1 DEF Sv!C!Post, Sv!C!Channels
  <2> QED BY <1>1, <2>1, <2>2, Composed, Sv!C!PostFields DEF Sv!ServerAssumption
<1>10. f.h = "write" /\ f.m = Reply' /\ f # ReadReq
  BY DEF Sv!C!Handler, ReadReq
<1>11. p.ioq \in Seq(Sv!C!Handlers)
  BY <1>1 DEF Sv!C!Channels
<1>12. /\ Sv!C!Queued(p, {"write"}) = {} /\ Never(p.ioq, ReadReq)
       /\ p.write_bufs = <<>> /\ p.writing = 0
  BY <1>6 DEF Token, Replying, Serving
<1> HIDE DEF f
<1>13. \A i \in Sv!C!Queued(d, {"write"}) : i = Len(p.ioq) + 1 /\ d.ioq[i] = f
  <2>1. /\ Len(p.ioq) \in Nat /\ DOMAIN p.ioq = 1 .. Len(p.ioq)
        /\ DOMAIN d.ioq = 1 .. Len(p.ioq) + 1
        /\ \A i \in 1 .. Len(p.ioq) : d.ioq[i] = p.ioq[i]
        /\ d.ioq[Len(p.ioq) + 1] = f
    BY <1>9, <1>11
  <2> HIDE DEF d, p
  <2> QED BY <1>12, <2>1 DEF Sv!C!Queued
<1>14. Sv!C!Single(d, {"write"})
  BY <1>13 DEF Sv!C!Single
<1>15. Never(d.ioq, ReadReq)
  BY <1>9, <1>10, <1>11, <1>12, AppendAt DEF Never
<1>16. Never(logicq', HandleReq)
       /\ \A i \in DOMAIN logicq' : logicq'[i].run = "LoginReq" => logicq'[i].s = Own
  <2>1. Never(logicq', HandleReq)
    BY <1>1, <1>2, <1>5, TailAt DEF Token, Serving
  <2> QED BY <1>2, <2>1, LogicFacts DEF Token
<1>17. Serving(6)'
  BY <1>8, <1>15, <1>16 DEF Serving, Never, AtMostOne
<1>18. Replying(6)'
  BY <1>9, <1>10, <1>12, <1>13, <1>14 DEF Replying
<1>19. Sending(6)' /\ Following' /\ (6 >= 3 /\ Sent' => Popping')
  BY <1>6, ClientWaits DEF Stages
<1>20. Answering(6)'
  BY <1>6, AnswerWaits DEF Stages
<1>21. Asking(6)'
  BY <1>6 DEF Token, Asking
<1> QED BY <1>17, <1>18, <1>19, <1>20, <1>21 DEF Token

\* Every step of the server leaves the login somewhere.
LEMMA ServerToken ==
  ASSUME NEW n \in Stages, Token(n), Sv!ServerInv, Sv!ServerInv', Server
  PROVE  \E m \in Stages : Token(m)'
<1> USE DEF Stages
<1>1. CASE Accept \/ ServerReadFails \/ ServerWriteFails \/ ServerTimer
  BY <1>1, ServerNetworkQuiet
<1>2. CASE ServerReadsHeader \/ ServerReadsBody
  BY <1>2, ServerReceives
<1>3. CASE ServerWrites
  BY <1>3, ServerSends
<1>4. CASE ServerIo
  <2>1. Sv!IoThread(Own) /\ UNCHANGED <<client, c2s, s2c>>
    BY <1>4 DEF ServerIo
  <2>2. CASE Sv!OnReadBody(Own)
    BY <2>1, <2>2, ServerTakes
  <2>3. CASE Sv!RunWrite(Own)
    BY <2>1, <2>3, ServerQueues
  <2>4. CASE \/ Sv!OnReadHeader(Own) \/ Sv!ReadBodyError(Own)
             \/ Sv!OnError(Own) \/ Sv!OnAborted(Own) \/ Sv!OnWritten(Own)
             \/ Sv!CheckAliveFails(Own) \/ Sv!CheckAlivePasses(Own)
             \/ Sv!RunClose(Own)
    BY <2>1, <2>4, ServerIoQuiet
  <2> QED BY <2>1, <2>2, <2>3, <2>4 DEF Sv!IoThread
<1>5. CASE Logic
  <2>1. UNCHANGED <<client, c2s, s2c>>
    BY <1>5 DEF Logic
  <2>2. PICK s \in Sessions :
          \/ Sv!RefuseLogin(s) \/ Sv!GrantLogin(s)
          \/ Sv!AddSession(s) \/ Sv!HandlePing(s) \/ Sv!CleanUp(s)
    BY <1>5 DEF Logic, Sv!LogicThread
  <2>3. CASE Sv!RefuseLogin(s) \/ Sv!GrantLogin(s)
    BY <2>1, <2>3, ServerAnswers
  <2>4. CASE Sv!AddSession(s) \/ Sv!HandlePing(s) \/ Sv!CleanUp(s)
    BY <2>1, <2>4, OthersQuiet
  <2> QED BY <2>2, <2>3, <2>4
<1>6. CASE OtherCloses
  <2>1. UNCHANGED <<client, c2s, s2c>>
    BY <1>6 DEF OtherCloses
  <2> QED BY <1>6, <2>1, OthersQuiet
<1> QED BY <1>1, <1>2, <1>3, <1>4, <1>5, <1>6 DEF Server

-----------------------------------------------------------------------------
(* The invariant *)

\* The lost session has read an error, and is otherwise as it was accepted.
LEMMA LostSound == Sv!C!Sound(Lost, 0) /\ Lost \in Sv!C!Channels
<1> DEFINE c == Sv!C!TimerLoop(Sv!C!Connected)
           f == Sv!C!Handler("header", "error", NoMsg)
<1>1. /\ c \in Sv!C!Channels /\ c.open = TRUE /\ c.reading = "none"
      /\ c.writing = 0 /\ c.write_bufs = <<>> /\ c.armed = TRUE /\ c.ioq = <<>>
  <2>1. Sv!C!Connected \in Sv!C!Channels
    BY Composed, Sv!C!ConnectedSound DEF Sv!ServerAssumption, Sv!C!Core
  <2> QED BY <2>1, Composed, Sv!C!TimerLoopType
          DEF Sv!ServerAssumption, Sv!C!TimerLoop, Sv!C!Connected
<1>2. f \in Sv!C!Handlers /\ f.h = "header" /\ f.ec = "error"
  BY DEF Sv!C!Handler, Sv!C!Handlers
<1>3. Lost = Sv!C!Post(c, f)
  BY DEF Lost
<1> HIDE DEF c, f
<1>4. Lost.ioq = <<f>>
  <2>1. Lost.ioq = Append(c.ioq, f)
    BY <1>1, <1>3 DEF Sv!C!Post, Sv!C!Channels
  <2>2. Append(<<>>, f) = <<f>>
    OBVIOUS
  <2> QED BY <1>1, <2>1, <2>2
<1>5. /\ Lost.open = TRUE /\ Lost.reading = "none" /\ Lost.writing = 0
      /\ Lost.write_bufs = <<>> /\ Lost.armed = TRUE
      /\ Lost \in Sv!C!Channels
  BY <1>1, <1>2, <1>3, Composed, Sv!C!PostFields, Sv!C!PostType
     DEF Sv!ServerAssumption
<1>6. DOMAIN Lost.ioq = {1} /\ Lost.ioq[1] = f
  BY <1>4
<1>7. \A hs : Sv!C!Queued(Lost, hs) \subseteq {1}
              /\ (f.h \in hs <=> Sv!C!Queued(Lost, hs) # {})
  BY <1>6 DEF Sv!C!Queued
<1>8. Sv!C!Core(Lost)
  BY <1>2, <1>5, <1>7
     DEF Sv!C!Core, Sv!C!OneRead, Sv!C!OneWrite, Sv!C!WriteUnderway,
         Sv!C!Single
<1>9. Sv!C!Healthy(Lost)
  BY <1>2, <1>5, <1>6, <1>7
     DEF Sv!C!Healthy, Sv!C!ReadUnderway, Sv!C!TimerUnderway,
         Sv!C!Undisturbed, Sv!C!Reads
<1> QED BY <1>5, <1>8, <1>9 DEF Sv!C!Sound

\* The server with one session, which has lost its peer.
LEMMA InitServer == Init => Sv!ServerInv /\ Sv!RP!ExclusiveInv
<1> SUFFICES ASSUME Init PROVE Sv!ServerInv /\ Sv!RP!ExclusiveInv
  OBVIOUS
<1>1. Own # Other /\ Sessions = {Own, Other}
  BY DEF SystemAssumption, Sessions
<1>2. Sv!R!TypeOK /\ Sv!RP!TypeOK
  <2>1. /\ session_id \in [Sessions -> 0 .. IdMod - 1]
        /\ last_id \in 0 .. IdMod - 1
        /\ user_sessions \in [0 .. IdMod - 1 -> Sessions \cup {NoSession}]
    BY <1>1 DEF Init, Split, SystemAssumption
  <2>2. /\ user_id \in [Sessions -> {Uid} \cup {NoUid}]
        /\ authed \in [Sessions -> BOOLEAN]
        /\ users = {Uid} /\ cleaned = {} /\ strayed = {}
    BY <1>1 DEF Init, Split
  <2> QED BY <2>1, <2>2
          DEF Sv!R!TypeOK, Sv!RP!TypeOK, Sv!R!Ids, Sv!RP!Ids
<1>3. Sv!RP!ExclusiveInv
  <2>1. \A s \in Sessions : authed[s] => s = Other
    BY <1>1 DEF Init, Split
  <2>2. users = {Uid}
    BY DEF Init
  <2> QED BY <1>2, <2>1, <2>2
          DEF Sv!RP!ExclusiveInv, Sv!RP!Exclusive, Sv!RP!Holds
<1>4. /\ conn \in [Sessions -> Sv!C!Channels]
      /\ conn[Own] = Sv!C!Connected /\ conn[Other] = Lost
      /\ accepted = {Other} /\ sv_closes[Other] = 0 /\ logicq = <<>>
      /\ session_id[Other] = 1 /\ session_id[Own] = 0
  <2>1. Sv!C!Connected \in Sv!C!Channels
    BY Composed, Sv!C!ConnectedSound DEF Sv!ServerAssumption, Sv!C!Core
  <2> HIDE DEF Lost
  <2> QED BY <1>1, <2>1, LostSound DEF Init, Split
<1>5. Sv!TypeOK
  <2>1. /\ alive \in [Sessions -> BOOLEAN] /\ sv_closes \in [Sessions -> Nat]
        /\ sv_frames \in [Sessions -> 0 .. MaxFrames]
        /\ logins \in [Sessions -> 0 .. 1]
    BY <1>1 DEF Init, Split, SystemAssumption
  <2>2. logicq \in Seq(Sv!Tasks)
    BY <1>4
  <2> QED BY <1>1, <1>2, <1>4, <2>1, <2>2 DEF Sv!TypeOK
<1>6. Sv!ChannelsInv
  BY <1>1, <1>4, LostSound DEF Sv!ChannelsInv
<1>7. Sv!QueueInv
  <2>1. DOMAIN logicq = {}
    BY <1>4
  <2> QED BY <1>1, <1>4, <2>1
          DEF Sv!QueueInv, Sv!QueueOK, Sv!QueueOwned, Sv!QueueOnce,
              Sv!QueueOrder, Sv!QueueAll
<1> QED BY <1>3, <1>5, <1>6, <1>7 DEF Sv!ServerInv

\* Nothing has been sent.
LEMMA InitToken == Init => Token(0)
<1> SUFFICES ASSUME Init PROVE Token(0)
  OBVIOUS
<1>1. /\ pipe = Cl!C!Connected /\ phase = "connecting" /\ first = NoMsg
      /\ ~answered /\ userq = <<>> /\ c2s = <<>> /\ s2c = <<>>
      /\ logicq = <<>>
  BY DEF Init, Cl!Init
<1>2. /\ pipe.ioq = <<>> /\ pipe.write_bufs = <<>> /\ pipe.writing = 0
      /\ pipe.reading = "none"
  BY <1>1 DEF Cl!C!Connected
<1>3. /\ conn[Own] = Sv!C!Connected /\ ~authed[Own] /\ logins[Own] = 0
  BY DEF Init, Split, Sessions
<1>4. /\ conn[Own].ioq = <<>> /\ conn[Own].write_bufs = <<>>
      /\ conn[Own].writing = 0
  BY <1>3 DEF Sv!C!Connected
<1>5. \A q, f : q = <<>> => Never(q, f) /\ AtMostOne(q, f) /\ DOMAIN q = {}
  BY DEF Never, AtMostOne, At
<1>6. Sending(0)
  BY <1>1, <1>2, <1>5 DEF Sending
<1>7. Asking(0)
  BY <1>1, <1>5 DEF Asking
<1>8. Serving(0)
  BY <1>1, <1>3, <1>4, <1>5 DEF Serving
<1>9. Replying(0)
  BY <1>4, <1>5 DEF Replying, Sv!C!Single, Sv!C!Queued
<1>10. Answering(0)
  BY <1>1, <1>2, <1>5 DEF Answering
<1>11. Following
  BY <1>2, <1>5 DEF Following
<1> QED BY <1>6, <1>7, <1>8, <1>9, <1>10, <1>11 DEF Token

LEMMA InitInv == Init => SystemInv
<1>1. Init => Cl!ClientInv
  BY Composed, Cl!InitInv DEF Init
<1> QED BY <1>1, InitServer, InitToken DEF SystemInv, Stages

\* Each program keeps its own invariant, and the other's by leaving it alone.
LEMMA ClientKeeps ==
  ASSUME Cl!ClientInv, Cl!Next \/ UNCHANGED client
  PROVE  Cl!ClientInv'
<1>1. [Cl!Next]_(Cl!vars)
  BY DEF client, Cl!vars, Cl!server
<1> QED BY <1>1, Composed, Cl!NextInv

LEMMA ServerKeeps ==
  ASSUME Sv!ServerInv, Sv!RP!ExclusiveInv, Sv!Next \/ UNCHANGED server
  PROVE  Sv!ServerInv' /\ Sv!RP!ExclusiveInv'
<1>1. [Sv!Next]_(Sv!vars)
  BY DEF server, registry, Sv!vars, Sv!registry, Sv!environment
<1>2. Sv!Kept
  BY <1>1, Composed, Sv!NextKept
<1>3. [Sv!RP!Next]_(Sv!RP!registry)
  BY <1>2, Composed, Sv!SameStep DEF Sv!Kept
<1> QED BY <1>2, <1>3, Composed, Sv!RP!NextExclusive DEF Sv!Kept

LEMMA NextInv == SystemInv /\ [Next]_vars => SystemInv'
<1> SUFFICES ASSUME SystemInv, [Next]_vars
             PROVE  SystemInv'
  OBVIOUS
<1> PICK n \in Stages : Token(n)
  BY DEF SystemInv
<1>1. Cl!ClientInv /\ Sv!ServerInv /\ Sv!RP!ExclusiveInv
  BY DEF SystemInv
<1>2. CASE Client
  <2>1. Cl!Next /\ UNCHANGED server
    BY <1>2, ClientRefines, ServerStutters
  <2>2. Cl!ClientInv' /\ Sv!ServerInv' /\ Sv!RP!ExclusiveInv'
    BY <1>1, <2>1, ClientKeeps, ServerKeeps
  <2>3. \E m \in Stages : Token(m)'
    BY <1>1, <1>2, ClientToken
  <2> QED BY <2>2, <2>3 DEF SystemInv, Stages
<1>3. CASE Server
  <2>1. Sv!Next /\ UNCHANGED client
    BY <1>3, ServerRefines, ClientStutters
  <2>2. Cl!ClientInv' /\ Sv!ServerInv' /\ Sv!RP!ExclusiveInv'
    BY <1>1, <2>1, ClientKeeps, ServerKeeps
  <2>3. \E m \in Stages : Token(m)'
    BY <1>1, <1>3, <2>2, ServerToken
  <2> QED BY <2>2, <2>3 DEF SystemInv, Stages
<1>4. CASE UNCHANGED vars
  <2>1. UNCHANGED <<client, server, c2s, s2c>>
    BY <1>4 DEF vars
  <2>2. Cl!ClientInv' /\ Sv!ServerInv' /\ Sv!RP!ExclusiveInv'
    BY <1>1, <2>1, ClientKeeps, ServerKeeps
  <2>3. Token(n)'
    <3>1. UNCHANGED <<phase, pipe, userq, first, answered, conn, logicq, logins,
                      authed, user_id, c2s, s2c>>
      BY <2>1 DEF client, server, registry
    <3>2. Reply' = Reply
      BY <3>1 DEF Reply
    <3>3. Sending(n)' /\ Asking(n)' /\ Serving(n)'
      BY <3>1 DEF Token, Sending, Asking, Serving
    <3>4. Replying(n)' /\ Answering(n)'
      BY <3>1, <3>2 DEF Token, Replying, Answering
    <3>5. Following' /\ (n >= 3 /\ Sent' => Popping')
      BY <3>1 DEF Token, Following, Sent, Popping
    <3> QED BY <3>3, <3>4, <3>5 DEF Token
  <2> QED BY <2>2, <2>3 DEF SystemInv, Stages
<1> QED BY <1>2, <1>3, <1>4 DEF Next

LEMMA SpecInv == Spec => []SystemInv
  BY InitInv, NextInv, PTL DEF Spec

-----------------------------------------------------------------------------
(* The theorems *)

\* ClientSpec: for the client, the server and the network are what GameClient
\* assumes of them, so that every theorem about GameClient holds of this client.
\* The answer comes once, after the login was handed to async_write, and neither
\* LoginReqHandle nor Write on the server lets anything else through.
THEOREM ClientSpecCorrect == Spec => ClientSpec
<1>1. SystemInv /\ [Next]_vars => [Cl!Next]_(Cl!vars)
  <2> SUFFICES ASSUME SystemInv, [Next]_vars
               PROVE  Cl!Next \/ UNCHANGED Cl!vars
    OBVIOUS
  <2>1. CASE Client
    BY <2>1, ClientRefines DEF SystemInv
  <2>2. CASE Server \/ UNCHANGED vars
    <3>1. UNCHANGED client
      BY <2>2, ClientStutters DEF vars
    <3> QED BY <3>1 DEF client, Cl!vars, Cl!server
  <2> QED BY <2>1, <2>2 DEF Next
<1>2. Init => Cl!Init
  BY DEF Init
<1> QED BY <1>1, <1>2, SpecInv, PTL DEF Spec, ClientSpec, Cl!Spec

\* ServerSteps: every step of the server is one of GameServer, in which a peer
\* logs in once and with type Normal.
THEOREM ServerStepsCorrect == Spec => ServerSteps
<1>1. SystemInv /\ [Next]_vars => [Sv!Next]_server
  <2> SUFFICES ASSUME SystemInv, [Next]_vars
               PROVE  Sv!Next \/ UNCHANGED server
    OBVIOUS
  <2>1. CASE Server
    BY <2>1, ServerRefines DEF SystemInv
  <2>2. CASE Client \/ UNCHANGED vars
    BY <2>2, ServerStutters DEF vars
  <2> QED BY <2>1, <2>2 DEF Next
<1> QED BY <1>1, SpecInv, PTL DEF Spec, ServerSteps

\* AnswerTrue: what the user's thread is about to be told was decided by
\* LoginReqHandle and still holds at the server, which has handled no other login
\* of this user since.
THEOREM AnswerTrueCorrect == Spec => []AnswerTrue
<1>1. SystemInv => AnswerTrue
  <2> SUFFICES ASSUME SystemInv
               PROVE  AnswerTrue
    OBVIOUS
  <2> PICK n \in Stages : Token(n)
    BY DEF SystemInv
  <2>1. Own \in Sessions /\ authed[Own] \in BOOLEAN
    BY DEF SystemInv, Sv!ServerInv, Sv!TypeOK, Sv!R!TypeOK, Sessions
  <2>2. \A result : Told(result) =>
          result = IF authed[Own] THEN "Success" ELSE "Logined"
    BY DEF Token, Answering, Told, Reply, Sv!LoginRsp
  <2>3. Told("Logined") => ~authed[Own]
    BY <2>1, <2>2
  <2>4. Told("Success") => authed[Own] /\ user_id[Own] = Uid
    BY <2>1, <2>2 DEF Token, Serving
  <2>5. ASSUME Told("Success"), Own \notin cleaned, Uid \notin strayed
        PROVE  Uid \in users
    <3>1. Sv!RP!Holds(Own, Uid)
      BY <2>4, <2>5 DEF Sv!RP!Holds
    <3>2. Sv!RP!NormalClients
      BY DEF Sv!RP!NormalClients
    <3> QED BY <2>1, <2>5, <3>1, <3>2
            DEF SystemInv, Sv!RP!ExclusiveInv, Sv!RP!Exclusive
  <2> QED BY <2>3, <2>4, <2>5 DEF AnswerTrue
<1> QED BY <1>1, SpecInv, PTL

\* What is proved of each program alone holds of the two together: the chains of
\* both ends, the order of the client's messages, and what its callbacks find.
THEOREM EndsCorrect ==
  Spec => [](/\ Cl!Chains /\ Cl!LoginFirst /\ Cl!Found
             /\ Sv!ReadChain /\ Sv!WriteChain /\ Sv!Watched)
<1>1. Spec => [](Cl!Chains /\ Cl!LoginFirst /\ Cl!Found)
  <2>1. Cl!ClientAssumption
    BY Composed
  <2>2. Cl!Spec => []Cl!Chains
    BY <2>1, Cl!ChainsCorrect
  <2>3. Cl!Spec => []Cl!LoginFirst
    BY <2>1, Cl!LoginFirstCorrect
  <2>4. Cl!Spec => []Cl!Found
    BY <2>1, Cl!FoundCorrect
  <2> QED BY <2>2, <2>3, <2>4, ClientSpecCorrect, PTL DEF ClientSpec
<1>2. SystemInv => Sv!ReadChain /\ Sv!WriteChain /\ Sv!Watched
  BY DEF SystemInv, Sv!ServerInv, Sv!ChannelsInv, Sv!C!Sound, Sv!C!Core,
         Sv!C!Healthy, Sv!ReadChain, Sv!WriteChain, Sv!Watched
<1> QED BY <1>1, <1>2, SpecInv, PTL
=============================================================================
