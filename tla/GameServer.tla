----------------------------- MODULE GameServer -----------------------------
(***************************************************************************)
(* The server of server/: the master thread accepts connections, the       *)
(* threads of the IoServicePool run the handlers of each UserSession, and  *)
(* the logic thread runs, in the order they were posted, the closures that *)
(* touch UserSessionManager and UserManager.  The threads share nothing    *)
(* but the queues: every step below is one handler of one thread.          *)
(*                                                                         *)
(* A session's handlers run on one io_service in order; those of different *)
(* sessions are left unordered here, whether or not they share a thread.   *)
(***************************************************************************)
EXTENDS Naturals, Sequences, FiniteSets

CONSTANTS
  Sessions, Uids, NoUid, NoSession, LoginTypes, IdMod,  \* of UserRegistry
  NoMsg,       \* of Channel
  Others,      \* bound: what peers send besides login requests
  Lossy,       \* bound: the sessions whose reads and writes may fail
  Silent,      \* bound: the sessions that live until their timer expires
  MaxFrames,   \* bound: message headers one peer sends
  MaxLogins    \* bound: login requests one peer sends

ASSUME ServerAssumption ==
  /\ IdMod \in Nat /\ IdMod > 1
  /\ NoSession \notin Sessions
  /\ LoginTypes \subseteq {"Normal", "Queued"}
  /\ Others \subseteq {"Ping", "Unknown", "Garbage"}
  /\ Lossy \subseteq Sessions /\ Silent \subseteq Sessions
  /\ MaxFrames \in Nat /\ MaxLogins \in Nat

VARIABLES
  last_id, session_id, user_sessions, users, user_id, authed, cleaned,
  strayed,  \* of UserRegistry
  accepted,   \* the sessions the master thread has created
  conn,       \* socket, write queue, timer and pending handlers of a session
  alive,      \* last_alive_time_ was set since the timer was last armed
  logicq,     \* the closures posted to LogicIo
  closes,     \* history: how often Close was called on a session
  frames,     \* environment: headers a peer has sent
  logins      \* environment: login requests a peer has sent

registry == <<last_id, session_id, user_sessions, users, user_id, authed,
              cleaned, strayed>>
environment == <<frames, logins>>
vars == <<registry, accepted, conn, alive, logicq, closes, environment>>

-----------------------------------------------------------------------------
(* Messages, and the closures the logic thread runs *)

\* A LoginReq that protobuf cannot parse is handled with the fields it got: type
\* Normal and the empty uid unless they were read.
LoginReqs == [name : {"LoginReq"}, type : LoginTypes, uid : Uids]

\* Dispatch finds no handler for the name Unknown, and Decode rejects Garbage.
Requests == LoginReqs \cup [name : {"Ping", "Unknown", "Garbage"}]
HandlerNames == {"LoginReq", "Ping"}

LoginRsp(result) == [name |-> "LoginRsp", result |-> result]
Replies == {LoginRsp("Success"), LoginRsp("Logined")}

Tasks ==
  [run : {"AddSession", "CleanUp"}, s : Sessions, m : {NoMsg}]
    \cup [run : {"LoginReq"}, s : Sessions, m : LoginReqs]
    \cup [run : {"Ping"}, s : Sessions, m : [name : {"Ping"}]]

Task(run, s, m) == [run |-> run, s |-> s, m |-> m]

R == INSTANCE UserRegistry

\* Channel, with the lemmas about its operators.
C == INSTANCE ChannelProofs WITH In <- Requests, Out <- Replies

Init ==
  /\ R!Init
  /\ accepted = {}
  /\ conn = [s \in Sessions |-> C!Connected]
  /\ alive = [s \in Sessions |-> FALSE]
  /\ logicq = <<>>
  /\ closes = [s \in Sessions |-> 0]
  /\ frames = [s \in Sessions |-> 0]
  /\ logins = [s \in Sessions |-> 0]

PostLogic(task) == logicq' = Append(logicq, task)

-----------------------------------------------------------------------------
(* The master thread *)

\* Mutant of Accept: OnAccept does not post AddSession.
AcceptUnregistered(s) ==
  /\ s \notin accepted
  /\ accepted' = accepted \cup {s}
  /\ conn' = [conn EXCEPT ![s] = C!AsyncRead(C!TimerLoop(@), "header")]
  /\ UNCHANGED <<registry, alive, logicq, closes, environment>>

\* The handler of Server::DoAccept: Init runs the timer, OnAccept posts
\* AddSession, DoReadHeader starts the first read.
Accept(s) ==
  /\ s \notin accepted
  /\ accepted' = accepted \cup {s}
  /\ conn' = [conn EXCEPT ![s] = C!AsyncRead(C!TimerLoop(@), "header")]
  /\ PostLogic(Task("AddSession", s, NoMsg))
  /\ UNCHANGED <<registry, alive, closes, environment>>

-----------------------------------------------------------------------------
(* The kernel and the peer complete the operations in progress *)

HeaderArrives(s) ==
  /\ conn[s].reading = "header" /\ frames[s] < MaxFrames
  /\ frames' = [frames EXCEPT ![s] = @ + 1]
  /\ \E ec \in {"ok"} \cup (IF s \in Lossy THEN {"invalid"} ELSE {}) :
       conn' = [conn EXCEPT ![s] = C!ReadCompletes(@, ec, NoMsg)]
  /\ UNCHANGED <<registry, accepted, alive, logicq, closes, logins>>

BodyArrives(s) ==
  /\ conn[s].reading = "body"
  /\ \E m \in [name : Others] :
       conn' = [conn EXCEPT ![s] = C!ReadCompletes(@, "ok", m)]
  /\ UNCHANGED <<registry, accepted, alive, logicq, closes, environment>>

LoginArrives(s) ==
  /\ conn[s].reading = "body" /\ logins[s] < MaxLogins
  /\ logins' = [logins EXCEPT ![s] = @ + 1]
  /\ \E m \in LoginReqs :
       conn' = [conn EXCEPT ![s] = C!ReadCompletes(@, "ok", m)]
  /\ UNCHANGED <<registry, accepted, alive, logicq, closes, frames>>

ReadFails(s) ==
  /\ conn[s].reading # "none" /\ s \in Lossy
  /\ conn' = [conn EXCEPT ![s] = C!ReadCompletes(@, "error", NoMsg)]
  /\ UNCHANGED <<registry, accepted, alive, logicq, closes, environment>>

WriteEnds(s) ==
  /\ conn[s].writing > 0
  /\ \E ec \in {"ok"} \cup (IF s \in Lossy THEN {"error"} ELSE {}) :
       conn' = [conn EXCEPT ![s] = C!WriteCompletes(@, ec)]
  /\ UNCHANGED <<registry, accepted, alive, logicq, closes, environment>>

TimerExpires(s) ==
  /\ conn[s].armed /\ s \in Silent
  /\ conn' = [conn EXCEPT ![s] = C!TimerExpires(@)]
  /\ UNCHANGED <<registry, accepted, alive, logicq, closes, environment>>

-----------------------------------------------------------------------------
(* The handlers of a session's io_service *)

\* Session::Close, called from a handler that leaves the channel as c:
\* UserSession::OnClose stops the timer and posts the clean-up.
CloseSession(s, c) ==
  /\ conn' = [conn EXCEPT ![s] = C!Close(c)]
  /\ PostLogic(Task("CleanUp", s, NoMsg))
  /\ closes' = [closes EXCEPT ![s] = @ + 1]

OnReadHeader(s) ==
  /\ C!Ready(conn[s], "header", "ok")
  /\ conn' = [conn EXCEPT ![s] = C!AsyncRead(C!Pop(@), "body")]
  /\ UNCHANGED <<registry, accepted, alive, logicq, closes, environment>>

\* Mutant of OnReadBody: DoReadHeader is not called again.
OnReadBodyOnce(s) ==
  LET m == Head(conn[s].ioq).m IN
  /\ C!Ready(conn[s], "body", "ok") /\ m.name \in HandlerNames
  /\ alive' = [alive EXCEPT ![s] = TRUE]
  /\ PostLogic(Task(m.name, s, m))
  /\ conn' = [conn EXCEPT ![s] = C!Pop(@)]
  /\ UNCHANGED <<registry, accepted, closes, environment>>

\* UserSession::OnReadBody: a registered message is posted to the logic
\* thread, and the next header is read.
OnReadBody(s) ==
  LET m == Head(conn[s].ioq).m IN
  /\ C!Ready(conn[s], "body", "ok") /\ m.name \in HandlerNames
  /\ alive' = [alive EXCEPT ![s] = TRUE]
  /\ PostLogic(Task(m.name, s, m))
  /\ conn' = [conn EXCEPT ![s] = C!AsyncRead(C!Pop(@), "header")]
  /\ UNCHANGED <<registry, accepted, closes, environment>>

\* Decode failed, or (once the session counts as alive) Dispatch did.
ReadBodyError(s) ==
  LET m == Head(conn[s].ioq).m IN
  /\ C!Ready(conn[s], "body", "ok") /\ m.name \notin HandlerNames
  /\ alive' = [alive EXCEPT ![s] = @ \/ m.name = "Unknown"]
  /\ CloseSession(s, C!Pop(conn[s]))
  /\ UNCHANGED <<registry, accepted, environment>>

\* ReadHeaderError, RecvError and SendError all close.
OnError(s) ==
  /\ \/ C!Ready(conn[s], "header", "invalid")
     \/ \E h \in {"header", "body", "written"} : C!Ready(conn[s], h, "error")
  /\ CloseSession(s, C!Pop(conn[s]))
  /\ UNCHANGED <<registry, accepted, alive, environment>>

\* operation_aborted is ignored by every handler.
OnAborted(s) ==
  /\ \E h \in {"header", "body", "written", "timer"} :
       C!Ready(conn[s], h, "aborted")
  /\ conn' = [conn EXCEPT ![s] = C!Pop(@)]
  /\ UNCHANGED <<registry, accepted, alive, logicq, closes, environment>>

OnWritten(s) ==
  /\ C!Ready(conn[s], "written", "ok")
  /\ conn' = [conn EXCEPT ![s] = C!PopWrite(C!Pop(@))]
  /\ UNCHANGED <<registry, accepted, alive, logicq, closes, environment>>

\* Mutant of CheckAliveFails: the timer is armed again after func(), that is,
\* after Close has stopped it.
CheckAliveFailsFirst(s) ==
  /\ C!Ready(conn[s], "timer", "ok")
  /\ alive' = [alive EXCEPT ![s] = FALSE]
  /\ conn' = [conn EXCEPT ![s] = C!TimerLoop(C!Close(C!Pop(@)))]
  /\ PostLogic(Task("CleanUp", s, NoMsg))
  /\ closes' = [closes EXCEPT ![s] = @ + 1]
  /\ UNCHANGED <<registry, accepted, environment>>

\* Mutant of CheckAlivePasses: the timer is not armed again.
CheckAlivePassesOnce(s) ==
  /\ C!Ready(conn[s], "timer", "ok") /\ alive[s]
  /\ alive' = [alive EXCEPT ![s] = FALSE]
  /\ conn' = [conn EXCEPT ![s] = C!Pop(@)]
  /\ UNCHANGED <<registry, accepted, logicq, closes, environment>>

\* The handler of TimerLoop arms the timer again, then calls CheckAlive.  When
\* nothing was heard since the last arming 5 seconds ago the session is stale;
\* a message shortly after it may or may not be too old, in whole seconds.
CheckAliveFails(s) ==
  /\ C!Ready(conn[s], "timer", "ok")
  /\ alive' = [alive EXCEPT ![s] = FALSE]
  /\ CloseSession(s, C!TimerLoop(C!Pop(conn[s])))
  /\ UNCHANGED <<registry, accepted, environment>>

CheckAlivePasses(s) ==
  /\ C!Ready(conn[s], "timer", "ok") /\ alive[s]
  /\ alive' = [alive EXCEPT ![s] = FALSE]
  /\ conn' = [conn EXCEPT ![s] = C!TimerLoop(C!Pop(@))]
  /\ UNCHANGED <<registry, accepted, logicq, closes, environment>>

\* The closure of Write.
RunWrite(s) ==
  /\ C!Ready(conn[s], "write", "ok")
  /\ conn' = [conn EXCEPT ![s] = C!PushWrite(C!Pop(@), Head(@.ioq).m)]
  /\ UNCHANGED <<registry, accepted, alive, logicq, closes, environment>>

\* Mutant of RunClose: the socket is not closed.
RunCloseLogs(s) ==
  /\ C!Ready(conn[s], "close", "ok")
  /\ conn' = [conn EXCEPT ![s] = C!Pop(@)]
  /\ UNCHANGED <<registry, accepted, alive, logicq, closes, environment>>

\* The closure of Close; OnClosed only logs.
RunClose(s) ==
  /\ C!Ready(conn[s], "close", "ok")
  /\ conn' = [conn EXCEPT ![s] = C!CloseSocket(C!Pop(@))]
  /\ UNCHANGED <<registry, accepted, alive, logicq, closes, environment>>

IoThread(s) ==
  \/ OnReadHeader(s) \/ OnReadBody(s) \/ ReadBodyError(s) \/ OnError(s)
  \/ OnAborted(s) \/ OnWritten(s) \/ CheckAliveFails(s) \/ CheckAlivePasses(s)
  \/ RunWrite(s) \/ RunClose(s)

-----------------------------------------------------------------------------
(* The logic thread *)

\* The next closure is run of session s.
NextTask(run, s) ==
  /\ logicq # <<>> /\ Head(logicq).run = run /\ Head(logicq).s = s
  /\ logicq' = Tail(logicq)

AddSession(s) ==
  /\ NextTask("AddSession", s)
  /\ R!AddSession(s)
  /\ UNCHANGED <<accepted, conn, alive, closes, environment>>

\* Mutant of SendMsg: it writes the request back.
SendMsgEcho(s, reply) ==
  conn' = [conn EXCEPT ![s] = C!Post(@, C!Handler("write", "ok",
                                                  Head(logicq).m))]

\* SendMsg, from the logic thread, posts the write to the session's io_service.
SendMsg(s, reply) ==
  conn' = [conn EXCEPT ![s] = C!Post(@, C!Handler("write", "ok", reply))]

RefuseLogin(s) ==
  /\ NextTask("LoginReq", s)
  /\ R!Refuse(s, Head(logicq).m.type, Head(logicq).m.uid)
  /\ SendMsg(s, LoginRsp("Logined"))
  /\ UNCHANGED <<accepted, alive, closes, environment>>

GrantLogin(s) ==
  /\ NextTask("LoginReq", s)
  /\ R!Grant(s, Head(logicq).m.type, Head(logicq).m.uid)
  /\ SendMsg(s, LoginRsp("Success"))
  /\ UNCHANGED <<accepted, alive, closes, environment>>

\* PingReqHandle only logs.
HandlePing(s) ==
  /\ NextTask("Ping", s)
  /\ UNCHANGED <<registry, accepted, conn, alive, closes, environment>>

CleanUp(s) ==
  /\ NextTask("CleanUp", s)
  /\ R!CleanUp(s)
  /\ UNCHANGED <<accepted, conn, alive, closes, environment>>

LogicThread ==
  \E s \in Sessions :
    AddSession(s) \/ RefuseLogin(s) \/ GrantLogin(s) \/ HandlePing(s)
    \/ CleanUp(s)

-----------------------------------------------------------------------------
Network(s) ==
  \/ HeaderArrives(s) \/ BodyArrives(s) \/ LoginArrives(s) \/ ReadFails(s)
  \/ WriteEnds(s)

Next ==
  \/ \E s \in Sessions :
       Accept(s) \/ Network(s) \/ TimerExpires(s) \/ IoThread(s)
  \/ LogicThread

Spec == Init /\ [][Next]_vars

\* Threads keep running handlers and timers expire; a peer need not do anything.
Fairness ==
  /\ \A s \in Sessions : WF_vars(IoThread(s)) /\ WF_vars(TimerExpires(s))
  /\ WF_vars(LogicThread)

FairSpec == Spec /\ Fairness

-----------------------------------------------------------------------------
(* Properties *)

\* Every variable has the type its C++ declaration gives it.
TypeOK ==
  /\ R!TypeOK
  /\ accepted \subseteq Sessions
  /\ conn \in [Sessions -> C!Channels]
  /\ alive \in [Sessions -> BOOLEAN]
  /\ logicq \in Seq(Tasks)
  /\ closes \in [Sessions -> Nat]
  /\ frames \in [Sessions -> 0 .. MaxFrames]
  /\ logins \in [Sessions -> 0 .. MaxLogins]

\* read_buf_ has one user: the reads of a session are a single chain, which an
\* accepted session does not drop before it calls Close, however its handlers
\* and its peer interleave.
ReadChain ==
  \A s \in accepted :
    /\ C!OneRead(conn[s])
    /\ closes[s] = 0 => C!ReadUnderway(conn[s])

\* Two async_writes never overlap on a socket, though replies come from another
\* thread, and pop_front never finds write_bufs_ empty.  A buffer to send is
\* never forgotten: as long as Close was not called, a write is under way when
\* write_bufs_ is not empty.
WriteChain ==
  \A s \in accepted :
    /\ C!OneWrite(conn[s])
    /\ C!WriteUnderway(conn[s]) => conn[s].write_bufs # <<>>
    /\ closes[s] = 0 /\ conn[s].write_bufs # <<>> => C!WriteUnderway(conn[s])

\* A session that never called Close is still watched by its timer.
Watched == \A s \in accepted : closes[s] = 0 => C!TimerUnderway(conn[s])

\* Close is not idempotent and has three callers, the read, the write and the
\* timer chain; each of them ends with the call, so a session is cleaned up
\* three times at most.
CloseBounded == \A s \in Sessions : closes[s] <= 3

\* What the logic thread promises (see UserRegistry) holds with the threads and
\* the queues in between: no login and no clean-up runs before AddSession.
RegistrySpec == R!Spec

\* UserRegistry's exclusion of double logins, and the reachability of every
\* live session, in the running server.
Exclusive == R!Exclusive
Registered == R!Registered

\* Every connection ends up closed and out of UserSessionManager, whatever its
\* peer does, once the peer has no more messages to send.
Released ==
  \A s \in Sessions :
    s \in accepted ~> [](~conn[s].open /\ \A i \in R!Ids : user_sessions[i] # s)

\* When peers log in once per connection, like client/user.cpp, no uid stays
\* logged in after the connections are gone, even when the login was handled
\* after the clean-up: its reply then fails, and the failure causes another
\* clean-up.
LoggedOut ==
  [](\A s \in Sessions : logins[s] <= 1) => <>[](users = {})

\* A login for a uid that has logged in, on a session that is connected and has
\* not called Close, is answered with kLoginResLogined ("User has logined").
OneSessionPerUid ==
  \A s, t \in Sessions :
    /\ s # t /\ closes[s] = 0 /\ closes[t] = 0
    /\ authed[s] /\ authed[t]
    => user_id[s] # user_id[t]
=============================================================================
