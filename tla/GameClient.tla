----------------------------- MODULE GameClient -----------------------------
(***************************************************************************)
(* One user of the client of client/: the GameClient, a common::Pipe whose *)
(* handlers run on one io_service of the pool, and the User, whose         *)
(* UserProcessor runs on another one.  The user's thread closes the pipe   *)
(* of the io thread: TimerManager::Stop is called while the timer's own    *)
(* handler may be running, so both are split where they can interleave.    *)
(***************************************************************************)
EXTENDS Naturals, Sequences

CONSTANTS
  NoMsg,      \* of Channel
  Results,    \* bound: the LoginRsp.result values the server answers
  Others,     \* bound: what else it sends, \subseteq {"Unknown", "Garbage"}
  MaxFrames,  \* bound: message headers it sends
  MaxStuck    \* bound: pings appended to a queue that is never sent

ASSUME ClientAssumption ==
  /\ Results \subseteq {"Success", "Error", "Queue", "Logined"}
  /\ Others \subseteq {"Unknown", "Garbage"}
  /\ NoMsg \notin {"LoginReq", "Ping"}
  /\ MaxFrames \in Nat /\ MaxStuck \in Nat

VARIABLES
  phase,       \* of async_connect
  pipe,        \* the Pipe: socket, write queue, timer and pending handlers
  gameclient,  \* User::gameclient_ has been set
  recent,      \* last_write_time_ was set since the timer was last armed
  pinging,     \* the io thread is in the timer's handler, before SendPingMsg
  stopping,    \* the user thread is in Close, between OnClose and post
  userq,       \* the answers posted to the io_service of the User
  closes,      \* history: how often Close was called
  first,       \* history: the first message written
  frames, answered  \* environment: headers sent, the login was answered

server == <<frames, answered>>
vars == <<phase, pipe, gameclient, recent, pinging, stopping, userq, closes,
          first, server>>

Answers == [name : {"LoginRsp"}, result : {"Success", "Error", "Queue", "Logined"}]
             \cup [name : {"Unknown", "Garbage"}]

\* Channel, with the lemmas about its operators.
C == INSTANCE ChannelProofs
       WITH In <- Answers, Out <- [name : {"LoginReq", "Ping"}]

Init ==
  /\ phase = "connecting" /\ pipe = C!Connected /\ gameclient = FALSE
  /\ recent = FALSE /\ pinging = FALSE /\ stopping = FALSE /\ userq = <<>>
  /\ closes = 0 /\ first = NoMsg
  /\ frames = 0 /\ answered = FALSE

Write(c, name) == C!Post(c, C!Handler("write", "ok", [name |-> name]))

\* The callback of GameClient::Connect.
RunTimer(c) == C!TimerLoop(c)

\* The callback of User::Init.
SendLogin(c) == Write(c, "LoginReq")

-----------------------------------------------------------------------------
(* The handler of async_connect *)

\* Mutant of Connected: gameclient_ is not set by the callback.
ConnectedUnset ==
  /\ phase = "connecting" /\ phase' = "connected"
  /\ pipe' = C!AsyncRead(SendLogin(RunTimer(pipe)), "header")
  /\ recent' = TRUE
  /\ UNCHANGED <<gameclient, pinging, stopping, userq, closes, first, server>>

\* Mutant of Connected: a ping goes out as soon as the timer runs.
ConnectedPinging ==
  /\ phase = "connecting" /\ phase' = "connected"
  /\ pipe' = C!AsyncRead(SendLogin(Write(RunTimer(pipe), "Ping")), "header")
  /\ gameclient' = TRUE /\ recent' = TRUE
  /\ UNCHANGED <<pinging, stopping, userq, closes, first, server>>

\* The callbacks run the timer, keep the GameClient in the User and send
\* LoginReq, then Pipe::DoConnect starts the first read.
Connected ==
  /\ phase = "connecting" /\ phase' = "connected"
  /\ pipe' = C!AsyncRead(SendLogin(RunTimer(pipe)), "header")
  /\ gameclient' = TRUE /\ recent' = TRUE
  /\ UNCHANGED <<pinging, stopping, userq, closes, first, server>>

\* Nobody connects again.
ConnectFails ==
  /\ phase = "connecting" /\ phase' = "failed"
  /\ UNCHANGED <<pipe, gameclient, recent, pinging, stopping, userq, closes,
                 first, server>>

-----------------------------------------------------------------------------
(* The kernel and the server complete the operations in progress *)

\* LoginReq has been handed to async_write, so that the server may answer it.
LoginSent ==
  /\ first # NoMsg
  /\ pipe.write_bufs # <<>> /\ pipe.writing = 0
       => Head(pipe.write_bufs).name # "LoginReq"

HeaderArrives ==
  /\ pipe.reading = "header" /\ frames < MaxFrames
  /\ frames' = frames + 1
  /\ \E ec \in {"ok", "invalid"} : pipe' = C!ReadCompletes(pipe, ec, NoMsg)
  /\ UNCHANGED <<phase, gameclient, recent, pinging, stopping, userq, closes,
                 first, answered>>

AnswerArrives ==
  /\ pipe.reading = "body" /\ LoginSent /\ ~answered
  /\ answered' = TRUE
  /\ \E result \in Results :
       pipe' = C!ReadCompletes(pipe, "ok",
                               [name |-> "LoginRsp", result |-> result])
  /\ UNCHANGED <<phase, gameclient, recent, pinging, stopping, userq, closes,
                 first, frames>>

OtherArrives ==
  /\ pipe.reading = "body"
  /\ \E m \in [name : Others] : pipe' = C!ReadCompletes(pipe, "ok", m)
  /\ UNCHANGED <<phase, gameclient, recent, pinging, stopping, userq, closes,
                 first, server>>

\* The server closed the connection, or it broke.
ReadFails ==
  /\ pipe.reading # "none"
  /\ pipe' = C!ReadCompletes(pipe, "error", NoMsg)
  /\ UNCHANGED <<phase, gameclient, recent, pinging, stopping, userq, closes,
                 first, server>>

WriteEnds ==
  /\ pipe.writing > 0
  /\ \E ec \in {"ok", "error"} : pipe' = C!WriteCompletes(pipe, ec)
  /\ UNCHANGED <<phase, gameclient, recent, pinging, stopping, userq, closes,
                 first, server>>

TimerExpires ==
  /\ pipe.armed /\ Len(pipe.write_bufs) <= MaxStuck
  /\ pipe' = C!TimerExpires(pipe)
  /\ UNCHANGED <<phase, gameclient, recent, pinging, stopping, userq, closes,
                 first, server>>

Network ==
  \/ HeaderArrives \/ AnswerArrives \/ OtherArrives \/ ReadFails \/ WriteEnds

-----------------------------------------------------------------------------
(* The handlers of the pipe's io_service.  SendPingMsg belongs to the one   *)
(* of the timer, which the thread finishes before it runs another.          *)

Runs(h, ec) == ~pinging /\ C!Ready(pipe, h, ec)

OnReadHeader ==
  /\ Runs("header", "ok")
  /\ pipe' = C!AsyncRead(C!Pop(pipe), "body")
  /\ UNCHANGED <<phase, gameclient, recent, pinging, stopping, userq, closes,
                 first, server>>

\* Mutant of OnLoginRsp: the next header is not read.
OnLoginRspOnce ==
  LET m == Head(pipe.ioq).m IN
  /\ Runs("body", "ok") /\ m.name = "LoginRsp"
  /\ userq' = Append(userq, m.result)
  /\ pipe' = C!Pop(pipe)
  /\ UNCHANGED <<phase, gameclient, recent, pinging, stopping, closes, first,
                 server>>

\* Mutant of OnLoginRsp: another field of the message is taken for the result.
OnLoginRspName ==
  LET m == Head(pipe.ioq).m IN
  /\ Runs("body", "ok") /\ m.name = "LoginRsp"
  /\ userq' = Append(userq, m.name)
  /\ pipe' = C!AsyncRead(C!Pop(pipe), "header")
  /\ UNCHANGED <<phase, gameclient, recent, pinging, stopping, closes, first,
                 server>>

\* Dispatch posts the message to the io_service of the User.
OnLoginRsp ==
  LET m == Head(pipe.ioq).m IN
  /\ Runs("body", "ok") /\ m.name = "LoginRsp"
  /\ userq' = Append(userq, m.result)
  /\ pipe' = C!AsyncRead(C!Pop(pipe), "header")
  /\ UNCHANGED <<phase, gameclient, recent, pinging, stopping, closes, first,
                 server>>

\* Unlike the server, the client reads on after a message without a handler.
OnUnknown ==
  /\ Runs("body", "ok") /\ Head(pipe.ioq).m.name = "Unknown"
  /\ pipe' = C!AsyncRead(C!Pop(pipe), "header")
  /\ UNCHANGED <<phase, gameclient, recent, pinging, stopping, userq, closes,
                 first, server>>

\* ReadHeaderError, ReadBodyError, RecvError and SendError close.
OnError ==
  /\ \/ Runs("header", "invalid")
     \/ Runs("body", "ok") /\ Head(pipe.ioq).m.name = "Garbage"
     \/ \E h \in {"header", "body", "written"} : Runs(h, "error")
  /\ pipe' = C!Close(C!Pop(pipe))
  /\ closes' = closes + 1
  /\ UNCHANGED <<phase, gameclient, recent, pinging, stopping, userq, first,
                 server>>

OnAborted ==
  /\ \E h \in {"header", "body", "written", "timer"} : Runs(h, "aborted")
  /\ pipe' = C!Pop(pipe)
  /\ UNCHANGED <<phase, gameclient, recent, pinging, stopping, userq, closes,
                 first, server>>

OnWritten ==
  /\ Runs("written", "ok")
  /\ pipe' = C!PopWrite(C!Pop(pipe))
  /\ UNCHANGED <<phase, gameclient, recent, pinging, stopping, userq, closes,
                 first, server>>

\* The closure of Write.
RunWrite ==
  LET m == Head(pipe.ioq).m IN
  /\ Runs("write", "ok")
  /\ pipe' = C!PushWrite(C!Pop(pipe), m)
  /\ first' = IF first = NoMsg THEN m.name ELSE first
  /\ UNCHANGED <<phase, gameclient, recent, pinging, stopping, userq, closes,
                 server>>

\* The closure of Close.
RunClose ==
  /\ Runs("close", "ok")
  /\ pipe' = C!CloseSocket(C!Pop(pipe))
  /\ UNCHANGED <<phase, gameclient, recent, pinging, stopping, userq, closes,
                 first, server>>

\* The timer's handler arms it again ...
OnTimer ==
  /\ Runs("timer", "ok")
  /\ pipe' = C!TimerLoop(C!Pop(pipe))
  /\ pinging' = TRUE
  /\ UNCHANGED <<phase, gameclient, recent, stopping, userq, closes, first,
                 server>>

\* ... and calls SendPingMsg.  The last write was before the timer was armed,
\* 2 seconds ago or more, or shortly after it and may count as less.
SendPing ==
  /\ pinging
  /\ pinging' = FALSE /\ recent' = TRUE
  /\ pipe' = Write(pipe, "Ping")
  /\ UNCHANGED <<phase, gameclient, stopping, userq, closes, first, server>>

SkipPing ==
  /\ pinging /\ recent
  /\ pinging' = FALSE /\ recent' = FALSE
  /\ UNCHANGED <<phase, pipe, gameclient, stopping, userq, closes, first,
                 server>>

IoThread ==
  \/ OnReadHeader \/ OnLoginRsp \/ OnUnknown \/ OnError \/ OnAborted
  \/ OnWritten \/ RunWrite \/ RunClose \/ OnTimer \/ SendPing \/ SkipPing

-----------------------------------------------------------------------------
(* The thread of the User *)

LoginSucceeds ==
  /\ ~stopping /\ userq # <<>> /\ Head(userq) = "Success"
  /\ userq' = Tail(userq)
  /\ UNCHANGED <<phase, pipe, gameclient, recent, pinging, stopping, closes,
                 first, server>>

\* Mutant of LoginRefused: kLoginResLogined is only logged.
LoginRefusedLogs ==
  /\ ~stopping /\ userq # <<>> /\ Head(userq) # "Success"
  /\ userq' = Tail(userq)
  /\ stopping' = (Head(userq) # "Logined")
  /\ pipe' = IF stopping' THEN C!Stop(pipe) ELSE pipe
  /\ UNCHANGED <<phase, gameclient, recent, pinging, closes, first, server>>

\* CloseGameClient: OnClose stops the timer ...
LoginRefused ==
  /\ ~stopping /\ userq # <<>> /\ Head(userq) # "Success"
  /\ userq' = Tail(userq)
  /\ pipe' = C!Stop(pipe)
  /\ stopping' = TRUE
  /\ UNCHANGED <<phase, gameclient, recent, pinging, closes, first, server>>

\* ... and Close posts the closing of the socket to the pipe's io_service.
PostClose ==
  /\ stopping
  /\ stopping' = FALSE /\ closes' = closes + 1
  /\ pipe' = C!Post(pipe, C!Handler("close", "ok", NoMsg))
  /\ UNCHANGED <<phase, gameclient, recent, pinging, userq, first, server>>

UserThread == LoginSucceeds \/ LoginRefused \/ PostClose

-----------------------------------------------------------------------------
Next ==
  \/ Connected \/ ConnectFails \/ Network \/ TimerExpires \/ IoThread
  \/ UserThread

Spec == Init /\ [][Next]_vars

\* The threads run and the timer expires; the server owes nothing.
Fairness == WF_vars(IoThread) /\ WF_vars(UserThread) /\ WF_vars(TimerExpires)

FairSpec == Spec /\ Fairness

-----------------------------------------------------------------------------
(* Properties *)

\* Every variable has the type its C++ declaration gives it.
TypeOK ==
  /\ phase \in {"connecting", "connected", "failed"}
  /\ pipe \in C!Channels
  /\ {gameclient, recent, pinging, stopping, answered} \subseteq BOOLEAN
  /\ userq \in Seq(Results)
  /\ closes \in Nat /\ frames \in 0 .. MaxFrames
  /\ first \in {NoMsg, "LoginReq", "Ping"}

\* Nobody has called Close, or is about to.
Untouched == phase = "connected" /\ closes = 0 /\ ~stopping

\* The reads of the pipe are one chain, alive until Close, and its writes never
\* overlap, though another thread stops and closes it.
Chains ==
  /\ C!OneRead(pipe) /\ C!OneWrite(pipe)
  /\ C!WriteUnderway(pipe) => pipe.write_bufs # <<>>
  /\ Untouched => C!ReadUnderway(pipe)
  /\ Untouched /\ pipe.write_bufs # <<>> => C!WriteUnderway(pipe)
  /\ Untouched => C!TimerUnderway(pipe)

\* The timer runs before the login is sent, and yet no ping overtakes it.
LoginFirst == first \in {NoMsg, "LoginReq"}

\* CloseGameClient does not return when gameclient_ is null; it never is.
Found == userq # <<>> => gameclient

\* A client whose login is refused disconnects, however its two threads
\* interleave.
HangsUp == (\E i \in DOMAIN userq : userq[i] # "Success") ~> ~pipe.open

\* The queue of a closed pipe whose last write was aborted: the buffer stays at
\* the front and DoWrite is never called again.
Stuck ==
  /\ ~pipe.open /\ pipe.write_bufs # <<>> /\ ~C!WriteUnderway(pipe)

\* A closed pipe does not go on pinging, even when the user thread stopped the
\* timer too early and its handler armed it again: the ping then fails and stops
\* it.  Only a pipe whose queue is stuck pings for ever, into the queue.
FallsSilent ==
  <>[](~pipe.open => Stuck \/ ~C!TimerUnderway(pipe))
=============================================================================
