--------------------------- MODULE GameClientProofs ---------------------------
(***************************************************************************)
(* Theorems about GameClient, for every answer of the server and every     *)
(* interleaving of the io thread with the user's thread: its types, the    *)
(* three chains of the pipe, and that the login is what is written first.  *)
(***************************************************************************)
EXTENDS GameClient, TLAPS

USE ClientAssumption

-----------------------------------------------------------------------------
(* The invariant *)

\* The LoginRsp messages that were received carry a result of the server.
ResultsOK(q) ==
  \A i \in DOMAIN q :
    C!IsMessage(q[i]) /\ q[i].m.name = "LoginRsp" => q[i].m.result \in Results

\* The next closure of Write in q writes the login.
LoginNext(q) ==
  \E i \in DOMAIN q :
    /\ q[i].h = "write" /\ q[i].m.name = "LoginReq"
    /\ \A j \in 1 .. i - 1 : q[j].h # "write"

\* The handlers that are ready, when f is the first message written.
QueueInv(q, f) == ResultsOK(q) /\ (f = NoMsg => LoginNext(q))

\* 0 until Close is called, or begins (the n of C!Sound).
Ended == IF closes = 0 /\ ~stopping THEN 0 ELSE 1

ClientInv ==
  /\ TypeOK
  /\ gameclient = (phase = "connected")
  /\ phase = "connected" => C!Sound(pipe, Ended) /\ QueueInv(pipe.ioq, first)
  /\ phase # "connected" =>
       /\ pipe = C!Connected /\ ~pinging /\ ~stopping
       /\ userq = <<>> /\ first = NoMsg

-----------------------------------------------------------------------------
(* The queue of handlers *)

LEMMA QueueAppended ==
  ASSUME NEW c \in C!Channels, NEW d \in C!Channels, C!Appended(d, c), NEW f,
         QueueInv(c.ioq, f)
  PROVE  QueueInv(d.ioq, f)
<1>1. c.ioq \in Seq(C!Handlers)
  BY DEF C!Channels
<1>2. \A i \in DOMAIN c.ioq : i \in Nat /\ 1 .. i - 1 \subseteq DOMAIN c.ioq
  BY <1>1
<1>3. /\ \A i \in DOMAIN c.ioq : i \in DOMAIN d.ioq /\ d.ioq[i] = c.ioq[i]
      /\ \A i \in DOMAIN d.ioq \ DOMAIN c.ioq : ~C!IsMessage(d.ioq[i])
  BY DEF C!Appended
<1>4. ResultsOK(d.ioq)
  BY <1>3 DEF QueueInv, ResultsOK
<1>5. ASSUME LoginNext(c.ioq)
      PROVE  LoginNext(d.ioq)
  <2>1. PICK i \in DOMAIN c.ioq :
          /\ c.ioq[i].h = "write" /\ c.ioq[i].m.name = "LoginReq"
          /\ \A j \in 1 .. i - 1 : c.ioq[j].h # "write"
    BY <1>5 DEF LoginNext
  <2>2. \A j \in 1 .. i - 1 : d.ioq[j].h # "write"
    BY <1>2, <1>3, <2>1
  <2> QED BY <1>3, <2>1, <2>2 DEF LoginNext
<1> QED BY <1>4, <1>5 DEF QueueInv

LEMMA PopFacts ==
  ASSUME NEW c \in C!Channels, c.ioq # <<>>
  PROVE  LET q == C!Pop(c).ioq IN
         /\ \A i \in DOMAIN q : i \in Nat /\ i + 1 \in DOMAIN c.ioq
                                /\ q[i] = c.ioq[i + 1]
         /\ \A i \in DOMAIN c.ioq :
              i \in Nat /\ i > 0
              /\ (i = 1 \/ i - 1 \in DOMAIN q)
         /\ Head(c.ioq) = c.ioq[1]
<1>1. c.ioq \in Seq(C!Handlers)
  BY DEF C!Channels
<1>2. C!Pop(c).ioq = Tail(c.ioq)
  BY DEF C!Pop, C!Channels
<1> QED BY <1>1, <1>2

LEMMA PopResults ==
  ASSUME NEW c \in C!Channels, c.ioq # <<>>, ResultsOK(c.ioq)
  PROVE  ResultsOK(C!Pop(c).ioq)
  BY PopFacts DEF ResultsOK

LEMMA QueuePop ==
  ASSUME NEW c \in C!Channels, c.ioq # <<>>, NEW f, QueueInv(c.ioq, f),
         Head(c.ioq).h # "write"
  PROVE  QueueInv(C!Pop(c).ioq, f)
<1> DEFINE q == C!Pop(c).ioq
<1>1. /\ \A i \in DOMAIN q : i \in Nat /\ q[i] = c.ioq[i + 1]
      /\ \A i \in DOMAIN c.ioq :
           i \in Nat /\ i > 0 /\ (i = 1 \/ i - 1 \in DOMAIN q)
      /\ Head(c.ioq) = c.ioq[1]
  BY PopFacts
<1>2. ResultsOK(q)
  BY PopResults DEF QueueInv
<1> HIDE DEF q
<1>3. ASSUME LoginNext(c.ioq)
      PROVE  LoginNext(q)
  <2>1. PICK i \in DOMAIN c.ioq :
          /\ c.ioq[i].h = "write" /\ c.ioq[i].m.name = "LoginReq"
          /\ \A j \in 1 .. i - 1 : c.ioq[j].h # "write"
    BY <1>3 DEF LoginNext
  <2>2. i # 1
    BY <1>1, <2>1
  <2>3. i - 1 \in DOMAIN q /\ i \in Nat /\ q[i - 1] = c.ioq[i]
    BY <1>1, <2>2
  <2>4. ASSUME NEW j \in 1 .. i - 1 - 1
        PROVE  q[j].h # "write"
    <3>1. DOMAIN q = 1 .. Len(q) /\ Len(q) \in Nat
      BY C!PopType DEF q, C!Channels
    <3>2. j \in DOMAIN q /\ j + 1 \in 1 .. i - 1
      BY <2>3, <3>1
    <3> QED BY <1>1, <2>1, <3>2
  <2> QED BY <2>1, <2>3, <2>4 DEF LoginNext
<1> QED BY <1>2, <1>3 DEF QueueInv, q

\* The first closure of Write that runs writes the login.
LEMMA FirstWrite ==
  ASSUME NEW c \in C!Channels, LoginNext(c.ioq), C!Ready(c, "write", "ok")
  PROVE  Head(c.ioq).m.name = "LoginReq"
<1>1. c.ioq # <<>> /\ Head(c.ioq).h = "write"
  BY DEF C!Ready
<1>2. Head(c.ioq) = c.ioq[1] /\ \A i \in DOMAIN c.ioq : i \in Nat /\ i > 0
  BY <1>1, PopFacts
<1> QED BY <1>1, <1>2 DEF LoginNext

-----------------------------------------------------------------------------
(* What a step has to show to keep the invariant *)

LEMMA PipeStep ==
  ASSUME ClientInv, phase = "connected", NEW d, pipe' = d,
         C!Sound(d, Ended'), QueueInv(d.ioq, first'),
         UNCHANGED <<phase, gameclient>>,
         recent' \in BOOLEAN, pinging' \in BOOLEAN, stopping' \in BOOLEAN,
         answered' \in BOOLEAN, userq' \in Seq(Results), closes' \in Nat,
         frames' \in 0 .. MaxFrames, first' \in {NoMsg, "LoginReq", "Ping"}
  PROVE  ClientInv'
<1>1. d \in C!Channels
  BY DEF C!Sound, C!Core
<1>2. TypeOK'
  BY <1>1 DEF ClientInv, TypeOK
<1>3. phase' = "connected" /\ (gameclient = (phase = "connected"))'
  BY DEF ClientInv
<1> QED BY <1>2, <1>3 DEF ClientInv

\* A step that adds handlers to the pipe, or takes one that is no write, and
\* calls neither Close nor Write's closure.
LEMMA QuietStep ==
  ASSUME ClientInv, phase = "connected", NEW c \in C!Channels,
         QueueInv(c.ioq, first), NEW d, pipe' = d,
         C!Sound(d, Ended), C!Appended(d, c),
         UNCHANGED <<phase, gameclient, stopping, closes, first>>,
         recent' \in BOOLEAN, pinging' \in BOOLEAN, answered' \in BOOLEAN,
         userq' \in Seq(Results), frames' \in 0 .. MaxFrames
  PROVE  ClientInv'
<1>1. Ended' = Ended
  BY DEF Ended
<1>2. d \in C!Channels
  BY DEF C!Sound, C!Core
<1>3. QueueInv(d.ioq, first')
  BY <1>2, QueueAppended
<1>4. /\ stopping' \in BOOLEAN /\ closes' \in Nat
      /\ first' \in {NoMsg, "LoginReq", "Ping"}
  BY DEF ClientInv, TypeOK
<1> QED BY <1>1, <1>3, <1>4, PipeStep

\* Close is called, or begins.
LEMMA CloseStep ==
  ASSUME ClientInv, phase = "connected", NEW c \in C!Channels,
         QueueInv(c.ioq, first), NEW d, pipe' = d,
         C!Core(d), C!Appended(d, c),
         \/ closes' = closes + 1 /\ stopping' \in BOOLEAN
         \/ closes' = closes /\ stopping' = TRUE,
         UNCHANGED <<phase, gameclient, recent, pinging, first, server>>,
         userq' \in Seq(Results)
  PROVE  ClientInv'
<1>1. closes' \in Nat /\ stopping' \in BOOLEAN /\ Ended' = 1
  <2>1. closes \in Nat
    BY DEF ClientInv, TypeOK
  <2>2. CASE closes' = closes + 1 /\ stopping' \in BOOLEAN
    BY <2>1, <2>2 DEF Ended
  <2>3. CASE closes' = closes /\ stopping' = TRUE
    BY <2>1, <2>3 DEF Ended
  <2> QED BY <2>2, <2>3
<1>2. d \in C!Channels /\ C!Sound(d, 1)
  BY DEF C!Sound, C!Core
<1>3. QueueInv(d.ioq, first')
  BY <1>2, QueueAppended
<1>4. /\ recent' \in BOOLEAN /\ pinging' \in BOOLEAN /\ answered' \in BOOLEAN
      /\ frames' \in 0 .. MaxFrames /\ first' \in {NoMsg, "LoginReq", "Ping"}
  BY DEF ClientInv, TypeOK, server
<1>5. C!Sound(d, Ended')
  BY <1>1, <1>2
<1> QED BY <1>1, <1>3, <1>4, <1>5, PipeStep

\* Handlers run, and operations are in progress, on a connected pipe only.
LEMMA ActivePipe ==
  ASSUME ClientInv,
         \/ pipe.reading # "none" \/ pipe.writing > 0 \/ pipe.armed
         \/ pipe.ioq # <<>> \/ pinging \/ stopping \/ userq # <<>>
  PROVE  /\ phase = "connected" /\ C!Sound(pipe, Ended)
         /\ pipe \in C!Channels /\ C!Core(pipe) /\ QueueInv(pipe.ioq, first)
<1>1. phase = "connected"
  BY DEF ClientInv, C!Connected
<1> QED BY <1>1 DEF ClientInv, C!Sound, C!Core

-----------------------------------------------------------------------------
(* The steps that keep it *)

\* The pipe as the callbacks of the connection leave it.
LEMMA ConnectedPipe ==
  LET f == C!Handler("write", "ok", [name |-> "LoginReq"])
      d == C!AsyncRead(SendLogin(RunTimer(C!Connected)), "header")
  IN  /\ d \in C!Channels /\ d.open = TRUE /\ d.reading = "header"
      /\ d.writing = 0 /\ d.write_bufs = <<>> /\ d.armed = TRUE
      /\ d.ioq = <<f>> /\ DOMAIN d.ioq = {1} /\ d.ioq[1] = f
<1> DEFINE f == C!Handler("write", "ok", [name |-> "LoginReq"])
           a == C!TimerLoop(C!Connected)
           b == C!Post(a, f)
           d == C!AsyncRead(b, "header")
<1>1. d = C!AsyncRead(SendLogin(RunTimer(C!Connected)), "header")
  BY DEF SendLogin, Write, RunTimer
<1>2. f \in C!Handlers
  BY DEF C!Handler, C!Handlers
<1>3. /\ a \in C!Channels /\ a.open = TRUE /\ a.reading = "none"
      /\ a.writing = 0 /\ a.write_bufs = <<>> /\ a.armed = TRUE
      /\ a.ioq = <<>>
  <2> DEFINE c == C!Connected
  <2>1. /\ c \in C!Channels /\ c.open = TRUE /\ c.reading = "none"
        /\ c.writing = 0 /\ c.write_bufs = <<>> /\ c.ioq = <<>>
    BY DEF C!Connected, C!Channels
  <2>2. a = [c EXCEPT !.armed = TRUE]
    BY DEF C!TimerLoop
  <2> HIDE DEF c, a
  <2> QED BY <2>1, <2>2 DEF C!Channels
<1> HIDE DEF f, a
<1>4. /\ b \in C!Channels /\ b.open = TRUE /\ b.reading = "none"
      /\ b.writing = 0 /\ b.write_bufs = <<>> /\ b.armed = TRUE
      /\ b.ioq = <<f>>
  <2>1. b \in C!Channels
    BY <1>2, <1>3, C!PostType
  <2>2. b.ioq = Append(a.ioq, f)
    BY <1>3 DEF C!Post, C!Channels
  <2> HIDE DEF b
  <2>3. /\ b.open = a.open /\ b.reading = a.reading /\ b.writing = a.writing
        /\ b.write_bufs = a.write_bufs /\ b.armed = a.armed
    BY <1>3, C!PostFields DEF b
  <2> QED BY <1>3, <2>1, <2>2, <2>3
<1> HIDE DEF b
<1>5. /\ d \in C!Channels /\ d.open = TRUE /\ d.reading = "header"
      /\ d.writing = 0 /\ d.write_bufs = <<>> /\ d.armed = TRUE
      /\ d.ioq = <<f>>
  BY <1>4 DEF C!AsyncRead, C!Channels
<1> HIDE DEF d
<1>6. DOMAIN d.ioq = {1} /\ d.ioq[1] = f
  BY <1>5
<1> QED BY <1>1, <1>5, <1>6 DEF f

LEMMA ConnectedInv ==
  ASSUME ClientInv, Connected
  PROVE  ClientInv'
<1> DEFINE f == C!Handler("write", "ok", [name |-> "LoginReq"])
           d == C!AsyncRead(SendLogin(RunTimer(C!Connected)), "header")
<1>1. /\ pipe = C!Connected /\ ~stopping /\ phase = "connecting"
      /\ userq = <<>> /\ first = NoMsg /\ ~pinging
  BY DEF Connected, ClientInv
<1>2. pipe' = d
  BY <1>1 DEF Connected
<1>3. /\ f \in C!Handlers /\ f.h = "write" /\ f.ec = "ok"
      /\ f.m.name = "LoginReq" /\ ~C!IsMessage(f)
  BY DEF C!Handler, C!Handlers, C!IsMessage
<1>4. /\ d \in C!Channels /\ d.open = TRUE /\ d.reading = "header"
      /\ d.writing = 0 /\ d.write_bufs = <<>> /\ d.armed = TRUE
      /\ DOMAIN d.ioq = {1} /\ d.ioq[1] = f
  BY ConnectedPipe
<1> HIDE DEF f, d
<1>5. C!Queued(d, C!Reads) = {} /\ C!Queued(d, {"written"}) = {}
  BY <1>3, <1>4 DEF C!Queued, C!Reads
<1>6. C!Core(d) /\ C!Healthy(d)
  BY <1>3, <1>4, <1>5
     DEF C!Core, C!Healthy, C!OneRead, C!OneWrite, C!Single, C!WriteUnderway,
         C!ReadUnderway, C!TimerUnderway, C!Undisturbed
<1>7. ResultsOK(d.ioq) /\ LoginNext(d.ioq)
  BY <1>3, <1>4 DEF ResultsOK, LoginNext
<1>8. /\ phase' = "connected" /\ gameclient' = TRUE /\ recent' = TRUE
      /\ UNCHANGED <<pinging, stopping, userq, closes, first, server>>
  BY DEF Connected
<1>9. TypeOK'
  BY <1>2, <1>4, <1>8 DEF ClientInv, TypeOK, server
<1>10. C!Sound(d, Ended')
  BY <1>6 DEF C!Sound
<1> QED BY <1>2, <1>7, <1>8, <1>9, <1>10 DEF ClientInv, QueueInv

LEMMA ConnectFailsInv ==
  ASSUME ClientInv, ConnectFails
  PROVE  ClientInv'
  BY DEF ClientInv, ConnectFails, TypeOK, server

\* A message of the server is received.
LEMMA QueueMessage ==
  ASSUME NEW c \in C!Channels, c.reading = "body", NEW m,
         C!ReadCompletes(c, "ok", m) \in C!Channels,
         m.name = "LoginRsp" => m.result \in Results,
         NEW f, QueueInv(c.ioq, f)
  PROVE  QueueInv(C!ReadCompletes(c, "ok", m).ioq, f)
<1> DEFINE g == C!Handler("body", "ok", m)
           q == c.ioq
           r == C!ReadCompletes(c, "ok", m).ioq
<1>1. q \in Seq(C!Handlers) /\ g.m = m
  BY DEF C!Channels, C!Handler
<1>2. r = Append(q, g)
  <2> DEFINE d == [c EXCEPT !.reading = "none"]
  <2>1. d \in C!Channels /\ d.ioq = c.ioq
    BY DEF C!Channels
  <2>2. r = C!Post(d, g).ioq
    BY DEF C!ReadCompletes
  <2> HIDE DEF d, g, r
  <2> QED BY <2>1, <2>2 DEF C!Post, C!Channels
<1> HIDE DEF g, r
<1>3. /\ Len(q) \in Nat /\ DOMAIN q = 1 .. Len(q)
      /\ DOMAIN r = 1 .. Len(q) + 1
      /\ \A i \in 1 .. Len(q) : r[i] = q[i]
      /\ r[Len(q) + 1] = g
  BY <1>1, <1>2
<1> HIDE DEF q
<1>4. ResultsOK(r)
  BY <1>1, <1>3 DEF QueueInv, ResultsOK, q
<1>5. ASSUME LoginNext(q)
      PROVE  LoginNext(r)
  <2>1. PICK i \in DOMAIN q :
          /\ q[i].h = "write" /\ q[i].m.name = "LoginReq"
          /\ \A j \in 1 .. i - 1 : q[j].h # "write"
    BY <1>5 DEF LoginNext
  <2>2. \A j \in 1 .. i - 1 : r[j].h # "write"
    BY <1>3, <2>1
  <2> QED BY <1>3, <2>1, <2>2 DEF LoginNext
<1> QED BY <1>4, <1>5 DEF QueueInv, q, r

LEMMA NetworkInv ==
  ASSUME ClientInv, Network \/ TimerExpires
  PROVE  ClientInv'
<1>1. pipe.reading # "none" \/ pipe.writing > 0 \/ pipe.armed
  BY DEF Network, HeaderArrives, AnswerArrives, OtherArrives, ReadFails,
         WriteEnds, TimerExpires
<1>2. /\ phase = "connected" /\ C!Sound(pipe, Ended)
      /\ pipe \in C!Channels /\ C!Core(pipe) /\ QueueInv(pipe.ioq, first)
  BY <1>1, ActivePipe
<1>3. UNCHANGED <<phase, gameclient, recent, pinging, stopping, userq, closes,
                  first>>
  BY DEF Network, HeaderArrives, AnswerArrives, OtherArrives, ReadFails,
         WriteEnds, TimerExpires, server
<1>4. frames' \in 0 .. MaxFrames /\ answered' \in BOOLEAN
  <2>1. frames \in 0 .. MaxFrames /\ answered \in BOOLEAN
    BY DEF ClientInv, TypeOK
  <2>2. \/ frames' = frames
        \/ frames < MaxFrames /\ frames' = frames + 1
    BY DEF Network, HeaderArrives, AnswerArrives, OtherArrives, ReadFails,
           WriteEnds, TimerExpires, server
  <2>3. answered' = answered \/ answered' = TRUE
    BY DEF Network, HeaderArrives, AnswerArrives, OtherArrives, ReadFails,
           WriteEnds, TimerExpires, server
  <2>4. frames' \in 0 .. MaxFrames
    BY <2>1, <2>2
  <2>5. answered' \in BOOLEAN
    BY <2>1, <2>3, Zenon
  <2> QED BY <2>4, <2>5
<1>5. /\ recent' \in BOOLEAN /\ pinging' \in BOOLEAN
      /\ userq' \in Seq(Results)
  BY <1>3 DEF ClientInv, TypeOK
<1>6. ASSUME NEW d, pipe' = d, C!Sound(d, Ended), C!Appended(d, pipe)
      PROVE  ClientInv'
  BY <1>2, <1>3, <1>4, <1>5, <1>6, QuietStep
\* A message is received.
<1>7. ASSUME NEW m \in Answers, pipe.reading = "body",
             pipe' = C!ReadCompletes(pipe, "ok", m),
             m.name = "LoginRsp" => m.result \in Results
      PROVE  ClientInv'
  <2> DEFINE d == C!ReadCompletes(pipe, "ok", m)
  <2>1. C!Handler(pipe.reading, "ok", m) \in C!Handlers
    BY <1>7 DEF C!Handler, C!Handlers
  <2>2. C!Sound(d, Ended)
    BY <1>2, <1>7, <2>1, C!ReadCompletesSound
  <2>3. d \in C!Channels
    BY <2>2 DEF C!Sound, C!Core
  <2>4. QueueInv(d.ioq, first)
    BY <1>2, <1>7, <2>3, QueueMessage
  <2> HIDE DEF d
  <2>5. C!Appended(d, d)
    BY C!AppendedSame
  <2> QED BY <1>2, <1>3, <1>4, <1>5, <1>7, <2>2, <2>3, <2>4, <2>5, QuietStep
          DEF d
<1>8. CASE HeaderArrives
  <2> PICK ec \in {"ok", "invalid"} : pipe' = C!ReadCompletes(pipe, ec, NoMsg)
    BY <1>8 DEF HeaderArrives
  <2>1. C!Handler(pipe.reading, ec, NoMsg) \in C!Handlers
        /\ pipe.reading = "header"
    BY <1>8 DEF HeaderArrives, C!Handler, C!Handlers
  <2>2. C!Sound(C!ReadCompletes(pipe, ec, NoMsg), Ended)
    BY <1>2, <2>1, C!ReadCompletesSound
  <2>3. C!Appended(C!ReadCompletes(pipe, ec, NoMsg), pipe)
    BY <1>2, <2>1, C!HeaderAppended
  <2> QED BY <1>6, <2>2, <2>3
<1>9. CASE AnswerArrives
  <2> PICK result \in Results :
        pipe' = C!ReadCompletes(pipe, "ok",
                                [name |-> "LoginRsp", result |-> result])
    BY <1>9 DEF AnswerArrives
  <2>1. [name |-> "LoginRsp", result |-> result] \in Answers
    BY DEF Answers
  <2> QED BY <1>7, <1>9, <2>1 DEF AnswerArrives
<1>10. CASE OtherArrives
  <2> PICK m \in [name : Others] : pipe' = C!ReadCompletes(pipe, "ok", m)
    BY <1>10 DEF OtherArrives
  <2>1. m \in Answers /\ m.name # "LoginRsp"
    BY DEF Answers
  <2> QED BY <1>7, <1>10, <2>1 DEF OtherArrives
<1>11. CASE ReadFails
  <2> DEFINE d == C!ReadCompletes(pipe, "error", NoMsg)
  <2>1. C!Handler(pipe.reading, "error", NoMsg) \in C!Handlers
    BY <1>2, <1>11 DEF ReadFails, C!Handler, C!Handlers, C!Channels
  <2>2. C!Sound(d, Ended)
    BY <1>2, <1>11, <2>1, C!ReadCompletesSound DEF ReadFails
  <2>3. C!Appended(d, pipe)
    BY <1>2, C!HeaderAppended
  <2> QED BY <1>6, <1>11, <2>2, <2>3 DEF ReadFails
<1>12. CASE WriteEnds
  <2> PICK ec \in {"ok", "error"} : pipe' = C!WriteCompletes(pipe, ec)
    BY <1>12 DEF WriteEnds
  <2>1. C!Sound(C!WriteCompletes(pipe, ec), Ended)
    BY <1>2, <1>12, C!WriteCompletesSound DEF WriteEnds
  <2>2. C!Appended(C!WriteCompletes(pipe, ec), pipe)
    BY <1>2, <1>12, C!WriteCompletesQuiet, C!PaddedAppended DEF WriteEnds
  <2> QED BY <1>6, <2>1, <2>2
<1>13. CASE TimerExpires
  <2>1. C!Sound(C!TimerExpires(pipe), Ended)
    BY <1>2, <1>13, C!TimerExpiresSound DEF TimerExpires
  <2>2. C!Appended(C!TimerExpires(pipe), pipe)
    BY <1>2, C!TimerQuiet, C!PaddedAppended
  <2> QED BY <1>6, <1>13, <2>1, <2>2 DEF TimerExpires
<1> QED BY <1>8, <1>9, <1>10, <1>11, <1>12, <1>13 DEF Network

LEMMA IoInv ==
  ASSUME ClientInv, IoThread
  PROVE  ClientInv'
<1> DEFINE c == Head(pipe.ioq)
           d == C!Pop(pipe)
\* What every handler finds.
<1>1. ASSUME NEW h, NEW ec, C!Ready(pipe, h, ec)
      PROVE  /\ phase = "connected" /\ C!Sound(pipe, Ended)
             /\ pipe \in C!Channels /\ QueueInv(pipe.ioq, first)
             /\ pipe.ioq # <<>> /\ c \in C!Handlers /\ c.h = h /\ c.ec = ec
             /\ d \in C!Channels /\ C!Core(d)
             /\ h # "write" => QueueInv(d.ioq, first)
  <2>1. /\ phase = "connected" /\ C!Sound(pipe, Ended) /\ C!Core(pipe)
        /\ pipe \in C!Channels /\ QueueInv(pipe.ioq, first)
        /\ pipe.ioq # <<>>
    BY <1>1, ActivePipe DEF C!Ready
  <2>2. c \in C!Handlers /\ c.h = h /\ c.ec = ec /\ d \in C!Channels
    BY <1>1, <2>1, C!NextHandler
  <2>3. C!Core(d)
    BY <2>1, C!PopCore
  <2>4. h # "write" => QueueInv(d.ioq, first)
    BY <2>1, <2>2, QueuePop
  <2> QED BY <2>1, <2>2, <2>3, <2>4
<1>2. /\ recent \in BOOLEAN /\ pinging \in BOOLEAN /\ answered \in BOOLEAN
      /\ stopping \in BOOLEAN /\ userq \in Seq(Results)
      /\ frames \in 0 .. MaxFrames /\ closes \in Nat
  BY DEF ClientInv, TypeOK
\* A handler that does not close.
<1>3. ASSUME NEW h, NEW ec, C!Ready(pipe, h, ec), h # "write",
             NEW e, pipe' = e, C!Sound(e, Ended), C!Appended(e, d),
             UNCHANGED <<phase, gameclient, recent, stopping, closes, first,
                         server>>,
             pinging' \in BOOLEAN, userq' \in Seq(Results)
      PROVE  ClientInv'
  <2>1. /\ phase = "connected" /\ d \in C!Channels
        /\ QueueInv(d.ioq, first)
    BY <1>1, <1>3
  <2>2. /\ recent' \in BOOLEAN /\ answered' \in BOOLEAN
        /\ frames' \in 0 .. MaxFrames
    BY <1>2, <1>3 DEF server
  <2> HIDE DEF d
  <2> QED BY <1>3, <2>1, <2>2, QuietStep
<1>4. ASSUME NEW h \in C!Reads, NEW part \in C!Reads, C!Ready(pipe, h, "ok"),
             pipe' = C!AsyncRead(d, part),
             UNCHANGED <<phase, gameclient, recent, pinging, stopping, closes,
                         first, server>>,
             userq' \in Seq(Results)
      PROVE  ClientInv'
  <2>1. C!Sound(C!AsyncRead(d, part), Ended)
    BY <1>1, <1>4, C!ResumeReadSound
  <2>2. C!Appended(C!AsyncRead(d, part), d)
    BY <1>1, <1>4, C!AsyncReadPadded, C!PaddedAppended
  <2>3. h # "write" /\ pinging' \in BOOLEAN
    BY <1>2, <1>4 DEF C!Reads
  <2> HIDE DEF d
  <2> QED BY <1>3, <1>4, <2>1, <2>2, <2>3
<1>5. CASE OnReadHeader
  BY <1>2, <1>4, <1>5 DEF OnReadHeader, Runs, C!Reads
<1>6. CASE OnLoginRsp
  <2>1. C!Ready(pipe, "body", "ok") /\ c.m.name = "LoginRsp"
    BY <1>6 DEF OnLoginRsp, Runs
  <2>2. c.m.result \in Results
    <3>1. pipe \in C!Channels /\ pipe.ioq # <<>> /\ ResultsOK(pipe.ioq)
          /\ C!IsMessage(c)
      BY <1>1, <2>1 DEF QueueInv, C!IsMessage
    <3>2. c = pipe.ioq[1] /\ 1 \in DOMAIN pipe.ioq
      BY <3>1 DEF C!Channels
    <3> QED BY <2>1, <3>1, <3>2 DEF ResultsOK
  <2>3. userq' \in Seq(Results)
    BY <1>2, <1>6, <2>2 DEF OnLoginRsp
  <2> QED BY <1>4, <1>6, <2>1, <2>3 DEF OnLoginRsp, C!Reads
<1>7. CASE OnUnknown
  BY <1>2, <1>4, <1>7 DEF OnUnknown, Runs, C!Reads
<1>8. CASE OnError
  <2>1. PICK h \in {"header", "body", "written"},
             ec \in {"ok", "invalid", "error"} : C!Ready(pipe, h, ec)
    BY <1>8 DEF OnError, Runs
  <2>2. /\ phase = "connected" /\ d \in C!Channels /\ C!Core(d)
        /\ QueueInv(d.ioq, first)
    BY <1>1, <2>1
  <2>3. C!Core(C!Close(d)) /\ C!Appended(C!Close(d), d)
    BY <2>2, C!CloseCore, C!TimerQuiet, C!PaddedAppended
  <2>4. /\ pipe' = C!Close(d) /\ closes' = closes + 1
        /\ UNCHANGED <<phase, gameclient, recent, pinging, stopping, userq,
                       first, server>>
    BY <1>8 DEF OnError
  <2>5. stopping' \in BOOLEAN /\ userq' \in Seq(Results)
    BY <1>2, <2>4
  <2> HIDE DEF d
  <2> QED BY <2>2, <2>3, <2>4, <2>5, CloseStep
<1>9. CASE OnAborted
  <2>1. PICK h \in {"header", "body", "written", "timer"} :
          C!Ready(pipe, h, "aborted")
    BY <1>9 DEF OnAborted, Runs
  <2>2. C!Sound(d, Ended) /\ C!Appended(d, d)
    BY <1>1, <2>1, C!AbortedSound, C!AppendedSame
  <2>3. /\ pipe' = d
        /\ UNCHANGED <<phase, gameclient, recent, pinging, stopping, userq,
                       closes, first, server>>
    BY <1>9 DEF OnAborted
  <2> HIDE DEF d
  <2> QED BY <1>2, <1>3, <2>1, <2>2, <2>3
<1>10. CASE OnWritten
  <2>1. C!Ready(pipe, "written", "ok")
    BY <1>10 DEF OnWritten, Runs
  <2>2. C!Sound(C!PopWrite(d), Ended)
    BY <1>1, <2>1, C!WrittenSound
  <2>3. d.write_bufs # <<>>
    BY <1>1, <2>1, C!HeadQueued, C!PopFields
       DEF C!Sound, C!Core, C!WriteUnderway
  <2>4. C!Appended(C!PopWrite(d), d)
    BY <1>1, <2>1, <2>3, C!PopWritePadded, C!PaddedAppended
  <2>5. /\ pipe' = C!PopWrite(d)
        /\ UNCHANGED <<phase, gameclient, recent, pinging, stopping, userq,
                       closes, first, server>>
    BY <1>10 DEF OnWritten
  <2> HIDE DEF d
  <2> QED BY <1>2, <1>3, <2>1, <2>2, <2>4, <2>5
<1>11. CASE RunWrite
  <2> DEFINE e == C!PushWrite(d, c.m)
  <2>1. C!Ready(pipe, "write", "ok")
    BY <1>11 DEF RunWrite, Runs
  <2>2. c.m \in [name : {"LoginReq", "Ping"}]
    BY <1>1, <2>1 DEF C!Handlers
  <2>3. C!Sound(e, Ended) /\ C!Appended(e, d) /\ pipe' = e
    BY <1>1, <1>11, <2>1, <2>2, C!RunWriteSound, C!PushWritePadded,
       C!PaddedAppended
       DEF RunWrite
  <2>4. UNCHANGED <<phase, gameclient, recent, pinging, stopping, userq,
                    closes, server>>
        /\ first' = IF first = NoMsg THEN c.m.name ELSE first
    BY <1>11 DEF RunWrite
  <2>5. /\ phase = "connected" /\ pipe \in C!Channels /\ d \in C!Channels
        /\ pipe.ioq # <<>> /\ QueueInv(pipe.ioq, first)
    BY <1>1, <2>1
  <2>6. first' # NoMsg /\ first' \in {NoMsg, "LoginReq", "Ping"}
    BY <2>2, <2>4 DEF ClientInv, TypeOK
  <2>7. QueueInv(d.ioq, first')
    BY <2>5, <2>6, PopResults DEF QueueInv
  <2>8. e \in C!Channels
    BY <2>3 DEF C!Sound, C!Core
  <2> HIDE DEF d, e
  <2>9. QueueInv(e.ioq, first')
    BY <2>3, <2>5, <2>7, <2>8, QueueAppended
  <2>10. C!Sound(e, Ended') /\ recent' \in BOOLEAN /\ pinging' \in BOOLEAN
         /\ stopping' \in BOOLEAN /\ answered' \in BOOLEAN
         /\ userq' \in Seq(Results) /\ closes' \in Nat
         /\ frames' \in 0 .. MaxFrames
    BY <1>2, <2>3, <2>4 DEF Ended, server
  <2> QED BY <2>3, <2>4, <2>5, <2>6, <2>9, <2>10, PipeStep
<1>12. CASE RunClose
  <2>1. C!Ready(pipe, "close", "ok")
    BY <1>12 DEF RunClose, Runs
  <2>2. C!Sound(C!CloseSocket(d), Ended) /\ C!Appended(C!CloseSocket(d), d)
    BY <1>1, <2>1, C!RunCloseSound, C!CloseSocketQuiet, C!PaddedAppended
  <2>3. /\ pipe' = C!CloseSocket(d)
        /\ UNCHANGED <<phase, gameclient, recent, pinging, stopping, userq,
                       closes, first, server>>
    BY <1>12 DEF RunClose
  <2> HIDE DEF d
  <2> QED BY <1>2, <1>3, <2>1, <2>2, <2>3
<1>13. CASE OnTimer
  <2>1. C!Ready(pipe, "timer", "ok")
    BY <1>13 DEF OnTimer, Runs
  <2>2. C!Sound(C!TimerLoop(d), Ended) /\ C!Appended(C!TimerLoop(d), d)
    BY <1>1, <2>1, C!RearmSound, C!TimerQuiet, C!PaddedAppended
  <2>3. /\ pipe' = C!TimerLoop(d) /\ pinging' = TRUE
        /\ UNCHANGED <<phase, gameclient, recent, stopping, userq, closes,
                       first, server>>
    BY <1>13 DEF OnTimer
  <2> HIDE DEF d
  <2> QED BY <1>2, <1>3, <2>1, <2>2, <2>3
<1>14. CASE SendPing
  <2> DEFINE f == C!Handler("write", "ok", [name |-> "Ping"])
  <2>1. /\ phase = "connected" /\ C!Sound(pipe, Ended)
        /\ pipe \in C!Channels /\ QueueInv(pipe.ioq, first)
    BY <1>14, ActivePipe DEF SendPing
  <2>2. C!Sound(C!Post(pipe, f), Ended)
    BY <2>1, C!PostWriteSound
  <2>3. C!Appended(C!Post(pipe, f), pipe)
    <3>1. ~C!IsMessage(f)
      BY DEF C!IsMessage, C!Handler
    <3> QED BY <2>1, <3>1, C!PostAppended
  <2>4. /\ pipe' = C!Post(pipe, f) /\ pinging' = FALSE /\ recent' = TRUE
        /\ UNCHANGED <<phase, gameclient, stopping, userq, closes, first,
                       server>>
    BY <1>14 DEF SendPing, Write
  <2> HIDE DEF f
  <2>5. /\ recent' \in BOOLEAN /\ pinging' \in BOOLEAN /\ answered' \in BOOLEAN
        /\ userq' \in Seq(Results) /\ frames' \in 0 .. MaxFrames
    BY <1>2, <2>4 DEF server
  <2> QED BY <2>1, <2>2, <2>3, <2>4, <2>5, QuietStep
<1>15. CASE SkipPing
  <2>1. /\ phase = "connected" /\ C!Sound(pipe, Ended)
        /\ pipe \in C!Channels /\ QueueInv(pipe.ioq, first)
    BY <1>15, ActivePipe DEF SkipPing
  <2>2. /\ pinging' = FALSE /\ recent' = FALSE
        /\ UNCHANGED <<phase, pipe, gameclient, stopping, userq, closes,
                       first, server>>
    BY <1>15 DEF SkipPing
  <2>3. C!Appended(pipe, pipe)
    BY C!AppendedSame
  <2>4. /\ recent' \in BOOLEAN /\ pinging' \in BOOLEAN /\ answered' \in BOOLEAN
        /\ userq' \in Seq(Results) /\ frames' \in 0 .. MaxFrames
    BY <1>2, <2>2 DEF server
  <2> QED BY <2>1, <2>2, <2>3, <2>4, QuietStep
<1> QED BY <1>5, <1>6, <1>7, <1>8, <1>9, <1>10, <1>11, <1>12, <1>13, <1>14,
           <1>15 DEF IoThread

LEMMA UserInv ==
  ASSUME ClientInv, UserThread
  PROVE  ClientInv'
<1>1. /\ phase = "connected" /\ C!Sound(pipe, Ended)
      /\ pipe \in C!Channels /\ C!Core(pipe) /\ QueueInv(pipe.ioq, first)
  BY ActivePipe DEF UserThread, LoginSucceeds, LoginRefused, PostClose
<1>2. /\ recent \in BOOLEAN /\ pinging \in BOOLEAN /\ answered \in BOOLEAN
      /\ stopping \in BOOLEAN /\ userq \in Seq(Results)
      /\ frames \in 0 .. MaxFrames
  BY DEF ClientInv, TypeOK
<1>3. userq' \in Seq(Results)
  BY <1>2 DEF UserThread, LoginSucceeds, LoginRefused, PostClose
<1>4. CASE LoginSucceeds
  <2>1. UNCHANGED <<phase, pipe, gameclient, recent, pinging, stopping, closes,
                    first, server>>
    BY <1>4 DEF LoginSucceeds
  <2>2. C!Appended(pipe, pipe)
    BY C!AppendedSame
  <2>3. /\ recent' \in BOOLEAN /\ pinging' \in BOOLEAN /\ answered' \in BOOLEAN
        /\ frames' \in 0 .. MaxFrames
    BY <1>2, <2>1 DEF server
  <2> QED BY <1>1, <1>3, <2>1, <2>2, <2>3, QuietStep
<1>5. CASE LoginRefused
  <2>1. C!Core(C!Stop(pipe)) /\ C!Appended(C!Stop(pipe), pipe)
    BY <1>1, C!CloseCore, C!TimerQuiet, C!PaddedAppended
  <2>2. /\ pipe' = C!Stop(pipe) /\ stopping' = TRUE /\ closes' = closes
        /\ UNCHANGED <<phase, gameclient, recent, pinging, first, server>>
    BY <1>5 DEF LoginRefused
  <2> QED BY <1>1, <1>3, <2>1, <2>2, CloseStep
<1>6. CASE PostClose
  <2> DEFINE f == C!Handler("close", "ok", NoMsg)
  <2>1. /\ f \in C!Handlers /\ f.h \notin C!Reads /\ f.h # "written"
        /\ ~C!IsMessage(f)
    BY DEF C!Handler, C!Handlers, C!Reads, C!IsMessage
  <2>2. /\ pipe' = C!Post(pipe, f) /\ stopping' = FALSE
        /\ closes' = closes + 1
        /\ UNCHANGED <<phase, gameclient, recent, pinging, first, server>>
    BY <1>6 DEF PostClose
  <2> HIDE DEF f
  <2>3. C!Core(C!Post(pipe, f)) /\ C!Appended(C!Post(pipe, f), pipe)
    BY <1>1, <2>1, C!PostCore, C!PostAppended
  <2> QED BY <1>1, <1>3, <2>2, <2>3, CloseStep
<1> QED BY <1>4, <1>5, <1>6 DEF UserThread

-----------------------------------------------------------------------------
(* The theorems *)

LEMMA InitInv == Init => ClientInv
<1>1. C!Core(C!Connected)
  BY C!ConnectedSound
<1>2. Init => pipe \in C!Channels
  BY <1>1 DEF Init, C!Core
<1>3. Init => TypeOK
  <2>1. Init => userq \in Seq(Results)
    BY DEF Init
  <2>2. Init => {gameclient, recent, pinging, stopping, answered}
                  \subseteq BOOLEAN
    BY DEF Init
  <2>3. Init => closes \in Nat /\ frames \in 0 .. MaxFrames
    BY DEF Init
  <2>4. Init => phase \in {"connecting", "connected", "failed"}
                /\ first \in {NoMsg, "LoginReq", "Ping"}
    BY DEF Init
  <2> QED BY <1>2, <2>1, <2>2, <2>3, <2>4 DEF TypeOK
<1> QED BY <1>3 DEF Init, ClientInv

LEMMA NextInv == ClientInv /\ [Next]_vars => ClientInv'
<1> SUFFICES ASSUME ClientInv, [Next]_vars
             PROVE  ClientInv'
  OBVIOUS
<1>1. CASE Connected
  BY <1>1, ConnectedInv
<1>2. CASE ConnectFails
  BY <1>2, ConnectFailsInv
<1>3. CASE Network \/ TimerExpires
  BY <1>3, NetworkInv
<1>4. CASE IoThread
  BY <1>4, IoInv
<1>5. CASE UserThread
  BY <1>5, UserInv
<1>6. CASE UNCHANGED vars
  BY <1>6 DEF vars, server, ClientInv, TypeOK, Ended
<1> QED BY <1>1, <1>2, <1>3, <1>4, <1>5, <1>6 DEF Next

LEMMA SpecInv == Spec => []ClientInv
  BY InitInv, NextInv, PTL DEF Spec

\* TypeOK: every variable keeps its type; in particular the client only ever
\* hands results of the server to the user's thread.
THEOREM TypeCorrect == Spec => []TypeOK
<1>1. ClientInv => TypeOK
  BY DEF ClientInv
<1> QED BY <1>1, SpecInv, PTL

\* Chains: the reads of the pipe are one chain, alive until Close is called or
\* begun, its writes never overlap and its timer runs, though the user's thread
\* stops the timer and closes the pipe while the io thread runs handlers.
THEOREM ChainsCorrect == Spec => []Chains
<1>1. ClientInv => Chains
  <2> SUFFICES ASSUME ClientInv
               PROVE  Chains
    OBVIOUS
  <2>1. C!Core(pipe)
    BY C!ConnectedSound DEF ClientInv, C!Sound
  <2>2. Untouched => C!Healthy(pipe)
    BY DEF Untouched, ClientInv, C!Sound, Ended
  <2> QED BY <2>1, <2>2 DEF Chains, C!Core, C!Healthy
<1> QED BY <1>1, SpecInv, PTL

\* LoginFirst: whenever the timer expires, no ping is written before the login.
THEOREM LoginFirstCorrect == Spec => []LoginFirst
<1>1. ClientInv /\ LoginFirst /\ [Next]_vars => LoginFirst'
  <2> SUFFICES ASSUME ClientInv, LoginFirst, [Next]_vars
               PROVE  LoginFirst'
    OBVIOUS
  <2>1. CASE RunWrite
    <3>1. C!Ready(pipe, "write", "ok")
      BY <2>1 DEF RunWrite, Runs
    <3>2. pipe \in C!Channels /\ QueueInv(pipe.ioq, first)
      BY <3>1, ActivePipe DEF C!Ready
    <3>3. first = NoMsg => Head(pipe.ioq).m.name = "LoginReq"
      BY <3>1, <3>2, FirstWrite DEF QueueInv
    <3> QED BY <2>1, <3>3 DEF RunWrite, LoginFirst
  <2>2. CASE UNCHANGED first
    BY <2>2 DEF LoginFirst
  <2>3. RunWrite \/ UNCHANGED first
    BY DEF Next, Connected, ConnectFails, Network, HeaderArrives,
           AnswerArrives, OtherArrives, ReadFails, WriteEnds, TimerExpires,
           IoThread, OnReadHeader, OnLoginRsp, OnUnknown, OnError, OnAborted,
           OnWritten, RunClose, OnTimer, SendPing, SkipPing, UserThread,
           LoginSucceeds, LoginRefused, PostClose, vars
  <2> QED BY <2>1, <2>2, <2>3
<1>2. Init => LoginFirst
  BY DEF Init, LoginFirst
<1> QED BY <1>1, <1>2, SpecInv, PTL DEF Spec

\* Found: when the user's thread handles an answer, gameclient_ is set, so
\* that a refused login always reaches Close.
THEOREM FoundCorrect == Spec => []Found
<1>1. ClientInv => Found
  BY DEF ClientInv, Found
<1> QED BY <1>1, SpecInv, PTL
=============================================================================
