---------------------------- MODULE ChannelProofs ----------------------------
(***************************************************************************)
(* Lemmas about the operators of Channel, for the proofs of the server and *)
(* of the client: they return channels, and they keep the chains of reads, *)
(* writes and timer waits of a connection sound.                           *)
(***************************************************************************)
EXTENDS Channel, TLAPS

-----------------------------------------------------------------------------
(* Every operation of Channel returns a channel *)

LEMMA PostType ==
  ASSUME NEW c \in Channels, NEW f \in Handlers
  PROVE  Post(c, f) \in Channels
<1>1. Append(c.ioq, f) \in Seq(Handlers)
  BY DEF Channels
<1>2. [c EXCEPT !.ioq = Append(c.ioq, f)] \in Channels
  BY <1>1 DEF Channels
<1> QED BY <1>2 DEF Post

LEMMA PopType ==
  ASSUME NEW c \in Channels, c.ioq # <<>>
  PROVE  Pop(c) \in Channels
<1>1. Tail(c.ioq) \in Seq(Handlers)
  BY DEF Channels
<1>2. [c EXCEPT !.ioq = Tail(c.ioq)] \in Channels
  BY <1>1 DEF Channels
<1> QED BY <1>2 DEF Pop

LEMMA HeadType ==
  ASSUME NEW c \in Channels, c.ioq # <<>>
  PROVE  Head(c.ioq) \in Handlers
  BY DEF Channels

\* The next handler, and the channel without it.
LEMMA NextHandler ==
  ASSUME NEW c \in Channels, NEW h, NEW ec, Ready(c, h, ec)
  PROVE  /\ c.ioq # <<>> /\ Pop(c) \in Channels
         /\ Head(c.ioq) \in Handlers
         /\ Head(c.ioq).h = h /\ Head(c.ioq).ec = ec
  BY PopType, HeadType DEF Ready

LEMMA AsyncReadType ==
  ASSUME NEW c \in Channels, NEW part \in {"header", "body"}
  PROVE  AsyncRead(c, part) \in Channels
<1>1. Handler(part, "error", NoMsg) \in Handlers
  BY DEF Handler, Handlers
<1>2. CASE c.open
  BY <1>2 DEF Channels, AsyncRead
<1>3. CASE ~c.open
  BY <1>1, <1>3, PostType DEF AsyncRead
<1> QED BY <1>2, <1>3 DEF Channels

LEMMA DoWriteType ==
  ASSUME NEW c \in Channels
  PROVE  DoWrite(c) \in Channels
<1>1. Handler("written", "error", NoMsg) \in Handlers
  BY DEF Handler, Handlers
<1>2. CASE c.open
  BY <1>2 DEF Channels, DoWrite
<1>3. CASE ~c.open
  BY <1>1, <1>3, PostType DEF DoWrite
<1> QED BY <1>2, <1>3 DEF Channels

LEMMA PushWriteType ==
  ASSUME NEW c \in Channels, NEW m \in Out
  PROVE  PushWrite(c, m) \in Channels
<1> DEFINE pushed == [c EXCEPT !.write_bufs = Append(@, m)]
<1>1. pushed \in Channels
  <2>1. Append(c.write_bufs, m) \in Seq(Out)
    BY DEF Channels
  <2>2. [c EXCEPT !.write_bufs = Append(c.write_bufs, m)] \in Channels
    BY <2>1 DEF Channels
  <2> QED BY <2>2
<1>2. DoWrite(pushed) \in Channels
  BY <1>1, DoWriteType
<1> QED BY <1>1, <1>2 DEF PushWrite

LEMMA PopWriteType ==
  ASSUME NEW c \in Channels, c.write_bufs # <<>>
  PROVE  PopWrite(c) \in Channels
<1> DEFINE popped == [c EXCEPT !.write_bufs = Tail(@)]
<1>1. popped \in Channels
  <2>1. Tail(c.write_bufs) \in Seq(Out)
    BY DEF Channels
  <2>2. [c EXCEPT !.write_bufs = Tail(c.write_bufs)] \in Channels
    BY <2>1 DEF Channels
  <2> QED BY <2>2
<1>2. DoWrite(popped) \in Channels
  BY <1>1, DoWriteType
<1> QED BY <1>1, <1>2 DEF PopWrite

LEMMA TimerLoopType ==
  ASSUME NEW c \in Channels
  PROVE  TimerLoop(c) \in Channels
  BY DEF Channels, TimerLoop

LEMMA TimerExpiresType ==
  ASSUME NEW c \in Channels
  PROVE  TimerExpires(c) \in Channels
<1>1. Handler("timer", "ok", NoMsg) \in Handlers
  BY DEF Handler, Handlers
<1>2. [c EXCEPT !.armed = FALSE] \in Channels
  BY DEF Channels
<1> QED BY <1>1, <1>2, PostType DEF TimerExpires

LEMMA CloseType ==
  ASSUME NEW c \in Channels
  PROVE  Close(c) \in Channels
<1>1. /\ Handler("timer", "aborted", NoMsg) \in Handlers
      /\ Handler("close", "ok", NoMsg) \in Handlers
  BY DEF Handler, Handlers
<1>2. [c EXCEPT !.armed = FALSE] \in Channels
  BY DEF Channels
<1>3. Stop(c) \in Channels
  BY <1>1, <1>2, PostType DEF Stop
<1> QED BY <1>1, <1>3, PostType DEF Close

-----------------------------------------------------------------------------
(* What posting and popping a handler does to the handlers queued *)

LEMMA PostQueued ==
  ASSUME NEW c \in Channels, NEW f \in Handlers, NEW hs
  PROVE  /\ f.h \notin hs => Queued(Post(c, f), hs) = Queued(c, hs)
         /\ f.h \notin hs => (Single(c, hs) => Single(Post(c, f), hs))
         /\ f.h \in hs => Queued(Post(c, f), hs) # {}
         /\ Queued(c, hs) = {} => Single(Post(c, f), hs)
<1>1. c.ioq \in Seq(Handlers)
  BY DEF Channels
<1> DEFINE n == Len(c.ioq)
           q == Post(c, f).ioq
<1>2. n \in Nat /\ DOMAIN c.ioq = 1 .. n
  BY <1>1
<1>3. q = Append(c.ioq, f)
  BY DEF Post, Channels
<1>4. /\ DOMAIN q = 1 .. n + 1
      /\ \A i \in 1 .. n : q[i] = c.ioq[i]
      /\ q[n + 1] = f
  BY <1>1, <1>3
<1> HIDE DEF n, q
<1>5. Queued(Post(c, f), hs) = {i \in 1 .. n + 1 : q[i].h \in hs}
  BY <1>4 DEF Queued, q
<1>6. Queued(c, hs) = {i \in 1 .. n : c.ioq[i].h \in hs}
  BY <1>2 DEF Queued
<1>7. f.h \notin hs => Queued(Post(c, f), hs) = Queued(c, hs)
  BY <1>2, <1>4, <1>5, <1>6
<1>8. f.h \in hs => n + 1 \in Queued(Post(c, f), hs)
  BY <1>2, <1>4, <1>5
<1>9. Queued(c, hs) = {} =>
        \A i \in Queued(Post(c, f), hs) : i = n + 1
  BY <1>2, <1>4, <1>5, <1>6
<1> QED BY <1>7, <1>8, <1>9 DEF Single

LEMMA HeadQueued ==
  ASSUME NEW c \in Channels, c.ioq # <<>>, NEW hs, Head(c.ioq).h \in hs
  PROVE  Queued(c, hs) # {}
<1>1. c.ioq \in Seq(Handlers)
  BY DEF Channels
<1>2. 1 \in DOMAIN c.ioq /\ c.ioq[1] = Head(c.ioq)
  BY <1>1
<1> QED BY <1>2 DEF Queued

LEMMA PopQueued ==
  ASSUME NEW c \in Channels, c.ioq # <<>>, NEW hs
  PROVE  /\ Single(c, hs) => Single(Pop(c), hs)
         /\ Queued(c, hs) = {} => Queued(Pop(c), hs) = {}
         /\ Head(c.ioq).h \notin hs =>
              (Queued(Pop(c), hs) = {} <=> Queued(c, hs) = {})
         /\ Head(c.ioq).h \in hs /\ Single(c, hs) =>
              Queued(Pop(c), hs) = {}
<1>1. c.ioq \in Seq(Handlers)
  BY DEF Channels
<1> DEFINE n == Len(c.ioq)
           q == Pop(c).ioq
<1>2. n \in Nat /\ n > 0 /\ DOMAIN c.ioq = 1 .. n
  BY <1>1
<1>3. q = Tail(c.ioq)
  BY DEF Pop, Channels
<1>4. /\ DOMAIN q = 1 .. n - 1
      /\ \A i \in 1 .. n - 1 : q[i] = c.ioq[i + 1]
      /\ Head(c.ioq) = c.ioq[1]
  BY <1>1, <1>3
<1> HIDE DEF n, q
<1>5. Queued(Pop(c), hs) = {i \in 1 .. n - 1 : q[i].h \in hs}
  BY <1>4 DEF Queued, q
<1>6. Queued(c, hs) = {i \in 1 .. n : c.ioq[i].h \in hs}
  BY <1>2 DEF Queued
<1>7. \A i \in Queued(Pop(c), hs) :
        i \in Nat /\ i > 0 /\ i + 1 \in Queued(c, hs)
  BY <1>2, <1>4, <1>5, <1>6
<1>8. \A i \in Queued(c, hs) :
        i \in Nat /\ (i = 1 \/ i - 1 \in Queued(Pop(c), hs))
  BY <1>2, <1>4, <1>5, <1>6
<1>9. Head(c.ioq).h \in hs <=> 1 \in Queued(c, hs)
  BY <1>2, <1>4, <1>6
<1>10. Single(c, hs) => Single(Pop(c), hs)
  BY <1>7 DEF Single
<1>11. Head(c.ioq).h \notin hs =>
         (Queued(Pop(c), hs) = {} <=> Queued(c, hs) = {})
  BY <1>7, <1>8, <1>9
<1>12. Head(c.ioq).h \in hs /\ Single(c, hs) => Queued(Pop(c), hs) = {}
  BY <1>7, <1>9 DEF Single
<1> QED BY <1>7, <1>10, <1>11, <1>12

-----------------------------------------------------------------------------
(* The state of a channel.  Core holds for ever: reads and writes do not    *)
(* overlap, and a write has a buffer.  Healthy holds until Close is called: *)
(* the socket is open, nothing aborts its operations, and the read, write   *)
(* and timer chains are alive.                                              *)

Undisturbed(c) ==
  \A i \in DOMAIN c.ioq : c.ioq[i].h # "close" /\ c.ioq[i].ec # "aborted"

Core(c) ==
  /\ c \in Channels
  /\ OneRead(c)
  /\ OneWrite(c)
  /\ WriteUnderway(c) => c.write_bufs # <<>>

Healthy(c) ==
  /\ c.open
  /\ Undisturbed(c)
  /\ ReadUnderway(c)
  /\ c.write_bufs # <<>> => WriteUnderway(c)
  /\ TimerUnderway(c)

\* A channel whose session has called Close n times.
Sound(c, n) == Core(c) /\ (n = 0 => Healthy(c))

LEMMA PostUndisturbed ==
  ASSUME NEW c \in Channels, Undisturbed(c),
         NEW f \in Handlers, f.h # "close", f.ec # "aborted"
  PROVE  Undisturbed(Post(c, f))
<1>1. c.ioq \in Seq(Handlers)
  BY DEF Channels
<1>2. Post(c, f).ioq = Append(c.ioq, f)
  BY DEF Post, Channels
<1> QED BY <1>1, <1>2 DEF Undisturbed

LEMMA PopUndisturbed ==
  ASSUME NEW c \in Channels, Undisturbed(c), c.ioq # <<>>
  PROVE  /\ Undisturbed(Pop(c))
         /\ Head(c.ioq).h # "close" /\ Head(c.ioq).ec # "aborted"
<1>1. c.ioq \in Seq(Handlers)
  BY DEF Channels
<1>2. Pop(c).ioq = Tail(c.ioq)
  BY DEF Pop, Channels
<1> QED BY <1>1, <1>2 DEF Undisturbed

LEMMA SameQueue ==
  ASSUME NEW c, NEW d, d.ioq = c.ioq
  PROVE  /\ \A hs : Queued(d, hs) = Queued(c, hs)
         /\ \A hs : Single(d, hs) <=> Single(c, hs)
         /\ Undisturbed(d) <=> Undisturbed(c)
  BY DEF Queued, Single, Undisturbed

\* The fields Post and Pop leave alone.
LEMMA PostFields ==
  ASSUME NEW c \in Channels, NEW f
  PROVE  LET d == Post(c, f) IN
         /\ d.open = c.open /\ d.reading = c.reading /\ d.writing = c.writing
         /\ d.write_bufs = c.write_bufs /\ d.armed = c.armed
  BY DEF Channels, Post

LEMMA PopFields ==
  ASSUME NEW c \in Channels
  PROVE  LET d == Pop(c) IN
         /\ d.open = c.open /\ d.reading = c.reading /\ d.writing = c.writing
         /\ d.write_bufs = c.write_bufs /\ d.armed = c.armed
  BY DEF Channels, Pop

LEMMA CompletesFields ==
  ASSUME NEW c \in Channels, NEW ec, NEW m
  PROVE  /\ LET d == ReadCompletes(c, ec, m) IN
            /\ d.reading = "none" /\ d.writing = c.writing
            /\ d.write_bufs = c.write_bufs
            /\ d.ioq = Append(c.ioq, Handler(c.reading, ec, m))
         /\ LET d == WriteCompletes(c, ec) IN
            /\ d.reading = c.reading /\ d.writing = c.writing - 1
            /\ d.write_bufs = c.write_bufs
            /\ d.ioq = Append(c.ioq, Handler("written", ec, NoMsg))
<1> DEFINE r == [c EXCEPT !.reading = "none"]
           w == [c EXCEPT !.writing = @ - 1]
           f == Handler(c.reading, ec, m)
           g == Handler("written", ec, NoMsg)
<1>1. /\ r.reading = "none" /\ r.writing = c.writing /\ r.ioq = c.ioq
      /\ r.write_bufs = c.write_bufs
      /\ w.reading = c.reading /\ w.writing = c.writing - 1 /\ w.ioq = c.ioq
      /\ w.write_bufs = c.write_bufs
  BY DEF Channels
<1>2. /\ ReadCompletes(c, ec, m) = [r EXCEPT !.ioq = Append(@, f)]
      /\ WriteCompletes(c, ec) = [w EXCEPT !.ioq = Append(@, g)]
  BY DEF ReadCompletes, WriteCompletes, Post
<1>3. "ioq" \in DOMAIN r /\ "ioq" \in DOMAIN w
  BY DEF Channels
<1> HIDE DEF r, w, f, g
<1> QED BY <1>1, <1>2, <1>3 DEF f, g

LEMMA ReadCompletesSound ==
  ASSUME NEW c, NEW n, Sound(c, n), c.reading # "none",
         NEW ec, NEW m, ec # "aborted",
         Handler(c.reading, ec, m) \in Handlers
  PROVE  Sound(ReadCompletes(c, ec, m), n)
<1> DEFINE d == [c EXCEPT !.reading = "none"]
           f == Handler(c.reading, ec, m)
           e == Post(d, f)
<1>1. d \in Channels /\ d.ioq = c.ioq
  BY DEF Sound, Core, Channels
<1>2. f.h \in Reads /\ f.h \notin {"written", "timer", "close"}
  BY DEF Sound, Core, Channels, Handler, Reads
<1>3. f.h # "close" /\ f.ec # "aborted"
  BY <1>2 DEF Handler
<1>4. e = ReadCompletes(c, ec, m) /\ e \in Channels
  BY <1>1, PostType DEF ReadCompletes
<1>5. /\ e.open = c.open /\ e.reading = "none" /\ e.writing = c.writing
      /\ e.write_bufs = c.write_bufs /\ e.armed = c.armed
  BY <1>1, PostFields DEF Channels, Sound, Core
<1>6. /\ Queued(e, {"written"}) = Queued(c, {"written"})
      /\ Queued(e, {"timer"}) = Queued(c, {"timer"})
      /\ Single(c, {"written"}) => Single(e, {"written"})
      /\ Queued(e, Reads) # {}
      /\ Queued(c, Reads) = {} => Single(e, Reads)
  <2>1. \A hs : Queued(d, hs) = Queued(c, hs)
                /\ (Single(d, hs) <=> Single(c, hs))
    BY <1>1, SameQueue
  <2>2. f \in Handlers
    OBVIOUS
  <2> HIDE DEF d, f
  <2> QED BY <1>1, <1>2, <2>1, <2>2, PostQueued
<1>7. Undisturbed(c) => Undisturbed(e)
  BY <1>1, <1>3, PostUndisturbed, SameQueue
<1> HIDE DEF d, f, e
<1>8. Core(e)
  BY <1>4, <1>5, <1>6 DEF Sound, Core, OneRead, OneWrite, WriteUnderway
<1>9. n = 0 => Healthy(e)
  BY <1>5, <1>6, <1>7 DEF Sound, Healthy, ReadUnderway, WriteUnderway,
                          TimerUnderway
<1> QED BY <1>4, <1>8, <1>9 DEF Sound

LEMMA WriteCompletesSound ==
  ASSUME NEW c, NEW n, Sound(c, n), c.writing > 0, NEW ec \in {"ok", "error"}
  PROVE  Sound(WriteCompletes(c, ec), n)
<1> DEFINE d == [c EXCEPT !.writing = @ - 1]
           f == Handler("written", ec, NoMsg)
           e == Post(d, f)
<1>1. d \in Channels /\ d.ioq = c.ioq /\ c.writing = 1 /\ d.writing = 0
  BY DEF Sound, Core, OneWrite, Channels
<1>2. f \in Handlers /\ f.h = "written" /\ f.ec # "aborted"
  BY DEF Handler, Handlers
<1>3. e = WriteCompletes(c, ec) /\ e \in Channels
  BY <1>1, <1>2, PostType DEF WriteCompletes
<1>4. /\ e.open = c.open /\ e.reading = c.reading /\ e.writing = 0
      /\ e.write_bufs = c.write_bufs /\ e.armed = c.armed
  BY <1>1, PostFields DEF Channels, Sound, Core
<1>5. /\ Queued(e, Reads) = Queued(c, Reads)
      /\ Queued(e, {"timer"}) = Queued(c, {"timer"})
      /\ Single(c, Reads) => Single(e, Reads)
      /\ Queued(e, {"written"}) # {}
      /\ Queued(c, {"written"}) = {} => Single(e, {"written"})
  <2>1. \A hs : Queued(d, hs) = Queued(c, hs)
                /\ (Single(d, hs) <=> Single(c, hs))
    BY <1>1, SameQueue
  <2> HIDE DEF d, f
  <2> QED BY <1>1, <1>2, <2>1, PostQueued DEF Reads
<1>6. Undisturbed(c) => Undisturbed(e)
  BY <1>1, <1>2, PostUndisturbed, SameQueue
<1> HIDE DEF d, f, e
<1>7. Core(e)
  BY <1>1, <1>3, <1>4, <1>5
     DEF Sound, Core, OneRead, OneWrite, WriteUnderway
<1>8. n = 0 => Healthy(e)
  BY <1>4, <1>5, <1>6 DEF Sound, Healthy, ReadUnderway, WriteUnderway,
                          TimerUnderway
<1> QED BY <1>3, <1>7, <1>8 DEF Sound

LEMMA TimerExpiresSound ==
  ASSUME NEW c, NEW n, Sound(c, n)
  PROVE  Sound(TimerExpires(c), n)
<1> DEFINE d == [c EXCEPT !.armed = FALSE]
           f == Handler("timer", "ok", NoMsg)
           e == Post(d, f)
<1>1. d \in Channels /\ d.ioq = c.ioq
  BY DEF Sound, Core, Channels
<1>2. f \in Handlers /\ f.h = "timer" /\ f.ec # "aborted"
  BY DEF Handler, Handlers
<1>3. e = TimerExpires(c) /\ e \in Channels
  BY <1>1, <1>2, PostType DEF TimerExpires
<1>4. /\ e.open = c.open /\ e.reading = c.reading /\ e.writing = c.writing
      /\ e.write_bufs = c.write_bufs
  BY <1>1, PostFields DEF Channels, Sound, Core
<1>5. /\ Queued(e, Reads) = Queued(c, Reads)
      /\ Single(c, Reads) => Single(e, Reads)
      /\ Queued(e, {"written"}) = Queued(c, {"written"})
      /\ Single(c, {"written"}) => Single(e, {"written"})
      /\ Queued(e, {"timer"}) # {}
  <2>1. \A hs : Queued(d, hs) = Queued(c, hs)
                /\ (Single(d, hs) <=> Single(c, hs))
    BY <1>1, SameQueue
  <2> HIDE DEF d, f
  <2> QED BY <1>1, <1>2, <2>1, PostQueued DEF Reads
<1>6. Undisturbed(c) => Undisturbed(e)
  BY <1>1, <1>2, PostUndisturbed, SameQueue
<1> HIDE DEF d, f, e
<1>7. Core(e)
  BY <1>3, <1>4, <1>5 DEF Sound, Core, OneRead, OneWrite, WriteUnderway
<1>8. n = 0 => Healthy(e)
  BY <1>4, <1>5, <1>6 DEF Sound, Healthy, ReadUnderway, WriteUnderway,
                          TimerUnderway
<1> QED BY <1>3, <1>7, <1>8 DEF Sound

\* Posting a closure, a cancelled timer or the like disturbs no read or write.
LEMMA PostCore ==
  ASSUME NEW c, Core(c), NEW f \in Handlers,
         f.h \notin Reads, f.h # "written"
  PROVE  Core(Post(c, f))
<1> DEFINE e == Post(c, f)
<1>1. e \in Channels
  BY PostType DEF Core
<1>2. /\ e.reading = c.reading /\ e.writing = c.writing
      /\ e.write_bufs = c.write_bufs
  BY PostFields DEF Core
<1>3. /\ Queued(e, Reads) = Queued(c, Reads)
      /\ Single(c, Reads) => Single(e, Reads)
      /\ Queued(e, {"written"}) = Queued(c, {"written"})
      /\ Single(c, {"written"}) => Single(e, {"written"})
  BY PostQueued DEF Core
<1> HIDE DEF e
<1>4. Core(e)
  BY <1>1, <1>2, <1>3 DEF Core, OneRead, OneWrite, WriteUnderway
<1> QED BY <1>4 DEF e

LEMMA PostWriteSound ==
  ASSUME NEW c, NEW n, Sound(c, n), NEW m \in Out
  PROVE  Sound(Post(c, Handler("write", "ok", m)), n)
<1> DEFINE f == Handler("write", "ok", m)
           e == Post(c, f)
<1>1. f \in Handlers /\ f.h = "write" /\ f.ec = "ok"
  BY DEF Handler, Handlers
<1> HIDE DEF f
<1>2. Core(e)
  BY <1>1, PostCore DEF Sound, Reads
<1>3. n = 0 => Healthy(e)
  <2>1. /\ e.open = c.open /\ e.reading = c.reading /\ e.writing = c.writing
        /\ e.write_bufs = c.write_bufs /\ e.armed = c.armed
    BY PostFields DEF Sound, Core
  <2>2. /\ Queued(e, Reads) = Queued(c, Reads)
        /\ Queued(e, {"written"}) = Queued(c, {"written"})
        /\ Queued(e, {"timer"}) = Queued(c, {"timer"})
    BY <1>1, PostQueued DEF Sound, Core, Reads
  <2>3. Undisturbed(c) => Undisturbed(e)
    BY <1>1, PostUndisturbed DEF Sound, Core
  <2> HIDE DEF e
  <2> QED BY <2>1, <2>2, <2>3 DEF Sound, Healthy, ReadUnderway,
                                  WriteUnderway, TimerUnderway
<1> QED BY <1>2, <1>3 DEF Sound, f

LEMMA PopCore ==
  ASSUME NEW c, Core(c), c.ioq # <<>>
  PROVE  Core(Pop(c))
<1> DEFINE e == Pop(c)
<1>1. e \in Channels
  BY PopType DEF Core
<1>2. /\ e.reading = c.reading /\ e.writing = c.writing
      /\ e.write_bufs = c.write_bufs
  BY PopFields DEF Core
<1>3. \A hs : /\ Single(c, hs) => Single(e, hs)
              /\ Queued(c, hs) = {} => Queued(e, hs) = {}
  BY PopQueued DEF Core
<1> HIDE DEF e
<1>4. Core(e)
  BY <1>1, <1>2, <1>3 DEF Core, OneRead, OneWrite, WriteUnderway
<1> QED BY <1>4 DEF e

LEMMA TimerLoopCore ==
  ASSUME NEW c, Core(c)
  PROVE  Core(TimerLoop(c))
<1> DEFINE e == TimerLoop(c)
<1>1. /\ e \in Channels /\ e.ioq = c.ioq
      /\ e.reading = c.reading /\ e.writing = c.writing
      /\ e.write_bufs = c.write_bufs
  BY DEF Core, Channels, TimerLoop
<1> HIDE DEF e
<1>2. Core(e)
  BY <1>1, SameQueue DEF Core, OneRead, OneWrite, WriteUnderway
<1> QED BY <1>2 DEF e

LEMMA CloseCore ==
  ASSUME NEW c, Core(c)
  PROVE  Core(Stop(c)) /\ Core(Close(c))
<1> DEFINE d == [c EXCEPT !.armed = FALSE]
<1>1. /\ d \in Channels /\ d.ioq = c.ioq
      /\ d.reading = c.reading /\ d.writing = c.writing
      /\ d.write_bufs = c.write_bufs
  BY DEF Core, Channels
<1>2. Core(d)
  <2> HIDE DEF d
  <2> QED BY <1>1, SameQueue DEF Core, OneRead, OneWrite, WriteUnderway
<1>3. /\ Handler("timer", "aborted", NoMsg) \in Handlers
      /\ Handler("timer", "aborted", NoMsg).h = "timer"
      /\ Handler("close", "ok", NoMsg) \in Handlers
      /\ Handler("close", "ok", NoMsg).h = "close"
  BY DEF Handler, Handlers
<1>4. "timer" \notin Reads /\ "close" \notin Reads
  BY DEF Reads
<1>5. Core(Stop(c))
  BY <1>2, <1>3, <1>4, PostCore DEF Stop
<1> QED BY <1>3, <1>4, <1>5, PostCore DEF Close

LEMMA AsyncReadSound ==
  ASSUME NEW c \in Channels, NEW part \in Reads,
         ~ReadUnderway(c)
  PROVE  LET e == AsyncRead(c, part) IN
         /\ e \in Channels
         /\ OneRead(e) /\ ReadUnderway(e)
         /\ e.open = c.open /\ e.writing = c.writing
         /\ e.write_bufs = c.write_bufs /\ e.armed = c.armed
         /\ Queued(e, {"written"}) = Queued(c, {"written"})
         /\ Queued(e, {"timer"}) = Queued(c, {"timer"})
         /\ Single(c, {"written"}) => Single(e, {"written"})
         /\ Undisturbed(c) => Undisturbed(e)
<1> DEFINE f == Handler(part, "error", NoMsg)
           e == AsyncRead(c, part)
<1>1. f \in Handlers /\ f.h \in Reads /\ f.ec = "error"
      /\ f.h \notin {"written", "timer", "close"}
  BY DEF Handler, Handlers, Reads
<1>2. e \in Channels
  BY AsyncReadType DEF Reads
<1>3. Queued(c, Reads) = {} /\ c.reading = "none"
  BY DEF ReadUnderway
<1>4. part # "none"
  BY DEF Reads
<1>5. CASE c.open
  <2>1. e = [c EXCEPT !.reading = part]
    BY <1>5 DEF AsyncRead
  <2>2. /\ e.ioq = c.ioq /\ e.open = c.open /\ e.reading = part
        /\ e.writing = c.writing /\ e.write_bufs = c.write_bufs
        /\ e.armed = c.armed
    BY <2>1 DEF Channels
  <2>3. /\ \A hs : Queued(e, hs) = Queued(c, hs)
        /\ \A hs : Single(e, hs) <=> Single(c, hs)
        /\ Undisturbed(e) <=> Undisturbed(c)
    <3> HIDE DEF e
    <3> QED BY <2>2, SameQueue
  <2>4. Single(e, Reads)
    BY <1>3, <2>3 DEF Single
  <2> HIDE DEF e
  <2>5. OneRead(e) /\ ReadUnderway(e)
    BY <1>3, <1>4, <2>2, <2>3, <2>4 DEF OneRead, ReadUnderway
  <2> QED BY <1>2, <2>2, <2>3, <2>5 DEF e
<1>6. CASE ~c.open
  <2>1. e = Post(c, f)
    BY <1>6 DEF AsyncRead
  <2> HIDE DEF e, f
  <2>2. /\ e.open = c.open /\ e.reading = "none"
        /\ e.writing = c.writing /\ e.write_bufs = c.write_bufs
        /\ e.armed = c.armed
    BY <1>3, <2>1, PostFields
  <2>3. /\ Queued(e, {"written"}) = Queued(c, {"written"})
        /\ Queued(e, {"timer"}) = Queued(c, {"timer"})
        /\ Single(c, {"written"}) => Single(e, {"written"})
        /\ Queued(e, Reads) # {} /\ Single(e, Reads)
    BY <1>1, <1>3, <2>1, PostQueued
  <2>4. Undisturbed(c) => Undisturbed(e)
    BY <1>1, <2>1, PostUndisturbed
  <2>5. OneRead(e) /\ ReadUnderway(e)
    BY <2>2, <2>3 DEF OneRead, ReadUnderway
  <2> QED BY <1>2, <2>2, <2>3, <2>4, <2>5 DEF e
<1>7. c.open \in BOOLEAN
  BY DEF Channels
<1> QED BY <1>5, <1>6, <1>7

LEMMA ResumeReadSound ==
  ASSUME NEW c, NEW n, Sound(c, n), NEW h \in Reads, NEW part \in Reads,
         Ready(c, h, "ok")
  PROVE  Sound(AsyncRead(Pop(c), part), n)
<1> DEFINE d == Pop(c)
           e == AsyncRead(d, part)
<1>1. /\ c \in Channels /\ c.ioq # <<>> /\ d \in Channels /\ Core(d)
      /\ Head(c.ioq).h = h
  BY NextHandler, PopCore DEF Sound, Core
<1>2. /\ d.open = c.open /\ d.reading = c.reading /\ d.writing = c.writing
      /\ d.write_bufs = c.write_bufs /\ d.armed = c.armed
  BY <1>1, PopFields
<1>3. h \in Reads /\ h \notin {"written"} /\ h \notin {"timer"}
  BY DEF Reads
<1>4. /\ Queued(d, {"written"}) = {} <=> Queued(c, {"written"}) = {}
      /\ Queued(d, {"timer"}) = {} <=> Queued(c, {"timer"}) = {}
      /\ Single(c, Reads) => Queued(d, Reads) = {}
  BY <1>1, <1>3, PopQueued
<1>5. Queued(c, Reads) # {}
  <2>1. c.ioq \in Seq(Handlers)
    BY <1>1 DEF Channels
  <2>2. 1 \in DOMAIN c.ioq /\ c.ioq[1] = Head(c.ioq)
    BY <1>1, <2>1
  <2> QED BY <1>1, <2>2 DEF Queued
<1>6. ~ReadUnderway(d)
  BY <1>2, <1>4, <1>5 DEF Sound, Core, OneRead, ReadUnderway
<1>7. Undisturbed(c) => Undisturbed(d)
  BY <1>1, PopUndisturbed
<1> HIDE DEF d
<1>8. /\ e \in Channels
      /\ OneRead(e) /\ ReadUnderway(e)
      /\ e.open = d.open /\ e.writing = d.writing
      /\ e.write_bufs = d.write_bufs /\ e.armed = d.armed
      /\ Queued(e, {"written"}) = Queued(d, {"written"})
      /\ Queued(e, {"timer"}) = Queued(d, {"timer"})
      /\ Single(d, {"written"}) => Single(e, {"written"})
      /\ Undisturbed(d) => Undisturbed(e)
  BY <1>1, <1>6, AsyncReadSound
<1> HIDE DEF e
<1>9. Core(e)
  BY <1>1, <1>8 DEF Core, OneWrite, WriteUnderway
<1>10. n = 0 => Healthy(e)
  BY <1>2, <1>4, <1>7, <1>8 DEF Sound, Healthy, WriteUnderway,
                                TimerUnderway
<1> QED BY <1>9, <1>10 DEF Sound, d, e

\* Nothing is aborted, and no socket closed, before Close is called.
LEMMA AbortedSound ==
  ASSUME NEW c, NEW n, Sound(c, n), NEW h, Ready(c, h, "aborted")
  PROVE  Sound(Pop(c), n)
<1>1. /\ c \in Channels /\ c.ioq # <<>> /\ Head(c.ioq).ec = "aborted"
  BY NextHandler DEF Sound, Core
<1>2. n # 0
  BY <1>1, PopUndisturbed DEF Sound, Healthy
<1> QED BY <1>1, <1>2, PopCore DEF Sound

LEMMA RearmSound ==
  ASSUME NEW c, NEW n, Sound(c, n), Ready(c, "timer", "ok")
  PROVE  Sound(TimerLoop(Pop(c)), n)
<1> DEFINE d == Pop(c)
           e == TimerLoop(d)
<1>1. /\ c \in Channels /\ c.ioq # <<>> /\ d \in Channels /\ Core(d)
      /\ Head(c.ioq).h = "timer"
  BY NextHandler, PopCore DEF Sound, Core
<1>2. Core(e)
  BY <1>1, TimerLoopCore
<1>3. n = 0 => Healthy(e)
  <2>1. /\ d.open = c.open /\ d.reading = c.reading /\ d.writing = c.writing
        /\ d.write_bufs = c.write_bufs
    BY <1>1, PopFields
  <2>2. "timer" \notin {"written"} /\ "timer" \notin Reads
    BY DEF Reads
  <2>3. /\ Queued(d, {"written"}) = {} <=> Queued(c, {"written"}) = {}
        /\ Queued(d, Reads) = {} <=> Queued(c, Reads) = {}
    BY <1>1, <2>2, PopQueued
  <2>4. Undisturbed(c) => Undisturbed(d)
    BY <1>1, PopUndisturbed
  <2> HIDE DEF d
  <2>5. /\ e.open = d.open /\ e.reading = d.reading /\ e.writing = d.writing
        /\ e.write_bufs = d.write_bufs /\ e.armed = TRUE /\ e.ioq = d.ioq
    BY <1>1 DEF TimerLoop, Channels
  <2> HIDE DEF e
  <2>6. /\ \A hs : Queued(e, hs) = Queued(d, hs)
        /\ Undisturbed(d) => Undisturbed(e)
    BY <2>5, SameQueue
  <2> QED BY <2>1, <2>3, <2>4, <2>5, <2>6
          DEF Sound, Healthy, ReadUnderway, WriteUnderway, TimerUnderway
<1> QED BY <1>2, <1>3 DEF Sound

LEMMA DoWriteSound ==
  ASSUME NEW c \in Channels, ~WriteUnderway(c), c.write_bufs # <<>>
  PROVE  LET e == DoWrite(c) IN
         /\ e \in Channels
         /\ OneWrite(e) /\ WriteUnderway(e)
         /\ e.open = c.open /\ e.reading = c.reading
         /\ e.write_bufs = c.write_bufs /\ e.armed = c.armed
         /\ Queued(e, Reads) = Queued(c, Reads)
         /\ Queued(e, {"timer"}) = Queued(c, {"timer"})
         /\ Single(c, Reads) => Single(e, Reads)
         /\ Undisturbed(c) => Undisturbed(e)
<1> DEFINE f == Handler("written", "error", NoMsg)
           e == DoWrite(c)
<1>1. /\ f \in Handlers /\ f.h = "written" /\ f.ec = "error"
      /\ "written" \notin Reads
  BY DEF Handler, Handlers, Reads
<1>2. e \in Channels
  BY DoWriteType
<1>3. Queued(c, {"written"}) = {} /\ c.writing = 0 /\ c.open \in BOOLEAN
  BY DEF WriteUnderway, Channels
<1>4. CASE c.open
  <2>1. e = [c EXCEPT !.writing = @ + 1]
    BY <1>4 DEF DoWrite
  <2>2. /\ e.ioq = c.ioq /\ e.open = c.open /\ e.reading = c.reading
        /\ e.writing = 1 /\ e.write_bufs = c.write_bufs
        /\ e.armed = c.armed
    BY <1>3, <2>1 DEF Channels
  <2>3. /\ \A hs : Queued(e, hs) = Queued(c, hs)
        /\ \A hs : Single(e, hs) <=> Single(c, hs)
        /\ Undisturbed(e) <=> Undisturbed(c)
    <3> HIDE DEF e
    <3> QED BY <2>2, SameQueue
  <2>4. Single(e, {"written"})
    BY <1>3, <2>3 DEF Single
  <2> HIDE DEF e
  <2>5. OneWrite(e) /\ WriteUnderway(e)
    BY <1>3, <2>2, <2>3, <2>4 DEF OneWrite, WriteUnderway
  <2> QED BY <1>2, <2>2, <2>3, <2>5 DEF e
<1>5. CASE ~c.open
  <2>1. e = Post(c, f)
    BY <1>5 DEF DoWrite
  <2> HIDE DEF e, f
  <2>2. /\ e.open = c.open /\ e.reading = c.reading
        /\ e.writing = 0 /\ e.write_bufs = c.write_bufs
        /\ e.armed = c.armed
    BY <1>3, <2>1, PostFields
  <2>3. /\ Queued(e, Reads) = Queued(c, Reads)
        /\ Queued(e, {"timer"}) = Queued(c, {"timer"})
        /\ Single(c, Reads) => Single(e, Reads)
        /\ Queued(e, {"written"}) # {} /\ Single(e, {"written"})
    BY <1>1, <1>3, <2>1, PostQueued
  <2>4. Undisturbed(c) => Undisturbed(e)
    BY <1>1, <2>1, PostUndisturbed
  <2>5. OneWrite(e) /\ WriteUnderway(e)
    BY <2>2, <2>3 DEF OneWrite, WriteUnderway
  <2> QED BY <1>2, <2>2, <2>3, <2>4, <2>5 DEF e
<1> QED BY <1>3, <1>4, <1>5

\* pop_front, and the next buffer if there is one.
LEMMA WrittenSound ==
  ASSUME NEW c, NEW n, Sound(c, n), Ready(c, "written", "ok")
  PROVE  Sound(PopWrite(Pop(c)), n)
<1> DEFINE d == Pop(c)
           p == [d EXCEPT !.write_bufs = Tail(@)]
           e == DoWrite(p)
<1>1. /\ c \in Channels /\ c.ioq # <<>> /\ d \in Channels /\ Core(d)
      /\ Head(c.ioq).h = "written"
  BY NextHandler, PopCore DEF Sound, Core
<1>2. /\ d.open = c.open /\ d.reading = c.reading /\ d.writing = c.writing
      /\ d.write_bufs = c.write_bufs /\ d.armed = c.armed
  BY <1>1, PopFields
<1>3. Queued(c, {"written"}) # {}
  <2>1. c.ioq \in Seq(Handlers)
    BY <1>1 DEF Channels
  <2>2. 1 \in DOMAIN c.ioq /\ c.ioq[1] = Head(c.ioq)
    BY <1>1, <2>1
  <2> QED BY <1>1, <2>2 DEF Queued
<1>4. "written" \notin Reads /\ "written" \notin {"timer"}
  BY DEF Reads
<1>5. /\ Queued(d, Reads) = {} <=> Queued(c, Reads) = {}
      /\ Queued(d, {"timer"}) = {} <=> Queued(c, {"timer"}) = {}
      /\ Single(c, {"written"}) => Queued(d, {"written"}) = {}
  BY <1>1, <1>4, PopQueued
<1>6. /\ c.write_bufs # <<>> /\ d.writing = 0
      /\ Queued(d, {"written"}) = {}
  BY <1>2, <1>3, <1>5
     DEF Sound, Core, OneWrite, WriteUnderway, Channels
<1>7. Undisturbed(c) => Undisturbed(d)
  BY <1>1, PopUndisturbed
<1> HIDE DEF d
<1>8. /\ p \in Channels /\ p.ioq = d.ioq
      /\ p.open = d.open /\ p.reading = d.reading /\ p.writing = d.writing
      /\ p.armed = d.armed
  <2>1. Tail(d.write_bufs) \in Seq(Out)
    BY <1>1, <1>2, <1>6 DEF Channels
  <2>2. p = [d EXCEPT !.write_bufs = Tail(d.write_bufs)]
    BY <1>1 DEF Channels
  <2> QED BY <1>1, <2>1, <2>2 DEF Channels
<1>9. PopWrite(d) = IF p.write_bufs = <<>> THEN p ELSE e
  BY DEF PopWrite
<1> HIDE DEF p
<1>10. /\ \A hs : Queued(p, hs) = Queued(d, hs)
       /\ \A hs : Single(p, hs) <=> Single(d, hs)
       /\ Undisturbed(p) <=> Undisturbed(d)
  BY <1>8, SameQueue
<1>11. ~WriteUnderway(p)
  BY <1>6, <1>8, <1>10 DEF WriteUnderway
<1>12. OneRead(p) /\ OneWrite(p)
  BY <1>1, <1>8, <1>10 DEF Core, OneRead, OneWrite
<1>13. n = 0 => /\ p.open /\ Undisturbed(p) /\ ReadUnderway(p)
                /\ TimerUnderway(p)
  BY <1>2, <1>5, <1>7, <1>8, <1>10
     DEF Sound, Healthy, ReadUnderway, TimerUnderway
<1>14. CASE p.write_bufs = <<>>
  BY <1>8, <1>9, <1>11, <1>12, <1>13, <1>14 DEF Sound, Core, Healthy, d
<1>15. CASE p.write_bufs # <<>>
  <2>1. /\ e \in Channels
        /\ OneWrite(e) /\ WriteUnderway(e)
        /\ e.open = p.open /\ e.reading = p.reading
        /\ e.write_bufs = p.write_bufs /\ e.armed = p.armed
        /\ Queued(e, Reads) = Queued(p, Reads)
        /\ Queued(e, {"timer"}) = Queued(p, {"timer"})
        /\ Single(p, Reads) => Single(e, Reads)
        /\ Undisturbed(p) => Undisturbed(e)
    BY <1>8, <1>11, <1>15, DoWriteSound
  <2> HIDE DEF e
  <2>2. Core(e)
    BY <1>12, <1>15, <2>1 DEF Core, OneRead
  <2>3. n = 0 => Healthy(e)
    BY <1>13, <2>1 DEF Healthy, ReadUnderway, TimerUnderway
  <2> QED BY <1>9, <1>15, <2>2, <2>3 DEF Sound, d
<1> QED BY <1>14, <1>15

\* The closure of Write: a write starts exactly when none is in progress.
LEMMA RunWriteSound ==
  ASSUME NEW c, NEW n, Sound(c, n), Ready(c, "write", "ok")
  PROVE  Sound(PushWrite(Pop(c), Head(c.ioq).m), n)
<1> DEFINE d == Pop(c)
           m == Head(c.ioq).m
           p == [d EXCEPT !.write_bufs = Append(@, m)]
           e == DoWrite(p)
<1>1. /\ c \in Channels /\ c.ioq # <<>> /\ d \in Channels /\ Core(d)
      /\ Head(c.ioq).h = "write" /\ Head(c.ioq) \in Handlers
  BY NextHandler, PopCore DEF Sound, Core
<1>2. m \in Out
  BY <1>1 DEF Handlers
<1>3. /\ d.open = c.open /\ d.reading = c.reading /\ d.writing = c.writing
      /\ d.write_bufs = c.write_bufs /\ d.armed = c.armed
  BY <1>1, PopFields
<1>4. "write" \notin Reads /\ "write" \notin {"timer"}
      /\ "write" \notin {"written"}
  BY DEF Reads
<1>5. /\ Queued(d, Reads) = {} <=> Queued(c, Reads) = {}
      /\ Queued(d, {"timer"}) = {} <=> Queued(c, {"timer"}) = {}
      /\ Queued(d, {"written"}) = {} <=> Queued(c, {"written"}) = {}
  BY <1>1, <1>4, PopQueued
<1>6. Undisturbed(c) => Undisturbed(d)
  BY <1>1, PopUndisturbed
<1> HIDE DEF d, m
<1>7. /\ p \in Channels /\ p.ioq = d.ioq
      /\ p.open = d.open /\ p.reading = d.reading /\ p.writing = d.writing
      /\ p.armed = d.armed /\ p.write_bufs # <<>>
  <2>1. /\ Append(d.write_bufs, m) \in Seq(Out)
        /\ Append(d.write_bufs, m) # <<>>
    <3>1. d.write_bufs \in Seq(Out)
      BY <1>1 DEF Channels
    <3>2. Len(Append(d.write_bufs, m)) = Len(d.write_bufs) + 1
          /\ Len(d.write_bufs) \in Nat
      BY <1>2, <3>1
    <3>3. Append(d.write_bufs, m) \in Seq(Out)
      BY <1>2, <3>1
    <3> QED BY <3>2, <3>3
  <2>2. p = [d EXCEPT !.write_bufs = Append(d.write_bufs, m)]
    BY <1>1 DEF Channels
  <2> QED BY <1>1, <2>1, <2>2 DEF Channels
<1>8. PushWrite(d, m) = IF d.write_bufs = <<>> THEN e ELSE p
  BY DEF PushWrite
<1> HIDE DEF p
<1>9. /\ \A hs : Queued(p, hs) = Queued(d, hs)
      /\ \A hs : Single(p, hs) <=> Single(d, hs)
      /\ Undisturbed(p) <=> Undisturbed(d)
  BY <1>7, SameQueue
<1>10. OneRead(p) /\ OneWrite(p)
  BY <1>1, <1>7, <1>9 DEF Core, OneRead, OneWrite
<1>11. n = 0 => /\ p.open /\ Undisturbed(p) /\ ReadUnderway(p)
                /\ TimerUnderway(p)
  BY <1>3, <1>5, <1>6, <1>7, <1>9
     DEF Sound, Healthy, ReadUnderway, TimerUnderway
<1>12. CASE d.write_bufs # <<>>
  <2>1. n = 0 => WriteUnderway(p)
    BY <1>3, <1>5, <1>7, <1>9, <1>12 DEF Sound, Healthy, WriteUnderway
  <2> QED BY <1>7, <1>8, <1>10, <1>11, <1>12, <2>1
          DEF Sound, Core, Healthy, d, m
<1>13. CASE d.write_bufs = <<>>
  <2>1. ~WriteUnderway(p)
    BY <1>1, <1>7, <1>9, <1>13 DEF Core, WriteUnderway
  <2>2. /\ e \in Channels
        /\ OneWrite(e) /\ WriteUnderway(e)
        /\ e.open = p.open /\ e.reading = p.reading
        /\ e.write_bufs = p.write_bufs /\ e.armed = p.armed
        /\ Queued(e, Reads) = Queued(p, Reads)
        /\ Queued(e, {"timer"}) = Queued(p, {"timer"})
        /\ Single(p, Reads) => Single(e, Reads)
        /\ Undisturbed(p) => Undisturbed(e)
    BY <1>7, <2>1, DoWriteSound
  <2> HIDE DEF e
  <2>3. Core(e)
    BY <1>7, <1>10, <2>2 DEF Core, OneRead
  <2>4. n = 0 => Healthy(e)
    BY <1>11, <2>2 DEF Healthy, ReadUnderway, TimerUnderway
  <2> QED BY <1>8, <1>13, <2>3, <2>4 DEF Sound, d, m
<1> QED BY <1>12, <1>13

\* The closure of Close: what is in progress is aborted, once.
LEMMA RunCloseSound ==
  ASSUME NEW c, NEW n, Sound(c, n), Ready(c, "close", "ok")
  PROVE  Sound(CloseSocket(Pop(c)), n)
<1> DEFINE d == Pop(c)
           f == Handler(d.reading, "aborted", NoMsg)
           g == Handler("written", "aborted", NoMsg)
           r == IF d.reading = "none" THEN d ELSE Post(d, f)
           w == IF d.writing = 0 THEN r ELSE Post(r, g)
           e == [w EXCEPT !.open = FALSE, !.reading = "none", !.writing = 0]
<1>1. n # 0 /\ d \in Channels /\ Core(d)
  BY NextHandler, PopCore, PopUndisturbed DEF Sound, Core, Healthy
<1>2. d.reading # "none" =>
        f \in Handlers /\ f.h \in Reads /\ f.h \notin {"written"}
  BY <1>1 DEF Channels, Handler, Handlers, Reads
<1>3. g \in Handlers /\ g.h \notin Reads /\ g.h \in {"written"}
  BY DEF Handler, Handlers, Reads
<1>4. CloseSocket(d) = e
  BY DEF CloseSocket
<1> HIDE DEF d, f, g
<1>5. /\ r \in Channels /\ r.writing = d.writing
      /\ r.write_bufs = d.write_bufs
      /\ Single(r, Reads) /\ Single(r, {"written"})
      /\ Queued(r, {"written"}) = Queued(d, {"written"})
  <2>1. CASE d.reading = "none"
    BY <1>1, <2>1 DEF Core, OneRead, OneWrite
  <2>2. CASE d.reading # "none"
    <3>1. Queued(d, Reads) = {}
      BY <1>1, <2>2 DEF Core, OneRead
    <3>2. Post(d, f) \in Channels
      BY <1>1, <1>2, <2>2, PostType
    <3>3. /\ Single(Post(d, f), Reads)
          /\ Queued(Post(d, f), {"written"}) = Queued(d, {"written"})
          /\ Single(d, {"written"}) => Single(Post(d, f), {"written"})
      BY <1>1, <1>2, <2>2, <3>1, PostQueued
    <3>4. /\ Post(d, f).writing = d.writing
          /\ Post(d, f).write_bufs = d.write_bufs
      BY <1>1, PostFields
    <3> QED BY <1>1, <2>2, <3>2, <3>3, <3>4 DEF Core, OneWrite
  <2> QED BY <2>1, <2>2
<1> HIDE DEF r
<1>6. /\ w \in Channels /\ w.write_bufs = d.write_bufs
      /\ Single(w, Reads) /\ Single(w, {"written"})
      /\ Queued(w, {"written"}) # {} => WriteUnderway(d)
  <2>1. CASE d.writing = 0
    BY <1>5, <2>1 DEF WriteUnderway
  <2>2. CASE d.writing # 0
    <3>1. d.writing = 1 /\ Queued(d, {"written"}) = {}
      BY <1>1, <2>2 DEF Core, OneWrite, Channels
    <3>2. Post(r, g) \in Channels
      BY <1>3, <1>5, PostType
    <3>3. /\ Single(r, Reads) => Single(Post(r, g), Reads)
          /\ Single(Post(r, g), {"written"})
      BY <1>3, <1>5, <3>1, PostQueued
    <3>4. Post(r, g).write_bufs = r.write_bufs
      BY <1>5, PostFields
    <3> QED BY <1>5, <2>2, <3>1, <3>2, <3>3, <3>4 DEF WriteUnderway
  <2> QED BY <2>1, <2>2
<1> HIDE DEF w
<1>7. /\ e \in Channels /\ e.ioq = w.ioq /\ e.write_bufs = w.write_bufs
      /\ e.reading = "none" /\ e.writing = 0
  BY <1>6 DEF Channels
<1> HIDE DEF e
<1>8. /\ \A hs : Queued(e, hs) = Queued(w, hs)
      /\ \A hs : Single(e, hs) <=> Single(w, hs)
  BY <1>7, SameQueue
<1>9. Core(e)
  BY <1>1, <1>6, <1>7, <1>8
     DEF Core, OneRead, OneWrite, WriteUnderway
<1> QED BY <1>1, <1>4, <1>9 DEF Sound, d

\* A new connection.
LEMMA ConnectedSound ==
  /\ Core(Connected)
  /\ Sound(AsyncRead(TimerLoop(Connected), "header"), 0)
<1> DEFINE c == Connected
           e == AsyncRead(TimerLoop(c), "header")
<1>1. /\ c \in Channels
      /\ c.open = TRUE /\ c.reading = "none" /\ c.writing = 0
      /\ c.write_bufs = <<>> /\ c.ioq = <<>>
  BY DEF Connected, Channels
<1>2. /\ e \in Channels
      /\ e.open = TRUE /\ e.reading = "header" /\ e.writing = 0
      /\ e.write_bufs = <<>> /\ e.armed = TRUE /\ e.ioq = <<>>
  <2>1. /\ TimerLoop(c) = [c EXCEPT !.armed = TRUE]
        /\ e = [TimerLoop(c) EXCEPT !.reading = "header"]
    BY <1>1 DEF Channels, TimerLoop, AsyncRead
  <2> HIDE DEF c, e
  <2> QED BY <1>1, <2>1 DEF Channels
<1> HIDE DEF c, e
<1>3. \A hs : Queued(c, hs) = {} /\ Queued(e, hs) = {}
  BY <1>1, <1>2 DEF Queued
<1>4. Core(c)
  BY <1>1, <1>3 DEF Core, OneRead, OneWrite, WriteUnderway, Single
<1>5. Core(e)
  BY <1>2, <1>3 DEF Core, OneRead, OneWrite, WriteUnderway, Single
<1>6. Healthy(e)
  BY <1>2, <1>3 DEF Healthy, ReadUnderway, TimerUnderway, Undisturbed
<1> QED BY <1>4, <1>5, <1>6 DEF Sound, c, e

-----------------------------------------------------------------------------
(* How often a channel can still be closed.  Close has three callers, the   *)
(* chains of reads, writes and waits; each call is the end of its chain.    *)

IsWait(f) == f.h = "timer" /\ f.ec = "ok"

Waits(c) == {i \in DOMAIN c.ioq : IsWait(c.ioq[i])}

\* The timer waits once, or the handler of a wait that expired is queued once.
OneWait(c) ==
  /\ \A i, j \in Waits(c) : i = j
  /\ c.armed => Waits(c) = {}

CanRead(c) == ReadUnderway(c)

\* A failed write leaves its buffer in the queue, and nothing is written again.
CanWrite(c) == c.write_bufs = <<>> \/ WriteUnderway(c)

CanWait(c) == c.armed \/ Waits(c) # {}

CanClose(c) ==
  (IF CanRead(c) THEN 1 ELSE 0) + (IF CanWrite(c) THEN 1 ELSE 0)
    + (IF CanWait(c) THEN 1 ELSE 0)

\* A channel that has been closed n times.
Limited(c, n) == n + CanClose(c) <= 3

\* No chain of d is new.
NoMore(d, c) ==
  /\ CanRead(d) => CanRead(c)
  /\ CanWrite(d) => CanWrite(c)
  /\ CanWait(d) => CanWait(c)

LEMMA LimitedNoMore ==
  ASSUME NEW c, NEW d, NEW n \in Nat, Limited(c, n), NoMore(d, c)
  PROVE  Limited(d, n)
  BY DEF Limited, CanClose, NoMore

\* A chain ends with the call of Close.
LEMMA LimitedClose ==
  ASSUME NEW c, NEW d, NEW n \in Nat, Limited(c, n), NoMore(d, c),
         \/ CanRead(c) /\ ~CanRead(d)
         \/ CanWrite(c) /\ ~CanWrite(d)
         \/ CanWait(c) /\ ~CanWait(d)
  PROVE  Limited(d, n + 1)
  BY DEF Limited, CanClose, NoMore

LEMMA PostWaits ==
  ASSUME NEW c \in Channels, NEW f \in Handlers
  PROVE  /\ ~IsWait(f) => Waits(Post(c, f)) = Waits(c)
         /\ Waits(c) = {} => \A i, j \in Waits(Post(c, f)) : i = j
<1>1. c.ioq \in Seq(Handlers)
  BY DEF Channels
<1> DEFINE n == Len(c.ioq)
           q == Post(c, f).ioq
<1>2. n \in Nat /\ DOMAIN c.ioq = 1 .. n
  BY <1>1
<1>3. q = Append(c.ioq, f)
  BY DEF Post, Channels
<1>4. /\ DOMAIN q = 1 .. n + 1
      /\ \A i \in 1 .. n : q[i] = c.ioq[i]
      /\ q[n + 1] = f
  BY <1>1, <1>3
<1> HIDE DEF n, q
<1>5. Waits(Post(c, f)) = {i \in 1 .. n + 1 : IsWait(q[i])}
  BY <1>4 DEF Waits, q
<1>6. Waits(c) = {i \in 1 .. n : IsWait(c.ioq[i])}
  BY <1>2 DEF Waits
<1>7. ~IsWait(f) => Waits(Post(c, f)) = Waits(c)
  BY <1>2, <1>4, <1>5, <1>6
<1>8. Waits(c) = {} => \A i \in Waits(Post(c, f)) : i = n + 1
  BY <1>2, <1>4, <1>5, <1>6
<1> QED BY <1>7, <1>8

LEMMA PopWaits ==
  ASSUME NEW c \in Channels, c.ioq # <<>>
  PROVE  /\ (\A i, j \in Waits(c) : i = j) =>
              \A i, j \in Waits(Pop(c)) : i = j
         /\ (\A i, j \in Waits(c) : i = j) /\ IsWait(Head(c.ioq)) =>
              Waits(Pop(c)) = {}
         /\ Waits(c) = {} => Waits(Pop(c)) = {}
         /\ IsWait(Head(c.ioq)) => Waits(c) # {}
<1>1. c.ioq \in Seq(Handlers)
  BY DEF Channels
<1> DEFINE n == Len(c.ioq)
           q == Pop(c).ioq
<1>2. n \in Nat /\ n > 0 /\ DOMAIN c.ioq = 1 .. n
  BY <1>1
<1>3. q = Tail(c.ioq)
  BY DEF Pop, Channels
<1>4. /\ DOMAIN q = 1 .. n - 1
      /\ \A i \in 1 .. n - 1 : q[i] = c.ioq[i + 1]
      /\ Head(c.ioq) = c.ioq[1]
  BY <1>1, <1>3
<1> HIDE DEF n, q
<1>5. Waits(Pop(c)) = {i \in 1 .. n - 1 : IsWait(q[i])}
  BY <1>4 DEF Waits, q
<1>6. Waits(c) = {i \in 1 .. n : IsWait(c.ioq[i])}
  BY <1>2 DEF Waits
<1>7. \A i \in Waits(Pop(c)) : i \in Nat /\ i > 0 /\ i + 1 \in Waits(c)
  BY <1>2, <1>4, <1>5, <1>6
<1>8. IsWait(Head(c.ioq)) => 1 \in Waits(c)
  BY <1>2, <1>4, <1>6
<1> QED BY <1>7, <1>8

\* Every handler but an expiry of the timer can be posted.
LEMMA PostOneWait ==
  ASSUME NEW c \in Channels, OneWait(c), NEW f \in Handlers, ~IsWait(f)
  PROVE  OneWait(Post(c, f)) /\ (CanWait(Post(c, f)) <=> CanWait(c))
  BY PostWaits, PostFields DEF OneWait, CanWait

LEMMA PopLimited ==
  ASSUME NEW c, Core(c), OneWait(c), c.ioq # <<>>
  PROVE  /\ OneWait(Pop(c)) /\ NoMore(Pop(c), c)
         /\ Head(c.ioq).h \in Reads => CanRead(c) /\ ~CanRead(Pop(c))
         /\ Head(c.ioq).h = "written" => CanWrite(c) /\ ~CanWrite(Pop(c))
         /\ IsWait(Head(c.ioq)) => CanWait(c) /\ ~CanWait(Pop(c))
<1> DEFINE d == Pop(c)
<1>1. c \in Channels
  BY DEF Core
<1>2. /\ d.reading = c.reading /\ d.writing = c.writing
      /\ d.write_bufs = c.write_bufs /\ d.armed = c.armed
  BY <1>1, PopFields
<1>3. \A hs : /\ Queued(c, hs) = {} => Queued(d, hs) = {}
              /\ Head(c.ioq).h \in hs /\ Single(c, hs) => Queued(d, hs) = {}
  BY <1>1, PopQueued
<1>4. \A hs : Head(c.ioq).h \in hs => Queued(c, hs) # {}
  BY <1>1, PopQueued, HeadQueued
<1>5. OneWait(d) /\ (CanWait(d) => CanWait(c))
      /\ (IsWait(Head(c.ioq)) => CanWait(c) /\ ~CanWait(d))
  BY <1>1, <1>2, PopWaits DEF OneWait, CanWait
<1> HIDE DEF d
<1>6. /\ CanRead(d) => CanRead(c)
      /\ Head(c.ioq).h \in Reads => CanRead(c) /\ ~CanRead(d)
  BY <1>2, <1>3, <1>4 DEF CanRead, ReadUnderway, OneRead, Core
<1>7. /\ CanWrite(d) => CanWrite(c)
      /\ Head(c.ioq).h = "written" => CanWrite(c) /\ ~CanWrite(d)
  <2>1. CanWrite(d) => CanWrite(c)
    BY <1>2, <1>3 DEF CanWrite, WriteUnderway
  <2>2. ASSUME Head(c.ioq).h = "written"
        PROVE  CanWrite(c) /\ ~CanWrite(d)
    <3>1. Queued(c, {"written"}) # {}
      BY <1>4, <2>2
    <3>2. c.write_bufs # <<>> /\ c.writing = 0
      BY <1>1, <3>1 DEF Core, OneWrite, WriteUnderway, Channels
    <3>3. Queued(d, {"written"}) = {}
      BY <1>3, <2>2 DEF Core, OneWrite
    <3> QED BY <1>2, <3>1, <3>2, <3>3 DEF CanWrite, WriteUnderway
  <2> QED BY <2>1, <2>2
<1> QED BY <1>5, <1>6, <1>7 DEF d, NoMore

\* A handler that is no expiry of the timer and no completion.
LEMMA PostOther ==
  ASSUME NEW c \in Channels, OneWait(c), NEW f \in Handlers, ~IsWait(f),
         f.h \notin Reads, f.h # "written"
  PROVE  OneWait(Post(c, f)) /\ NoMore(Post(c, f), c)
<1> DEFINE d == Post(c, f)
<1>1. /\ d.reading = c.reading /\ d.writing = c.writing
      /\ d.write_bufs = c.write_bufs
  BY PostFields
<1>2. /\ Queued(d, Reads) = Queued(c, Reads)
      /\ Queued(d, {"written"}) = Queued(c, {"written"})
  BY PostQueued
<1> QED BY <1>1, <1>2, PostOneWait
        DEF NoMore, CanRead, ReadUnderway, CanWrite, WriteUnderway

LEMMA ReadCompletesLimited ==
  ASSUME NEW c, Core(c), OneWait(c), c.reading # "none", NEW ec, NEW m,
         Handler(c.reading, ec, m) \in Handlers
  PROVE  LET e == ReadCompletes(c, ec, m) IN OneWait(e) /\ NoMore(e, c)
<1> DEFINE d == [c EXCEPT !.reading = "none"]
           f == Handler(c.reading, ec, m)
           e == Post(d, f)
<1>1. /\ d \in Channels /\ d.ioq = c.ioq /\ d.writing = c.writing
      /\ d.write_bufs = c.write_bufs /\ d.armed = c.armed
  BY DEF Core, Channels
<1>2. f \in Handlers /\ ~IsWait(f) /\ f.h # "written"
  BY DEF Core, Channels, Handler, IsWait
<1>3. e = ReadCompletes(c, ec, m)
  BY DEF ReadCompletes
<1> HIDE DEF d, f
<1>4. Queued(d, {"written"}) = Queued(c, {"written"})
  BY <1>1, SameQueue
<1>5. Waits(d) = Waits(c) /\ OneWait(d) /\ (CanWait(d) <=> CanWait(c))
  BY <1>1 DEF Waits, OneWait, CanWait
<1>6. OneWait(e) /\ (CanWait(e) <=> CanWait(d))
  BY <1>1, <1>2, <1>5, PostOneWait
<1>7. CanWrite(e) => CanWrite(c)
  BY <1>1, <1>2, <1>4, PostFields, PostQueued DEF CanWrite, WriteUnderway
<1> QED BY <1>3, <1>5, <1>6, <1>7 DEF NoMore, CanRead, ReadUnderway

LEMMA WriteCompletesLimited ==
  ASSUME NEW c, Core(c), OneWait(c), c.writing > 0, NEW ec \in {"ok", "error"}
  PROVE  LET e == WriteCompletes(c, ec) IN OneWait(e) /\ NoMore(e, c)
<1> DEFINE d == [c EXCEPT !.writing = @ - 1]
           f == Handler("written", ec, NoMsg)
           e == Post(d, f)
<1>1. /\ d \in Channels /\ d.ioq = c.ioq /\ d.reading = c.reading
      /\ d.write_bufs = c.write_bufs /\ d.armed = c.armed
  BY DEF Core, Channels
<1>2. f \in Handlers /\ ~IsWait(f) /\ f.h \notin Reads
  BY DEF Handler, Handlers, IsWait, Reads
<1>3. e = WriteCompletes(c, ec)
  BY DEF WriteCompletes
<1> HIDE DEF d, f
<1>4. Queued(d, Reads) = Queued(c, Reads)
  BY <1>1, SameQueue
<1>5. Waits(d) = Waits(c) /\ OneWait(d) /\ (CanWait(d) <=> CanWait(c))
  BY <1>1 DEF Waits, OneWait, CanWait
<1>6. OneWait(e) /\ (CanWait(e) <=> CanWait(d))
  BY <1>1, <1>2, <1>5, PostOneWait
<1>7. CanRead(e) => CanRead(c)
  BY <1>1, <1>2, <1>4, PostFields, PostQueued DEF CanRead, ReadUnderway
<1> QED BY <1>3, <1>5, <1>6, <1>7 DEF NoMore, CanWrite, WriteUnderway

LEMMA TimerExpiresLimited ==
  ASSUME NEW c, Core(c), OneWait(c), c.armed
  PROVE  LET e == TimerExpires(c) IN OneWait(e) /\ NoMore(e, c)
<1> DEFINE d == [c EXCEPT !.armed = FALSE]
           f == Handler("timer", "ok", NoMsg)
           e == Post(d, f)
<1>1. /\ d \in Channels /\ d.ioq = c.ioq /\ d.reading = c.reading
      /\ d.writing = c.writing /\ d.write_bufs = c.write_bufs
      /\ d.armed = FALSE
  BY DEF Core, Channels
<1>2. f \in Handlers /\ f.h \notin Reads /\ f.h # "written"
  BY DEF Handler, Handlers, Reads
<1>3. e = TimerExpires(c)
  BY DEF TimerExpires
<1> HIDE DEF d, f
<1>4. \A hs : Queued(d, hs) = Queued(c, hs)
  BY <1>1, SameQueue
<1>5. Waits(d) = {}
  BY <1>1 DEF Waits, OneWait
<1>6. OneWait(e)
  BY <1>1, <1>2, <1>5, PostWaits, PostFields DEF OneWait
<1>7. CanRead(e) => CanRead(c)
  BY <1>1, <1>2, <1>4, PostFields, PostQueued DEF CanRead, ReadUnderway
<1>8. CanWrite(e) => CanWrite(c)
  BY <1>1, <1>2, <1>4, PostFields, PostQueued DEF CanWrite, WriteUnderway
<1> QED BY <1>3, <1>6, <1>7, <1>8 DEF NoMore, CanWait

LEMMA AsyncReadLimited ==
  ASSUME NEW c \in Channels, OneWait(c), NEW part \in {"header", "body"}
  PROVE  LET e == AsyncRead(c, part) IN
         /\ OneWait(e) /\ (CanWait(e) => CanWait(c))
         /\ CanWrite(e) => CanWrite(c)
<1> DEFINE d == [c EXCEPT !.reading = part]
           f == Handler(part, "error", NoMsg)
           e == AsyncRead(c, part)
<1>1. /\ d.ioq = c.ioq /\ d.writing = c.writing
      /\ d.write_bufs = c.write_bufs /\ d.armed = c.armed
  BY DEF Channels
<1>2. f \in Handlers /\ ~IsWait(f) /\ f.h # "written"
  BY DEF Handler, Handlers, IsWait
<1>3. e = IF c.open THEN d ELSE Post(c, f)
  BY DEF AsyncRead
<1> HIDE DEF d, f, e
<1>4. CASE c.open
  <2>1. /\ Waits(d) = Waits(c)
        /\ Queued(d, {"written"}) = Queued(c, {"written"})
    BY <1>1, SameQueue DEF Waits
  <2> QED BY <1>1, <1>3, <1>4, <2>1
          DEF OneWait, CanWait, CanWrite, WriteUnderway, e
<1>5. CASE ~c.open
  <2>1. Queued(Post(c, f), {"written"}) = Queued(c, {"written"})
    BY <1>2, PostQueued
  <2> QED BY <1>2, <1>3, <1>5, <2>1, PostOneWait, PostFields
          DEF CanWrite, WriteUnderway, e
<1> QED BY <1>4, <1>5 DEF e

\* The handler of a read that goes on reading.
LEMMA ResumeReadLimited ==
  ASSUME NEW c, Core(c), OneWait(c), c.ioq # <<>>, Head(c.ioq).h \in Reads,
         NEW part \in {"header", "body"}
  PROVE  LET e == AsyncRead(Pop(c), part) IN OneWait(e) /\ NoMore(e, c)
<1>1. Pop(c) \in Channels
  BY PopType DEF Core
<1> QED BY <1>1, PopLimited, AsyncReadLimited DEF NoMore

\* What the other chains see of a write.
LEMMA DoWriteLimited ==
  ASSUME NEW c \in Channels, OneWait(c)
  PROVE  LET e == DoWrite(c) IN
         /\ OneWait(e) /\ (CanWait(e) => CanWait(c))
         /\ CanRead(e) => CanRead(c)
<1> DEFINE d == [c EXCEPT !.writing = @ + 1]
           f == Handler("written", "error", NoMsg)
           e == DoWrite(c)
<1>1. d.ioq = c.ioq /\ d.reading = c.reading /\ d.armed = c.armed
  BY DEF Channels
<1>2. f \in Handlers /\ ~IsWait(f) /\ f.h \notin Reads
  BY DEF Handler, Handlers, IsWait, Reads
<1>3. e = IF c.open THEN d ELSE Post(c, f)
  BY DEF DoWrite
<1> HIDE DEF d, f, e
<1>4. CASE c.open
  <2>1. Waits(d) = Waits(c) /\ Queued(d, Reads) = Queued(c, Reads)
    BY <1>1, SameQueue DEF Waits
  <2> QED BY <1>1, <1>3, <1>4, <2>1
          DEF OneWait, CanWait, CanRead, ReadUnderway, e
<1>5. CASE ~c.open
  <2>1. Queued(Post(c, f), Reads) = Queued(c, Reads)
    BY <1>2, PostQueued
  <2> QED BY <1>2, <1>3, <1>5, <2>1, PostOneWait, PostFields
          DEF CanRead, ReadUnderway, e
<1> QED BY <1>4, <1>5 DEF e

\* Changing the buffers changes neither the reads nor the waits.
LEMMA SameButBuffers ==
  ASSUME NEW c, NEW d, d.ioq = c.ioq, d.reading = c.reading,
         d.armed = c.armed
  PROVE  /\ OneWait(d) <=> OneWait(c)
         /\ CanWait(d) <=> CanWait(c)
         /\ CanRead(d) <=> CanRead(c)
  BY SameQueue DEF OneWait, CanWait, Waits, CanRead, ReadUnderway

LEMMA WrittenLimited ==
  ASSUME NEW c, Core(c), OneWait(c), Ready(c, "written", "ok")
  PROVE  LET e == PopWrite(Pop(c)) IN OneWait(e) /\ NoMore(e, c)
<1> DEFINE d == Pop(c)
           p == [d EXCEPT !.write_bufs = Tail(@)]
           e == PopWrite(d)
<1>1. d \in Channels /\ c.ioq # <<>> /\ Head(c.ioq).h = "written"
  BY NextHandler DEF Core
<1>2. OneWait(d) /\ NoMore(d, c) /\ CanWrite(c)
  BY <1>1, PopLimited
<1>3. d.write_bufs = c.write_bufs /\ c.write_bufs # <<>>
  BY <1>1, HeadQueued, PopFields DEF Core, WriteUnderway
<1> HIDE DEF d
<1>4. /\ p \in Channels /\ p.ioq = d.ioq /\ p.reading = d.reading
      /\ p.armed = d.armed
  <2>1. Tail(d.write_bufs) \in Seq(Out)
    BY <1>1, <1>3 DEF Channels
  <2> QED BY <1>1, <2>1 DEF Channels
<1>5. e = IF p.write_bufs = <<>> THEN p ELSE DoWrite(p)
  BY DEF PopWrite
<1> HIDE DEF p, e
<1>6. /\ OneWait(p) /\ (CanWait(p) => CanWait(d))
      /\ CanRead(p) => CanRead(d)
  BY <1>2, <1>4, SameButBuffers
<1>7. /\ OneWait(e) /\ (CanWait(e) => CanWait(d))
      /\ CanRead(e) => CanRead(d)
  BY <1>4, <1>5, <1>6, DoWriteLimited
<1> QED BY <1>2, <1>7 DEF NoMore, e, d

LEMMA RunWriteLimited ==
  ASSUME NEW c, Core(c), OneWait(c), Ready(c, "write", "ok"), NEW m \in Out
  PROVE  LET e == PushWrite(Pop(c), m) IN OneWait(e) /\ NoMore(e, c)
<1> DEFINE d == Pop(c)
           p == [d EXCEPT !.write_bufs = Append(@, m)]
           e == PushWrite(d, m)
<1>1. d \in Channels /\ c.ioq # <<>> /\ Head(c.ioq).h = "write"
  BY NextHandler DEF Core
<1>2. OneWait(d) /\ NoMore(d, c)
  BY <1>1, PopLimited
<1>3. d.write_bufs = c.write_bufs
  BY PopFields DEF Core
<1> HIDE DEF d
<1>4. /\ p \in Channels /\ p.ioq = d.ioq /\ p.reading = d.reading
      /\ p.writing = d.writing /\ p.write_bufs # <<>> /\ p.armed = d.armed
  <2>1. d.write_bufs \in Seq(Out)
    BY <1>1 DEF Channels
  <2>2. Len(Append(d.write_bufs, m)) = Len(d.write_bufs) + 1
    BY <2>1
  <2>3. Append(d.write_bufs, m) \in Seq(Out) /\ Append(d.write_bufs, m) # <<>>
    BY <2>1, <2>2
  <2> QED BY <1>1, <2>3 DEF Channels
<1>5. e = IF d.write_bufs = <<>> THEN DoWrite(p) ELSE p
  BY DEF PushWrite
<1> HIDE DEF p, e
<1>6. /\ OneWait(p) /\ (CanWait(p) => CanWait(d))
      /\ CanRead(p) => CanRead(d)
  BY <1>2, <1>4, SameButBuffers
<1>7. /\ OneWait(e) /\ (CanWait(e) => CanWait(d))
      /\ CanRead(e) => CanRead(d)
  BY <1>4, <1>5, <1>6, DoWriteLimited
<1>8. CanWrite(e) => CanWrite(c)
  <2>1. CASE d.write_bufs = <<>>
    BY <1>3, <2>1 DEF CanWrite
  <2>2. CASE d.write_bufs # <<>>
    <3>1. Queued(p, {"written"}) = Queued(d, {"written"})
      BY <1>4, SameQueue
    <3>2. CanWrite(p) => CanWrite(d)
      BY <1>4, <3>1 DEF CanWrite, WriteUnderway
    <3> QED BY <1>2, <1>5, <2>2, <3>2 DEF NoMore
  <2> QED BY <2>1, <2>2
<1> QED BY <1>2, <1>7, <1>8 DEF NoMore, e, d

\* The handler of the timer starts the next wait.
LEMMA TimerLoopLimited ==
  ASSUME NEW c, Core(c), Waits(c) = {}
  PROVE  LET e == TimerLoop(c) IN
         /\ Core(e) /\ OneWait(e) /\ Waits(e) = {}
         /\ CanRead(e) => CanRead(c)
         /\ CanWrite(e) => CanWrite(c)
<1> DEFINE e == TimerLoop(c)
<1>1. /\ e.ioq = c.ioq /\ e.reading = c.reading /\ e.writing = c.writing
      /\ e.write_bufs = c.write_bufs
  BY DEF TimerLoop, Core, Channels
<1>2. Core(e)
  BY TimerLoopCore
<1> HIDE DEF e
<1>3. \A hs : Queued(e, hs) = Queued(c, hs)
  BY <1>1, SameQueue
<1>4. Waits(e) = {}
  BY <1>1 DEF Waits
<1>5. OneWait(e)
  BY <1>4 DEF OneWait
<1>6. CanRead(e) => CanRead(c)
  BY <1>1, <1>3 DEF CanRead, ReadUnderway
<1>7. CanWrite(e) => CanWrite(c)
  BY <1>1, <1>3 DEF CanWrite, WriteUnderway
<1> QED BY <1>2, <1>4, <1>5, <1>6, <1>7 DEF e

\* Close ends the wait, unless the timer has expired already.
LEMMA CloseLimited ==
  ASSUME NEW c, Core(c), OneWait(c)
  PROVE  LET e == Close(c) IN
         /\ OneWait(e) /\ NoMore(e, c)
         /\ CanWait(e) => Waits(c) # {}
<1> DEFINE d == [c EXCEPT !.armed = FALSE]
           f == Handler("timer", "aborted", NoMsg)
           g == Handler("close", "ok", NoMsg)
           s == Stop(c)
           e == Close(c)
<1>1. /\ d \in Channels /\ d.ioq = c.ioq /\ d.reading = c.reading
      /\ d.writing = c.writing /\ d.write_bufs = c.write_bufs
      /\ d.armed = FALSE
  BY DEF Core, Channels
<1>2. /\ f \in Handlers /\ ~IsWait(f) /\ f.h \notin Reads /\ f.h # "written"
      /\ g \in Handlers /\ ~IsWait(g) /\ g.h \notin Reads /\ g.h # "written"
  BY DEF Handler, Handlers, IsWait, Reads
<1>3. s = IF c.armed THEN Post(d, f) ELSE c
  BY DEF Stop
<1>4. e = Post(s, g)
  BY DEF Close
<1> HIDE DEF d, f, g, s, e
<1>5. \A hs : Queued(d, hs) = Queued(c, hs)
  BY <1>1, SameQueue
<1>6. Waits(d) = Waits(c) /\ OneWait(d) /\ NoMore(d, c)
  <2>1. Waits(d) = Waits(c)
    BY <1>1 DEF Waits
  <2> QED BY <1>1, <1>5, <2>1 DEF OneWait, NoMore, CanRead, ReadUnderway,
                                  CanWrite, WriteUnderway, CanWait
<1>7. /\ s \in Channels /\ OneWait(s) /\ NoMore(s, c)
      /\ Waits(s) = Waits(c) /\ s.armed = FALSE
  <2>1. CASE c.armed
    <3>1. Post(d, f) \in Channels /\ Post(d, f).armed = FALSE
      BY <1>1, <1>2, PostType, PostFields
    <3>2. OneWait(Post(d, f)) /\ NoMore(Post(d, f), d)
      BY <1>1, <1>2, <1>6, PostOther
    <3>3. Waits(Post(d, f)) = Waits(c)
      BY <1>1, <1>2, <1>6, PostWaits
    <3> QED BY <1>3, <1>6, <2>1, <3>1, <3>2, <3>3 DEF NoMore
  <2>2. CASE ~c.armed
    BY <1>3, <2>2 DEF NoMore, Core, Channels
  <2> QED BY <2>1, <2>2
<1>8. OneWait(e) /\ NoMore(e, s) /\ Waits(e) = Waits(s) /\ e.armed = FALSE
  BY <1>2, <1>4, <1>7, PostOther, PostWaits, PostFields
<1> QED BY <1>7, <1>8 DEF e, NoMore, CanWait

\* The closure of Close.  An aborted read or write is the last of its chain.
LEMMA CloseSocketLimited ==
  ASSUME NEW c, Core(c), OneWait(c)
  PROVE  LET e == CloseSocket(c) IN OneWait(e) /\ NoMore(e, c)
<1> DEFINE f == Handler(c.reading, "aborted", NoMsg)
           g == Handler("written", "aborted", NoMsg)
           r == IF c.reading = "none" THEN c ELSE Post(c, f)
           w == IF c.writing = 0 THEN r ELSE Post(r, g)
           e == [w EXCEPT !.open = FALSE, !.reading = "none", !.writing = 0]
<1>1. c.reading # "none" =>
        f \in Handlers /\ ~IsWait(f) /\ f.h # "written"
  BY DEF Core, Channels, Handler, Handlers, IsWait
<1>2. g \in Handlers /\ ~IsWait(g) /\ g.h \notin Reads
  BY DEF Handler, Handlers, IsWait, Reads
<1>3. CloseSocket(c) = e
  BY DEF CloseSocket
<1>4. c \in Channels
  BY DEF Core
<1> HIDE DEF f, g
<1>5. /\ r \in Channels /\ OneWait(r) /\ (CanWait(r) => CanWait(c))
      /\ r.write_bufs = c.write_bufs
      /\ Queued(r, {"written"}) = Queued(c, {"written"})
      /\ Queued(r, Reads) # {} => CanRead(c)
  <2>1. CASE c.reading = "none"
    BY <1>4, <2>1 DEF CanRead, ReadUnderway
  <2>2. CASE c.reading # "none"
    <3>1. CanRead(c)
      BY <2>2 DEF CanRead, ReadUnderway
    <3>2. Post(c, f) \in Channels
      BY <1>1, <1>4, <2>2, PostType
    <3>3. Queued(Post(c, f), {"written"}) = Queued(c, {"written"})
      BY <1>1, <1>4, <2>2, PostQueued
    <3> QED BY <1>1, <1>4, <2>2, <3>1, <3>2, <3>3, PostOneWait, PostFields
  <2> QED BY <2>1, <2>2
<1> HIDE DEF r
<1>6. /\ w \in Channels /\ OneWait(w) /\ (CanWait(w) => CanWait(c))
      /\ w.write_bufs = c.write_bufs
      /\ Queued(w, {"written"}) # {} => WriteUnderway(c)
      /\ Queued(w, Reads) # {} => CanRead(c)
  <2>1. CASE c.writing = 0
    BY <1>5, <2>1 DEF WriteUnderway
  <2>2. CASE c.writing # 0
    <3>1. WriteUnderway(c)
      BY <1>4, <2>2 DEF WriteUnderway, Channels
    <3>2. Queued(Post(r, g), Reads) = Queued(r, Reads)
      BY <1>2, <1>5, PostQueued
    <3> QED BY <1>2, <1>5, <2>2, <3>1, <3>2, PostType, PostOneWait, PostFields
  <2> QED BY <2>1, <2>2
<1> HIDE DEF w
<1>7. /\ e.ioq = w.ioq /\ e.write_bufs = w.write_bufs /\ e.armed = w.armed
      /\ e.reading = "none" /\ e.writing = 0
  BY <1>6 DEF Channels
<1> HIDE DEF e
<1>8. \A hs : Queued(e, hs) = Queued(w, hs)
  BY <1>7, SameQueue
<1>9. OneWait(e) /\ (CanWait(e) => CanWait(c))
  BY <1>6, <1>7 DEF OneWait, CanWait, Waits
<1> QED BY <1>3, <1>6, <1>7, <1>8, <1>9
        DEF NoMore, CanRead, ReadUnderway, CanWrite, WriteUnderway

LEMMA RunCloseLimited ==
  ASSUME NEW c, Core(c), OneWait(c), Ready(c, "close", "ok")
  PROVE  LET e == CloseSocket(Pop(c)) IN OneWait(e) /\ NoMore(e, c)
<1>1. c.ioq # <<>>
  BY DEF Ready
<1>2. OneWait(Pop(c)) /\ NoMore(Pop(c), c)
  BY <1>1, PopLimited
<1>3. Core(Pop(c))
  BY <1>1, PopCore
<1>4. OneWait(CloseSocket(Pop(c))) /\ NoMore(CloseSocket(Pop(c)), Pop(c))
  BY <1>2, <1>3, CloseSocketLimited
<1> QED BY <1>2, <1>4 DEF NoMore

-----------------------------------------------------------------------------
(* What the operations add to the handlers that are ready: behind those     *)
(* that are queued, and nothing that carries a message, or news of one, but *)
(* what ReadCompletes and Write bring.                                      *)

IsMessage(f) == f.h = "body" /\ f.ec = "ok"

Plain(f) == f.h \in {"written", "timer", "close"} \/ f.ec # "ok"

Appended(d, c) ==
  /\ \A i \in DOMAIN c.ioq : i \in DOMAIN d.ioq /\ d.ioq[i] = c.ioq[i]
  /\ \A i \in DOMAIN d.ioq \ DOMAIN c.ioq : ~IsMessage(d.ioq[i])

Padded(d, c) ==
  /\ \A i \in DOMAIN c.ioq : i \in DOMAIN d.ioq /\ d.ioq[i] = c.ioq[i]
  /\ \A i \in DOMAIN d.ioq \ DOMAIN c.ioq : Plain(d.ioq[i])

\* The queue of buffers is the same, and nothing is started but the read of a
\* header.
Calm(d, c) ==
  /\ d.write_bufs = c.write_bufs
  /\ d.writing > 0 => c.writing > 0
  /\ d.reading = "body" => c.reading = "body"

Quiet(d, c) == Padded(d, c) /\ Calm(d, c)

LEMMA PaddedAppended ==
  ASSUME NEW c, NEW d, Padded(d, c) \/ Quiet(d, c)
  PROVE  Appended(d, c)
<1>1. \A f : Plain(f) => ~IsMessage(f)
  BY DEF Plain, IsMessage
<1>2. Padded(d, c)
  BY DEF Quiet
<1> QED BY <1>1, <1>2 DEF Padded, Appended

LEMMA AppendedSame ==
  ASSUME NEW c, NEW d, d.ioq = c.ioq
  PROVE  Appended(d, c) /\ Padded(d, c)
  BY DEF Appended, Padded

LEMMA AppendedTrans ==
  ASSUME NEW c, NEW d, NEW e
  PROVE  /\ Appended(e, d) /\ Appended(d, c) => Appended(e, c)
         /\ Padded(e, d) /\ Padded(d, c) => Padded(e, c)
  BY DEF Appended, Padded

LEMMA QuietTrans ==
  ASSUME NEW c, NEW d, NEW e, Quiet(e, d), Quiet(d, c)
  PROVE  Quiet(e, c)
  BY AppendedTrans DEF Quiet, Calm

LEMMA PostAppended ==
  ASSUME NEW c \in Channels, NEW f
  PROVE  /\ ~IsMessage(f) => Appended(Post(c, f), c)
         /\ Plain(f) => Padded(Post(c, f), c)
<1>1. c.ioq \in Seq(Handlers)
  BY DEF Channels
<1> DEFINE q == Post(c, f).ioq
<1>2. q = Append(c.ioq, f)
  BY DEF Post, Channels
<1>3. /\ DOMAIN c.ioq = 1 .. Len(c.ioq) /\ Len(c.ioq) \in Nat
      /\ DOMAIN q = 1 .. Len(c.ioq) + 1
      /\ \A i \in 1 .. Len(c.ioq) : q[i] = c.ioq[i]
      /\ q[Len(c.ioq) + 1] = f
  BY <1>1, <1>2
<1>4. \A i \in DOMAIN q \ DOMAIN c.ioq : q[i] = f
  BY <1>3
<1> HIDE DEF q
<1> QED BY <1>3, <1>4 DEF Appended, Padded, q

LEMMA PostQuiet ==
  ASSUME NEW c \in Channels, NEW f, Plain(f)
  PROVE  Quiet(Post(c, f), c)
  BY PostAppended, PostFields DEF Quiet, Calm

\* A channel that differs from c in fields that start nothing.
LEMMA SameQuiet ==
  ASSUME NEW c, NEW d, d.ioq = c.ioq, Calm(d, c)
  PROVE  Quiet(d, c)
  BY AppendedSame DEF Quiet

LEMMA AsyncReadPadded ==
  ASSUME NEW c \in Channels, NEW part
  PROVE  LET e == AsyncRead(c, part) IN
         /\ Padded(e, c) /\ e.write_bufs = c.write_bufs /\ e.writing = c.writing
         /\ part # "body" => Calm(e, c)
<1> DEFINE e == AsyncRead(c, part)
           f == Handler(part, "error", NoMsg)
<1>1. CASE c.open
  <2>1. e = [c EXCEPT !.reading = part]
    BY <1>1 DEF AsyncRead
  <2>2. /\ e.ioq = c.ioq /\ e.write_bufs = c.write_bufs /\ e.writing = c.writing
        /\ e.reading = part
    BY <2>1 DEF Channels
  <2> QED BY <2>2, AppendedSame DEF Calm
<1>2. CASE ~c.open
  <2>1. e = Post(c, f) /\ Plain(f)
    BY <1>2 DEF AsyncRead, Plain, Handler
  <2>2. Quiet(Post(c, f), c) /\ Post(c, f).writing = c.writing
    BY <2>1, PostQuiet, PostFields
  <2> QED BY <2>1, <2>2 DEF Quiet, Calm
<1> QED BY <1>1, <1>2

LEMMA HeaderAppended ==
  ASSUME NEW c \in Channels, NEW ec, NEW m,
         c.reading # "body" \/ ec # "ok"
  PROVE  Appended(ReadCompletes(c, ec, m), c)
<1> DEFINE d == [c EXCEPT !.reading = "none"]
           f == Handler(c.reading, ec, m)
<1>1. d \in Channels /\ d.ioq = c.ioq
  BY DEF Channels
<1>2. ~IsMessage(f)
  BY DEF IsMessage, Handler
<1>3. ReadCompletes(c, ec, m) = Post(d, f)
  BY DEF ReadCompletes
<1> HIDE DEF d, f
<1> QED BY <1>1, <1>2, <1>3, AppendedSame, PostAppended, AppendedTrans

LEMMA ReadFailsQuiet ==
  ASSUME NEW c \in Channels, NEW ec, NEW m, ec # "ok"
  PROVE  Quiet(ReadCompletes(c, ec, m), c)
<1> DEFINE d == [c EXCEPT !.reading = "none"]
           f == Handler(c.reading, ec, m)
<1>1. d \in Channels /\ d.ioq = c.ioq /\ Calm(d, c)
  BY DEF Channels, Calm
<1>2. Plain(f)
  BY DEF Plain, Handler
<1>3. ReadCompletes(c, ec, m) = Post(d, f)
  BY DEF ReadCompletes
<1> HIDE DEF d, f
<1> QED BY <1>1, <1>2, <1>3, SameQuiet, PostQuiet, QuietTrans

LEMMA WriteCompletesQuiet ==
  ASSUME NEW c \in Channels, c.writing > 0, NEW ec
  PROVE  Quiet(WriteCompletes(c, ec), c)
<1> DEFINE d == [c EXCEPT !.writing = @ - 1]
           f == Handler("written", ec, NoMsg)
<1>1. d \in Channels /\ d.ioq = c.ioq /\ Calm(d, c)
  BY DEF Channels, Calm
<1>2. Plain(f)
  BY DEF Plain, Handler
<1>3. WriteCompletes(c, ec) = Post(d, f)
  BY DEF WriteCompletes
<1> HIDE DEF d, f
<1> QED BY <1>1, <1>2, <1>3, SameQuiet, PostQuiet, QuietTrans

LEMMA DoWritePadded ==
  ASSUME NEW c \in Channels
  PROVE  LET e == DoWrite(c) IN
         /\ Padded(e, c) /\ e.write_bufs = c.write_bufs /\ e.reading = c.reading
<1> DEFINE f == Handler("written", "error", NoMsg)
           d == [c EXCEPT !.writing = @ + 1]
<1>1. d.ioq = c.ioq /\ d.write_bufs = c.write_bufs /\ d.reading = c.reading
  BY DEF Channels
<1>2. Padded(d, c)
  BY <1>1, AppendedSame
<1>3. Plain(f)
  BY DEF Plain, Handler
<1>4. DoWrite(c) = IF c.open THEN d ELSE Post(c, f)
  BY DEF DoWrite
<1> HIDE DEF d, f
<1> QED BY <1>1, <1>2, <1>3, <1>4, PostAppended, PostFields

LEMMA PushWritePadded ==
  ASSUME NEW c \in Channels, NEW m \in Out
  PROVE  LET e == PushWrite(c, m) IN
         /\ Padded(e, c) /\ e.reading = c.reading
         /\ e.write_bufs = Append(c.write_bufs, m)
         /\ c.write_bufs # <<>> => e.writing = c.writing
<1> DEFINE p == [c EXCEPT !.write_bufs = Append(@, m)]
<1>1. /\ p \in Channels /\ p.ioq = c.ioq /\ p.reading = c.reading
      /\ p.write_bufs = Append(c.write_bufs, m) /\ p.writing = c.writing
  <2>1. Append(c.write_bufs, m) \in Seq(Out)
    BY DEF Channels
  <2> QED BY <2>1 DEF Channels
<1>2. PushWrite(c, m) = IF c.write_bufs = <<>> THEN DoWrite(p) ELSE p
  BY DEF PushWrite
<1> HIDE DEF p
<1> QED BY <1>1, <1>2, AppendedSame, DoWritePadded, AppendedTrans

LEMMA PopWritePadded ==
  ASSUME NEW c \in Channels, c.write_bufs # <<>>
  PROVE  LET e == PopWrite(c) IN
         /\ Padded(e, c) /\ e.reading = c.reading
         /\ e.write_bufs = Tail(c.write_bufs)
         /\ e.write_bufs = <<>> => e.writing = c.writing
<1> DEFINE p == [c EXCEPT !.write_bufs = Tail(@)]
<1>1. /\ p \in Channels /\ p.ioq = c.ioq /\ p.reading = c.reading
      /\ p.write_bufs = Tail(c.write_bufs) /\ p.writing = c.writing
  <2>1. Tail(c.write_bufs) \in Seq(Out)
    BY DEF Channels
  <2> QED BY <2>1 DEF Channels
<1>2. PopWrite(c) = IF p.write_bufs = <<>> THEN p ELSE DoWrite(p)
  BY DEF PopWrite
<1> HIDE DEF p
<1> QED BY <1>1, <1>2, AppendedSame, DoWritePadded, AppendedTrans

LEMMA TimerQuiet ==
  ASSUME NEW c \in Channels
  PROVE  /\ Quiet(TimerLoop(c), c) /\ Quiet(TimerExpires(c), c)
         /\ Quiet(Stop(c), c) /\ Quiet(Close(c), c)
<1> DEFINE d == [c EXCEPT !.armed = FALSE]
           e == [c EXCEPT !.armed = TRUE]
<1>1. d \in Channels /\ Quiet(d, c) /\ Quiet(e, c) /\ Quiet(c, c)
  BY SameQuiet DEF Channels, Calm
<1> HIDE DEF d, e
<1>2. /\ Plain(Handler("timer", "ok", NoMsg))
      /\ Plain(Handler("timer", "aborted", NoMsg))
      /\ Plain(Handler("close", "ok", NoMsg))
  BY DEF Plain, Handler
<1>3. Quiet(TimerLoop(c), c)
  BY <1>1 DEF TimerLoop, e
<1>4. Quiet(TimerExpires(c), c)
  BY <1>1, <1>2, PostQuiet, QuietTrans DEF TimerExpires, d
<1>5. Stop(c) \in Channels /\ Quiet(Stop(c), c)
  <2>1. Handler("timer", "aborted", NoMsg) \in Handlers
    BY DEF Handler, Handlers
  <2>2. CASE c.armed
    BY <1>1, <1>2, <2>1, <2>2, PostType, PostQuiet, QuietTrans
       DEF Stop, d
  <2>3. CASE ~c.armed
    BY <1>1, <2>3 DEF Stop
  <2> QED BY <2>2, <2>3
<1>6. Quiet(Close(c), c)
  BY <1>2, <1>5, PostQuiet, QuietTrans DEF Close
<1> QED BY <1>3, <1>4, <1>5, <1>6

LEMMA CloseSocketQuiet ==
  ASSUME NEW c, Core(c)
  PROVE  Quiet(CloseSocket(c), c)
<1> DEFINE f == Handler(c.reading, "aborted", NoMsg)
           g == Handler("written", "aborted", NoMsg)
           r == IF c.reading = "none" THEN c ELSE Post(c, f)
           w == IF c.writing = 0 THEN r ELSE Post(r, g)
           e == [w EXCEPT !.open = FALSE, !.reading = "none", !.writing = 0]
<1>1. c \in Channels
  BY DEF Core
<1>2. /\ g \in Handlers /\ Plain(g) /\ Plain(f)
      /\ c.reading # "none" => f \in Handlers
  BY <1>1 DEF Handler, Handlers, Plain, Channels
<1>3. CloseSocket(c) = e
  BY DEF CloseSocket
<1> HIDE DEF f, g
<1>4. r \in Channels /\ Quiet(r, c)
  BY <1>1, <1>2, PostType, PostQuiet, SameQuiet DEF Calm
<1> HIDE DEF r
<1>5. w \in Channels /\ Quiet(w, c)
  BY <1>2, <1>4, PostType, PostQuiet, QuietTrans
<1> HIDE DEF w
<1>6. /\ e.ioq = w.ioq /\ e.write_bufs = w.write_bufs /\ e.writing = 0
      /\ e.reading = "none"
  BY <1>5 DEF Channels
<1> HIDE DEF e
<1>7. Quiet(e, w)
  BY <1>6, SameQuiet DEF Calm
<1> QED BY <1>3, <1>5, <1>7, QuietTrans
=============================================================================
