------------------------------- MODULE Channel -------------------------------
(***************************************************************************)
(* One end of a TCP connection as common/session.h keeps it (common/pipe.h *)
(* has the same handlers): a socket with at most one read and one write in *)
(* progress, the queue of buffers to send, the repeating timer of          *)
(* common/asio_timer.h, and the handlers its io_service still has to run.  *)
(*                                                                         *)
(* A channel is a record and every operation returns the new record, so    *)
(* that a handler is the composition of the calls it makes.  One thread    *)
(* runs the handlers of an io_service in the order they were posted; an    *)
(* asynchronous operation posts its handler when it completes, fails, or   *)
(* is aborted because the socket is closed or the timer cancelled.         *)
(***************************************************************************)
EXTENDS Naturals, Sequences

CONSTANTS
  In,     \* the messages the peer may send
  Out,    \* the messages this end may send
  NoMsg   \* a handler without a message

\* Handlers: the completions of async_read (of a header, of a body), of
\* async_write and of async_wait, and the closures posted by Write and Close.
\* A received header is "invalid" when SizeValid will reject it.
Handlers ==
  [h : {"header", "written", "timer", "close"},
   ec : {"ok", "invalid", "error", "aborted"}, m : {NoMsg}]
    \cup [h : {"body"}, ec : {"error", "aborted"}, m : {NoMsg}]
    \cup [h : {"body"}, ec : {"ok"}, m : In]
    \cup [h : {"write"}, ec : {"ok"}, m : Out]

Handler(h, ec, m) == [h |-> h, ec |-> ec, m |-> m]

Channels ==
  [open : BOOLEAN,                        \* socket_.is_open()
   reading : {"none", "header", "body"},  \* the async_read in progress
   writing : Nat,                         \* async_writes in progress
   write_bufs : Seq(Out),                 \* write_bufs_
   armed : BOOLEAN,                       \* the async_wait in progress
   ioq : Seq(Handlers)]                   \* handlers ready to run

\* A connected socket nothing has been started on.
Connected ==
  [open |-> TRUE, reading |-> "none", writing |-> 0, write_bufs |-> <<>>,
   armed |-> FALSE, ioq |-> <<>>]

-----------------------------------------------------------------------------
(* io_service *)

Post(c, handler) == [c EXCEPT !.ioq = Append(@, handler)]

Pop(c) == [c EXCEPT !.ioq = Tail(@)]

\* The next handler is the completion h with error code ec.
Ready(c, h, ec) == c.ioq # <<>> /\ Head(c.ioq).h = h /\ Head(c.ioq).ec = ec

-----------------------------------------------------------------------------
(* Reading *)

\* DoReadHeader and DoReadBody.  On a closed socket asio completes the read at
\* once with bad_descriptor, which is not operation_aborted.
AsyncRead(c, part) ==
  IF c.open THEN [c EXCEPT !.reading = part]
  ELSE Post(c, Handler(part, "error", NoMsg))

ReadCompletes(c, ec, m) ==
  Post([c EXCEPT !.reading = "none"], Handler(c.reading, ec, m))

-----------------------------------------------------------------------------
(* Writing *)

DoWrite(c) ==
  IF c.open THEN [c EXCEPT !.writing = @ + 1]
  ELSE Post(c, Handler("written", "error", NoMsg))

\* Mutant of PushWrite: it does not look for a write in progress.
PushWriteAlways(c, m) == DoWrite([c EXCEPT !.write_bufs = Append(@, m)])

\* Mutant of PushWrite: what is written to a closed socket is dropped quietly.
PushWriteDrops(c, m) ==
  LET pushed == [c EXCEPT !.write_bufs = Append(@, m)] IN
  CASE ~c.open -> c
    [] c.open /\ c.write_bufs = <<>> -> DoWrite(pushed)
    [] OTHER -> pushed

\* The closure Write posts: start writing unless a write is in progress.
PushWrite(c, m) ==
  LET pushed == [c EXCEPT !.write_bufs = Append(@, m)] IN
  IF c.write_bufs = <<>> THEN DoWrite(pushed) ELSE pushed

\* The handler of DoWrite without an error.  With one, the buffer stays.
PopWrite(c) ==
  LET popped == [c EXCEPT !.write_bufs = Tail(@)] IN
  IF popped.write_bufs = <<>> THEN popped ELSE DoWrite(popped)

WriteCompletes(c, ec) ==
  Post([c EXCEPT !.writing = @ - 1], Handler("written", ec, NoMsg))

-----------------------------------------------------------------------------
(* The timer *)

\* TimerLoop arms the timer, from Run and again from its own handler.
TimerLoop(c) == [c EXCEPT !.armed = TRUE]

TimerExpires(c) ==
  Post([c EXCEPT !.armed = FALSE], Handler("timer", "ok", NoMsg))

\* cancel() aborts a wait in progress; an expiry already queued stays queued.
Stop(c) ==
  IF c.armed
  THEN Post([c EXCEPT !.armed = FALSE], Handler("timer", "aborted", NoMsg))
  ELSE c

-----------------------------------------------------------------------------
(* Closing *)

\* Close: OnClose, which stops the timer, then post the closure that closes.
Close(c) == Post(Stop(c), Handler("close", "ok", NoMsg))

\* socket_.close(): the operations in progress are aborted.
CloseSocket(c) ==
  LET read == IF c.reading = "none" THEN c
              ELSE Post(c, Handler(c.reading, "aborted", NoMsg))
      both == IF c.writing = 0 THEN read
              ELSE Post(read, Handler("written", "aborted", NoMsg))
  IN  [both EXCEPT !.open = FALSE, !.reading = "none", !.writing = 0]

-----------------------------------------------------------------------------
(* What is under way *)

Queued(c, hs) == {i \in DOMAIN c.ioq : c.ioq[i].h \in hs}

\* At most one of these handlers is queued.
Single(c, hs) == \A i, j \in Queued(c, hs) : i = j

Reads == {"header", "body"}

\* A read is in progress, or its handler is still to run.
ReadUnderway(c) == c.reading # "none" \/ Queued(c, Reads) # {}

OneRead(c) ==
  Single(c, Reads) /\ (c.reading # "none" => Queued(c, Reads) = {})

WriteUnderway(c) == c.writing > 0 \/ Queued(c, {"written"}) # {}

OneWrite(c) ==
  /\ Single(c, {"written"}) /\ c.writing <= 1
  /\ c.writing = 1 => Queued(c, {"written"}) = {}

TimerUnderway(c) == c.armed \/ Queued(c, {"timer"}) # {}
=============================================================================
