------------------------------- MODULE LogSink -------------------------------
(***************************************************************************)
(* The log file of common/log.cpp: a LOG_ macro stamps its message and puts *)
(* it on the queue of the spdlog thread pool, a worker of the pool hands it *)
(* to hourly_file_sink, which opens a new file when it meets a message of   *)
(* a new hour.  Time is counted in ticks, HourTicks of them to the hour.    *)
(***************************************************************************)
EXTENDS Naturals, Sequences

CONSTANTS
  Threads,     \* the threads of the program that log
  Workers,     \* the threads of the spdlog pool, config log.thread
  HourTicks,   \* ticks in an hour
  MaxTime,     \* bound: the clock stops here
  QueueSize,   \* bound: the size of the queue, 8192 in the program
  Nothing      \* no message

ASSUME SinkAssumption ==
  HourTicks \in Nat \ {0} /\ MaxTime \in Nat /\ QueueSize \in Nat \ {0}

VARIABLES
  now,          \* log_clock::now()
  stamped,      \* the message a thread has stamped and not yet queued
  queue,        \* the queue of the thread pool, a message is its msg.time
  held,         \* the message a worker has taken from it
  file,         \* the hour of the open file
  rotation_tp,  \* rotation_tp_
  late,         \* history: the open file was opened after its hour was over
  last          \* history: the last write

sink_vars == <<now, stamped, queue, held, file, rotation_tp, late, last>>

Hour(t) == t \div HourTicks

\* Mutant of NextRotation: the rotation comes an interval after now.
NextRotationLoose(t) == t + HourTicks

\* next_rotation_tp_, an interval of one hour after the hour of now.
NextRotation(t) == (Hour(t) + 1) * HourTicks

\* The constructor opens the file of the hour, then asks the clock again.
SinkInit ==
  /\ now \in 0 .. HourTicks
  /\ stamped = [p \in Threads |-> Nothing]
  /\ queue = <<>>
  /\ held = [w \in Workers |-> Nothing]
  /\ file \in {Hour(t) : t \in 0 .. now}
  /\ rotation_tp = NextRotation(now)
  /\ late = (file # Hour(now))
  /\ last = Nothing

Tick ==
  /\ now < MaxTime /\ now' = now + 1
  /\ UNCHANGED <<stamped, queue, held, file, rotation_tp, late, last>>

\* A LOG_ macro: log_msg takes the time ...
Log(p) ==
  /\ stamped[p] = Nothing
  /\ stamped' = [stamped EXCEPT ![p] = now]
  /\ UNCHANGED <<now, queue, held, file, rotation_tp, late, last>>

\* ... and is queued, perhaps after a message stamped later.  The thread
\* blocks while the queue is full.
Enqueue(p) ==
  /\ stamped[p] # Nothing /\ Len(queue) < QueueSize
  /\ queue' = Append(queue, stamped[p])
  /\ stamped' = [stamped EXCEPT ![p] = Nothing]
  /\ UNCHANGED <<now, held, file, rotation_tp, late, last>>

Dequeue(w) ==
  /\ held[w] = Nothing /\ queue # <<>>
  /\ held' = [held EXCEPT ![w] = Head(queue)]
  /\ queue' = Tail(queue)
  /\ UNCHANGED <<now, stamped, file, rotation_tp, late, last>>

\* Mutant of Sink: it compares the time of writing with rotation_tp_.
SinkNow(w) ==
  LET t == held[w] IN
  /\ t # Nothing
  /\ IF now >= rotation_tp
     THEN /\ file' = Hour(t) /\ rotation_tp' = NextRotation(now)
          /\ late' = (Hour(t) # Hour(now))
     ELSE UNCHANGED <<file, rotation_tp, late>>
  /\ last' = [hour |-> Hour(t), at |-> Hour(now), file |-> file', late |-> late']
  /\ held' = [held EXCEPT ![w] = Nothing]
  /\ UNCHANGED <<now, stamped, queue>>

\* hourly_file_sink::sink_it_, under the mutex of the sink: the file is the one
\* of the message's hour, the next rotation that of the clock.
Sink(w) ==
  LET t == held[w] IN
  /\ t # Nothing
  /\ IF t >= rotation_tp
     THEN /\ file' = Hour(t) /\ rotation_tp' = NextRotation(now)
          /\ late' = (Hour(t) # Hour(now))
     ELSE UNCHANGED <<file, rotation_tp, late>>
  /\ last' = [hour |-> Hour(t), at |-> Hour(now), file |-> file', late |-> late']
  /\ held' = [held EXCEPT ![w] = Nothing]
  /\ UNCHANGED <<now, stamped, queue>>

SinkNext ==
  \/ Tick
  \/ \E p \in Threads : Log(p) \/ Enqueue(p)
  \/ \E w \in Workers : Dequeue(w) \/ Sink(w)

SinkSpec == SinkInit /\ [][SinkNext]_sink_vars

-----------------------------------------------------------------------------
(* Properties *)

\* A message that is written within its hour is in the file of that hour, if
\* this file was opened in time: messages stamped earlier that are still on
\* their way, in whatever order, do not displace it.
PromptRight ==
  last # Nothing => (last.at = last.hour /\ ~last.late => last.file = last.hour)

\* The sink goes from one hour's file to a later one, and never opens a file
\* twice, however late and out of order the messages are.
NeverBack == [][file' > file]_file
=============================================================================
