------------------------------ MODULE KeepAlive ------------------------------
(***************************************************************************)
(* The keep-alive between a GameClient and its UserSession, in time.  Both *)
(* timers repeat, both ends compare whole seconds of the wall clock, and   *)
(* every handler, write and delivery may be late.  Time is counted in      *)
(* ticks, Sec of them to the second; the clocks of the two machines run    *)
(* alike (each is only compared with itself).                              *)
(***************************************************************************)
EXTENDS Integers

CONSTANTS
  Sec,       \* ticks in a second
  Jitter,    \* a timer's handler ends at most so late
  Delay,     \* a message is handled at most so long after Write
  Start,     \* bound: the session is accepted in 0 .. Start
  MaxTime    \* bound: the clock stops here

ASSUME KeepAliveAssumption ==
  /\ Sec \in Nat \ {0} /\ Jitter \in Nat /\ Delay \in Nat
  /\ Start \in Nat /\ MaxTime \in Nat
  /\ Jitter + Delay <= Sec

PING_SEND_FREQUENCY == 2
CHECK_ALIVE_TIME == 5

Seconds(t) == t \div Sec

VARIABLES
  now,
  client,           \* "connecting", "waiting" for the timer, "pinging", "dead"
  armed,            \* when the client's timer was armed
  due,              \* when the client's handler must have ended
  last_write_time,  \* of GameClient, in seconds
  net,              \* when the messages on their way were written
  open,             \* the session has not called Close
  check,            \* when the session's timer was armed
  last_alive_time,  \* of UserSession, in seconds
  died              \* history: when the client fell silent

vars == <<now, client, armed, due, last_write_time, net, open, check,
          last_alive_time, died>>

\* The session is constructed; the client learns of its connection later.
Init ==
  /\ now \in 0 .. Start
  /\ client = "connecting" /\ armed = now /\ due = now + Delay
  /\ last_write_time = 0 /\ net = {}
  /\ open = TRUE /\ check = now /\ last_alive_time = Seconds(now)
  /\ died = 0

-----------------------------------------------------------------------------
(* The client *)

TimerDue(t) == t + PING_SEND_FREQUENCY * Sec + Jitter

\* The handler of async_connect runs the timer and writes LoginReq.
Connected ==
  /\ client = "connecting" /\ client' = "waiting"
  /\ armed' = now /\ due' = TimerDue(now)
  /\ last_write_time' = Seconds(now) /\ net' = net \cup {now}
  /\ UNCHANGED <<now, open, check, last_alive_time, died>>

\* TimerLoop arms the timer before it calls SendPingMsg.
OnTimer ==
  /\ client = "waiting" /\ client' = "pinging"
  /\ now >= armed + PING_SEND_FREQUENCY * Sec
  /\ armed' = now
  /\ UNCHANGED <<now, due, last_write_time, net, open, check, last_alive_time,
                 died>>

\* Mutant of PingDue: it waits for more than PING_SEND_FREQUENCY seconds.
PingDueLate == Seconds(now) - last_write_time > PING_SEND_FREQUENCY

PingDue ==
  /\ Seconds(now) > last_write_time
  /\ Seconds(now) - last_write_time >= PING_SEND_FREQUENCY

\* Mutant of SendPing: the time of the write is not converted to seconds.
SendPingTicks ==
  /\ client = "pinging" /\ client' = "waiting"
  /\ due' = TimerDue(armed)
  /\ IF PingDue THEN last_write_time' = now /\ net' = net \cup {now}
     ELSE UNCHANGED <<last_write_time, net>>
  /\ UNCHANGED <<now, armed, open, check, last_alive_time, died>>

SendPing ==
  /\ client = "pinging" /\ client' = "waiting"
  /\ due' = TimerDue(armed)
  /\ IF PingDue THEN last_write_time' = Seconds(now) /\ net' = net \cup {now}
     ELSE UNCHANGED <<last_write_time, net>>
  /\ UNCHANGED <<now, armed, open, check, last_alive_time, died>>

\* The client crashes, or is cut off.
Dies ==
  /\ client # "dead" /\ client' = "dead" /\ died' = now
  /\ UNCHANGED <<now, armed, due, last_write_time, net, open, check,
                 last_alive_time>>

-----------------------------------------------------------------------------
(* The session *)

\* OnReadBody; what arrives at a closed session is not read.
Arrives ==
  /\ \E t \in net : net' = net \ {t}
  /\ last_alive_time' = IF open THEN Seconds(now) ELSE last_alive_time
  /\ UNCHANGED <<now, client, armed, due, last_write_time, open, check, died>>

\* Mutant of NotAlive: it waits for more than CHECK_ALIVE_TIME seconds.
NotAliveLate == Seconds(now) - last_alive_time > CHECK_ALIVE_TIME
\* Mutant of NotAlive: two periods of the client's timer are enough.
NotAliveEarly == Seconds(now) - last_alive_time >= CHECK_ALIVE_TIME - 1

NotAlive ==
  /\ Seconds(now) > last_alive_time
  /\ Seconds(now) - last_alive_time >= CHECK_ALIVE_TIME

\* The handler of the session's timer: arm it again, then CheckAlive.
CheckAlive ==
  /\ open /\ now >= check + CHECK_ALIVE_TIME * Sec
  /\ check' = now
  /\ open' = ~NotAlive
  /\ UNCHANGED <<now, client, armed, due, last_write_time, net,
                 last_alive_time, died>>

-----------------------------------------------------------------------------
\* Nothing is later than Jitter and Delay allow.
Tick ==
  /\ now < MaxTime /\ now' = now + 1
  /\ client # "dead" => now < due
  /\ open => now < check + CHECK_ALIVE_TIME * Sec + Jitter
  /\ \A t \in net : now < t + Delay
  /\ UNCHANGED <<client, armed, due, last_write_time, net, open, check,
                 last_alive_time, died>>

Next ==
  \/ Connected \/ OnTimer \/ SendPing \/ Dies \/ Arrives \/ CheckAlive \/ Tick

Spec == Init /\ [][Next]_vars

-----------------------------------------------------------------------------
(* Properties *)

\* Every variable has the type its C++ declaration gives it.  The recorded
\* seconds are not in the future, so that the uint64_t differences do not wrap.
TypeOK ==
  /\ {now, armed, due, check, died} \subseteq Nat
  /\ client \in {"connecting", "waiting", "pinging", "dead"}
  /\ {last_write_time, last_alive_time} \subseteq 0 .. Seconds(now)
  /\ net \subseteq 0 .. now /\ open \in BOOLEAN

\* A client that runs is never taken for dead, although it may skip every other
\* ping: the seconds of its last write are rounded down, and its timer was armed
\* before.
NeverDropped == client # "dead" => open

\* A client does not fall silent for longer than two periods of its timer.
PingsInTime ==
  client \in {"waiting", "pinging"} =>
    now <= (last_write_time + 2 * PING_SEND_FREQUENCY) * Sec + Jitter

\* A dead client is dropped within two periods of the session's timer.
DeadFound ==
  client = "dead" /\ open =>
    now <= died + 2 * CHECK_ALIVE_TIME * Sec + Delay + Jitter
=============================================================================
