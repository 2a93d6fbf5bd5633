--------------------------- MODULE KeepAliveProofs ---------------------------
(***************************************************************************)
(* Theorems about KeepAlive, for every length of a second and every        *)
(* lateness that keeps Jitter + Delay within it: the differences of the    *)
(* recorded seconds do not wrap, a living client is never dropped, and a   *)
(* dead one is.                                                            *)
(***************************************************************************)
EXTENDS KeepAlive, TLAPS

USE KeepAliveAssumption

-----------------------------------------------------------------------------
(* Whole seconds *)

LEMMA SecondsNat ==
  ASSUME NEW t \in Nat
  PROVE  Seconds(t) \in Nat
  BY DEF Seconds

\* Rounding down, without the division.
LEMMA SecondsBounds ==
  ASSUME NEW t \in Nat
  PROVE  Seconds(t) * Sec <= t /\ t < Seconds(t) * Sec + Sec
  BY DEF Seconds

LEMMA TimesSec ==
  ASSUME NEW m \in Nat, NEW n \in Nat
  PROVE  /\ m <= n => m * Sec <= n * Sec
         /\ m * Sec < n * Sec + Sec => m <= n
  OBVIOUS

LEMMA SecondsGrow ==
  ASSUME NEW t \in Nat, NEW u \in Nat, t <= u
  PROVE  Seconds(t) <= Seconds(u)
<1>1. Seconds(t) \in Nat /\ Seconds(u) \in Nat
  BY SecondsNat
<1>2. Seconds(t) * Sec <= t /\ u < Seconds(u) * Sec + Sec
  BY SecondsBounds
<1>3. Seconds(t) * Sec \in Nat /\ Seconds(u) * Sec \in Nat
  BY <1>1
<1>4. Seconds(t) * Sec < Seconds(u) * Sec + Sec
  BY <1>2, <1>3
<1> QED BY <1>1, <1>4, TimesSec

LEMMA DueIs ==
  ASSUME NEW t \in Nat
  PROVE  TimerDue(t) = t + 2 * Sec + Jitter /\ TimerDue(t) \in Nat
  BY DEF TimerDue, PING_SEND_FREQUENCY

-----------------------------------------------------------------------------
(* Types *)

LEMMA InitType == Init => TypeOK
  BY SecondsNat DEF Init, TypeOK

LEMMA NextType == TypeOK /\ [Next]_vars => TypeOK'
<1> SUFFICES ASSUME TypeOK, [Next]_vars PROVE TypeOK'
  OBVIOUS
<1>1. Seconds(now) \in Nat
  BY SecondsNat DEF TypeOK
<1>2. CASE Connected
  <2>1. now \in Nat /\ due' = TimerDue(now) /\ now' = now
    BY <1>2 DEF Connected, TypeOK
  <2>2. due' \in Nat
    BY <2>1, DueIs
  <2>3. net' \subseteq 0 .. now'
    BY <1>2, <2>1 DEF Connected, TypeOK
  <2> QED BY <1>1, <1>2, <2>1, <2>2, <2>3 DEF Connected, TypeOK
<1>3. CASE OnTimer
  BY <1>3 DEF OnTimer, TypeOK
<1>4. CASE SendPing
  <2>1. /\ now \in Nat /\ armed \in Nat /\ now' = now
        /\ due' = TimerDue(armed)
    BY <1>4 DEF SendPing, TypeOK
  <2>2. due' \in Nat
    BY <2>1, DueIs
  <2>3. net' \subseteq 0 .. now'
    <3>1. net' \subseteq net \cup {now}
      BY <1>4 DEF SendPing
    <3> QED BY <2>1, <3>1 DEF TypeOK
  <2>4. last_write_time' \in 0 .. Seconds(now)
    BY <1>1, <1>4 DEF SendPing, TypeOK
  <2> QED BY <1>1, <1>4, <2>1, <2>2, <2>3, <2>4 DEF SendPing, TypeOK
<1>5. CASE Dies
  BY <1>5 DEF Dies, TypeOK
<1>6. CASE Arrives
  BY <1>1, <1>6 DEF Arrives, TypeOK
<1>7. CASE CheckAlive
  BY <1>7 DEF CheckAlive, TypeOK, NotAlive
<1>8. CASE Tick
  <2>1. now \in Nat /\ now' = now + 1
    BY <1>8 DEF Tick, TypeOK
  <2>2. Seconds(now') \in Nat /\ Seconds(now) <= Seconds(now')
    BY <2>1, SecondsNat, SecondsGrow
  <2> QED BY <1>1, <1>8, <2>1, <2>2 DEF Tick, TypeOK
<1>9. CASE UNCHANGED vars
  BY <1>9 DEF vars, TypeOK
<1> QED BY <1>2, <1>3, <1>4, <1>5, <1>6, <1>7, <1>8, <1>9 DEF Next

\* The times that are recorded are never in the future: the uint64_t differences
\* of CheckAlive and SendPingMsg do not wrap.
THEOREM TypeCorrect == Spec => []TypeOK
  BY InitType, NextType, PTL DEF Spec

-----------------------------------------------------------------------------
(* The inductive invariant *)

\* What Tick waits for has not been missed.
Punctual ==
  /\ check <= now
  /\ client # "dead" => now <= due
  /\ open => now <= check + 5 * Sec + Jitter
  /\ \A t \in net : now <= t + Delay

\* Until the client is connected nothing has been written, and the first check of
\* the session is still to come.
Joining ==
  client = "connecting" =>
    /\ net = {}
    /\ due = check + Delay /\ last_alive_time = Seconds(check)

Connects == client \in {"waiting", "pinging"}

\* A ping may be skipped, but then the last write is less than two seconds old,
\* and the timer was armed before: it expires in time for the next.
Periodic ==
  Connects =>
    /\ armed <= now
    /\ due < last_write_time * Sec + 4 * Sec + Jitter
    /\ client = "waiting" =>
         due = armed + 2 * Sec + Jitter /\ armed < last_write_time * Sec + 2 * Sec
    /\ client = "pinging" => due <= armed + Jitter

\* The session has heard the last write, or it is on its way and was written in
\* time after the one the session has heard.
Heard ==
  Connects =>
    /\ net = {} => last_write_time <= last_alive_time
    /\ \A t \in net : /\ Seconds(t) <= last_write_time
                      /\ t < last_alive_time * Sec + 4 * Sec + Jitter

\* A dead client is heard for Delay after its death at most, and while the
\* session stays open, its timer was armed within one period of that.
Silent ==
  client = "dead" /\ open =>
    /\ \A t \in net : t <= died
    /\ last_alive_time * Sec <= died + Delay
    /\ check <= died + Delay + 5 * Sec

KeepAliveInv ==
  TypeOK /\ Punctual /\ Joining /\ Periodic /\ Heard /\ Silent /\ NeverDropped

\* What is known of the numbers in every step of the proofs below.
LEMMA Numbers ==
  ASSUME TypeOK
  PROVE  /\ now \in Nat /\ armed \in Nat /\ due \in Nat /\ check \in Nat
         /\ died \in Nat
         /\ last_write_time \in Nat /\ last_alive_time \in Nat
         /\ last_write_time * Sec \in Nat /\ last_alive_time * Sec \in Nat
         /\ Seconds(now) \in Nat /\ Seconds(now) * Sec \in Nat
         /\ Seconds(now) * Sec <= now /\ now < Seconds(now) * Sec + Sec
         /\ last_write_time <= Seconds(now)
         /\ \A t \in net : t \in Nat /\ t <= now
<1>1. now \in Nat
  BY DEF TypeOK
<1>2. Seconds(now) \in Nat
  BY <1>1, SecondsNat
<1>3. last_write_time \in Nat /\ last_alive_time \in Nat /\ last_write_time <= Seconds(now)
  BY <1>2 DEF TypeOK
<1>4. /\ Seconds(now) * Sec \in Nat /\ last_write_time * Sec \in Nat
      /\ last_alive_time * Sec \in Nat
  BY <1>2, <1>3
<1>5. Seconds(now) * Sec <= now /\ now < Seconds(now) * Sec + Sec
  BY <1>1, SecondsBounds
<1>6. \A t \in net : t \in Nat /\ t <= now
  BY <1>1 DEF TypeOK
<1> QED BY <1>1, <1>2, <1>3, <1>4, <1>5, <1>6 DEF TypeOK

LEMMA InitInv == Init => KeepAliveInv
<1> SUFFICES ASSUME Init PROVE KeepAliveInv
  OBVIOUS
<1>1. TypeOK
  BY InitType
<1> QED
  BY <1>1 DEF Init, TypeOK, KeepAliveInv, Punctual, Joining, Periodic, Heard, Silent,
          NeverDropped, Connects

\* The session of a client that runs has been silent for less than five seconds.
LEMMA NotSilent ==
  ASSUME KeepAliveInv, client # "dead"
  PROVE  now < last_alive_time * Sec + 5 * Sec
<1> USE Numbers DEF KeepAliveInv
<1>1. CASE client = "connecting"
  <2>1. check \in Nat /\ last_alive_time = Seconds(check) /\ now <= check + Delay
    BY <1>1 DEF Joining, Punctual
  <2>2. check < last_alive_time * Sec + Sec
    BY <2>1, SecondsBounds
  <2> QED BY <2>1, <2>2
<1>2. CASE Connects /\ net = {}
  <2>1. last_write_time * Sec <= last_alive_time * Sec
    BY <1>2, TimesSec DEF Heard
  <2>2. now <= due /\ due < last_write_time * Sec + 4 * Sec + Jitter
    BY <1>2 DEF Punctual, Periodic
  <2> QED BY <2>1, <2>2
<1>3. CASE Connects /\ net # {}
  <2>1. PICK t \in net : TRUE
    BY <1>3
  <2>2. now <= t + Delay /\ t < last_alive_time * Sec + 4 * Sec + Jitter
    BY <1>3, <2>1 DEF Punctual, Heard
  <2> QED BY <2>1, <2>2
<1> QED BY <1>1, <1>2, <1>3 DEF Connects, TypeOK

\* When a ping is due, all that was written before has arrived.
LEMMA PingAlone ==
  ASSUME KeepAliveInv, Connects, PingDue
  PROVE  net = {}
<1> USE Numbers DEF KeepAliveInv
<1> SUFFICES ASSUME NEW t \in net PROVE FALSE
  OBVIOUS
<1>1. now <= t + Delay /\ Seconds(t) <= last_write_time /\ t \in Nat
  BY DEF Punctual, Heard
<1>2. t < Seconds(t) * Sec + Sec /\ Seconds(t) \in Nat
  BY <1>1, SecondsBounds, SecondsNat
<1>3. Seconds(t) * Sec <= last_write_time * Sec
  BY <1>1, <1>2, TimesSec
<1>4. Seconds(t) * Sec \in Nat
  BY <1>2
<1>5. Seconds(now) * Sec < (last_write_time + 1) * Sec + Sec
  BY <1>1, <1>2, <1>3, <1>4
<1>6. Seconds(now) <= last_write_time + 1
  BY <1>5, TimesSec
<1> QED BY <1>6 DEF PingDue, PING_SEND_FREQUENCY

-----------------------------------------------------------------------------
(* Every step keeps the invariant *)

LEMMA ConnectedInv == KeepAliveInv /\ Connected => KeepAliveInv'
<1> SUFFICES ASSUME KeepAliveInv, Connected PROVE KeepAliveInv'
  OBVIOUS
<1> USE Numbers DEF KeepAliveInv
<1>1. TypeOK'
  BY NextType DEF Next
<1>2. /\ client = "connecting" /\ client' = "waiting" /\ armed' = now
      /\ due' = now + 2 * Sec + Jitter
      /\ last_write_time' = Seconds(now) /\ net' = net \cup {now}
      /\ now' = now /\ open' = open /\ check' = check
      /\ last_alive_time' = last_alive_time /\ died' = died
  BY DueIs DEF Connected
<1>3. net = {}
  BY <1>2 DEF Joining
<1>4. Punctual'
  BY <1>2, <1>3 DEF Punctual
<1>5. Joining' /\ Silent'
  BY <1>2 DEF Joining, Silent
<1>6. last_write_time' * Sec = Seconds(now) * Sec
  BY <1>2
<1>7. Periodic'
  BY <1>2, <1>6 DEF Periodic, Connects
<1>8. now < last_alive_time * Sec + 4 * Sec + Jitter
  <2>1. check \in Nat /\ last_alive_time = Seconds(check) /\ now <= check + Delay
    BY <1>2 DEF Joining, Punctual
  <2>2. check < last_alive_time * Sec + Sec
    BY <2>1, SecondsBounds
  <2> QED BY <2>1, <2>2
<1>9. Heard'
  BY <1>2, <1>3, <1>8 DEF Heard
<1>10. NeverDropped'
  BY <1>2 DEF NeverDropped
<1> QED BY <1>1, <1>4, <1>5, <1>7, <1>9, <1>10

LEMMA OnTimerInv == KeepAliveInv /\ OnTimer => KeepAliveInv'
<1> SUFFICES ASSUME KeepAliveInv, OnTimer PROVE KeepAliveInv'
  OBVIOUS
<1> USE Numbers DEF KeepAliveInv
<1>1. TypeOK'
  BY NextType DEF Next
<1>2. /\ client = "waiting" /\ client' = "pinging"
      /\ now >= armed + 2 * Sec /\ armed' = now
      /\ due' = due /\ last_write_time' = last_write_time /\ net' = net
      /\ now' = now /\ open' = open /\ check' = check
      /\ last_alive_time' = last_alive_time /\ died' = died
  BY DEF OnTimer, PING_SEND_FREQUENCY
<1>3. Punctual' /\ Joining' /\ Silent' /\ NeverDropped'
  BY <1>2 DEF Punctual, Joining, Silent, NeverDropped
<1>4. Periodic' /\ Heard'
  BY <1>2 DEF Periodic, Heard, Connects
<1> QED BY <1>1, <1>3, <1>4

LEMMA SendPingInv == KeepAliveInv /\ SendPing => KeepAliveInv'
<1> SUFFICES ASSUME KeepAliveInv, SendPing PROVE KeepAliveInv'
  OBVIOUS
<1> USE Numbers DEF KeepAliveInv
<1>1. TypeOK'
  BY NextType DEF Next
<1>2. /\ client = "pinging" /\ client' = "waiting"
      /\ due' = armed + 2 * Sec + Jitter /\ armed' = armed
      /\ now' = now /\ open' = open /\ check' = check
      /\ last_alive_time' = last_alive_time /\ died' = died
  BY DueIs DEF SendPing
<1>3. Joining' /\ Silent' /\ NeverDropped'
  BY <1>2 DEF Joining, Silent, NeverDropped
<1>4. armed <= now /\ now <= due'
  BY <1>2 DEF Periodic, Punctual, Connects
<1>5. CASE PingDue
  <2>1. net = {} /\ last_write_time' = Seconds(now) /\ net' = {now}
    BY <1>2, <1>5, PingAlone DEF SendPing, Connects
  <2>2. last_write_time' * Sec = Seconds(now) * Sec
    BY <2>1
  <2>3. Periodic' /\ Punctual'
    BY <1>2, <1>4, <2>1, <2>2 DEF Periodic, Punctual, Connects
  <2>4. now < last_alive_time * Sec + 4 * Sec + Jitter
    <3>1. last_write_time * Sec <= last_alive_time * Sec
      BY <1>2, <2>1, TimesSec DEF Heard, Connects
    <3>2. now <= due /\ due < last_write_time * Sec + 4 * Sec + Jitter
      BY <1>2 DEF Punctual, Periodic, Connects
    <3> QED BY <3>1, <3>2
  <2>5. Heard'
    BY <1>2, <2>1, <2>4 DEF Heard
  <2> QED BY <1>1, <1>3, <2>3, <2>5
<1>6. CASE ~PingDue
  <2>1. last_write_time' = last_write_time /\ net' = net
    BY <1>6 DEF SendPing
  <2>2. Seconds(now) <= last_write_time + 1
    BY <1>6 DEF PingDue, PING_SEND_FREQUENCY
  <2>3. Seconds(now) * Sec <= (last_write_time + 1) * Sec
    BY <2>2, TimesSec
  <2>4. now < last_write_time * Sec + 2 * Sec
    BY <2>3
  <2>5. Periodic' /\ Punctual'
    BY <1>2, <1>4, <2>1, <2>4 DEF Periodic, Punctual, Connects
  <2>6. Heard'
    BY <1>2, <2>1 DEF Heard, Connects
  <2> QED BY <1>1, <1>3, <2>5, <2>6
<1> QED BY <1>5, <1>6

LEMMA DiesInv == KeepAliveInv /\ Dies => KeepAliveInv'
<1> SUFFICES ASSUME KeepAliveInv, Dies PROVE KeepAliveInv'
  OBVIOUS
<1> USE Numbers DEF KeepAliveInv
<1>1. TypeOK'
  BY NextType DEF Next
<1>2. /\ client # "dead" /\ client' = "dead" /\ died' = now
      /\ due' = due /\ net' = net /\ now' = now /\ open' = open
      /\ check' = check /\ last_alive_time' = last_alive_time
  BY DEF Dies
<1>3. Punctual' /\ Joining' /\ Periodic' /\ Heard' /\ NeverDropped'
  BY <1>2 DEF Punctual, Joining, Periodic, Heard, NeverDropped, Connects
<1>4. last_alive_time * Sec <= now
  <2>1. last_alive_time <= Seconds(now)
    BY DEF TypeOK
  <2>2. last_alive_time * Sec <= Seconds(now) * Sec
    BY <2>1, TimesSec
  <2> QED BY <2>2
<1>5. check <= now
  BY DEF Punctual
<1>6. Silent'
  BY <1>2, <1>4, <1>5 DEF Silent
<1> QED BY <1>1, <1>3, <1>6

LEMMA ArrivesInv == KeepAliveInv /\ Arrives => KeepAliveInv'
<1> SUFFICES ASSUME KeepAliveInv, Arrives PROVE KeepAliveInv'
  OBVIOUS
<1> USE Numbers DEF KeepAliveInv
<1>1. TypeOK'
  BY NextType DEF Next
<1>2. PICK t \in net : net' = net \ {t}
  BY DEF Arrives
<1>3. /\ client' = client /\ armed' = armed /\ due' = due
      /\ last_write_time' = last_write_time
      /\ now' = now /\ open' = open /\ check' = check /\ died' = died
      /\ last_alive_time' = IF open THEN Seconds(now) ELSE last_alive_time
  BY DEF Arrives
<1>4. client # "connecting"
  BY <1>2 DEF Joining
<1>5. Punctual' /\ Joining' /\ NeverDropped'
  BY <1>2, <1>3, <1>4 DEF Punctual, Joining, NeverDropped
<1>6. Periodic'
  BY <1>3 DEF Periodic, Connects
<1>7. Heard'
  <2>1. SUFFICES ASSUME Connects PROVE Heard'
    BY <1>3 DEF Heard, Connects
  <2>2. last_alive_time' = Seconds(now)
    BY <1>3, <2>1 DEF NeverDropped, Connects
  <2>3. last_alive_time' * Sec = Seconds(now) * Sec
    BY <2>2
  <2>4. last_write_time' <= last_alive_time'
    BY <1>3, <2>2
  <2>5. \A u \in net : Seconds(u) <= last_write_time
    BY <2>1 DEF Heard
  <2> QED BY <1>2, <1>3, <2>3, <2>4, <2>5 DEF Heard
<1>8. Silent'
  <2>1. SUFFICES ASSUME client = "dead", open PROVE Silent'
    BY <1>3 DEF Silent
  <2>2. last_alive_time' * Sec = Seconds(now) * Sec
    BY <1>3, <2>1
  <2>3. t <= died /\ now <= t + Delay
    BY <2>1 DEF Silent, Punctual
  <2> QED BY <1>2, <1>3, <2>1, <2>2, <2>3 DEF Silent
<1> QED BY <1>1, <1>5, <1>6, <1>7, <1>8

LEMMA CheckAliveInv == KeepAliveInv /\ CheckAlive => KeepAliveInv'
<1> SUFFICES ASSUME KeepAliveInv, CheckAlive PROVE KeepAliveInv'
  OBVIOUS
<1> USE Numbers DEF KeepAliveInv
<1>1. TypeOK'
  BY NextType DEF Next
<1>2. /\ open /\ now >= check + 5 * Sec /\ check' = now
      /\ open' = ~NotAlive
      /\ client' = client /\ armed' = armed /\ due' = due
      /\ last_write_time' = last_write_time /\ net' = net
      /\ now' = now /\ last_alive_time' = last_alive_time /\ died' = died
  BY DEF CheckAlive, CHECK_ALIVE_TIME
<1>3. Punctual'
  BY <1>2 DEF Punctual
<1>4. client # "connecting"
  BY <1>2 DEF Joining, Punctual
<1>5. Joining'
  BY <1>2, <1>4 DEF Joining
<1>6. Periodic' /\ Heard'
  BY <1>2 DEF Periodic, Heard, Connects
<1>7. NeverDropped'
  <2>1. SUFFICES ASSUME client # "dead" PROVE open'
    BY <1>2 DEF NeverDropped
  <2>2. Seconds(now) * Sec < (last_alive_time + 4) * Sec + Sec
    BY <2>1, NotSilent
  <2>3. Seconds(now) <= last_alive_time + 4
    BY <2>2, TimesSec
  <2>4. ~ NotAlive
    BY <2>3 DEF NotAlive, CHECK_ALIVE_TIME
  <2> QED BY <1>2, <2>4, Zenon
<1>8. Silent'
  <2>1. SUFFICES ASSUME client = "dead", ~NotAlive PROVE Silent'
    BY <1>2 DEF Silent
  <2>2. Seconds(now) <= last_alive_time + 4
    BY <2>1 DEF NotAlive, CHECK_ALIVE_TIME
  <2>3. Seconds(now) * Sec <= (last_alive_time + 4) * Sec
    BY <2>2, TimesSec
  <2>4. now < last_alive_time * Sec + 5 * Sec
    BY <2>3
  <2> QED BY <1>2, <2>1, <2>4 DEF Silent
<1> QED BY <1>1, <1>3, <1>5, <1>6, <1>7, <1>8

LEMMA TickInv == KeepAliveInv /\ Tick => KeepAliveInv'
<1> SUFFICES ASSUME KeepAliveInv, Tick PROVE KeepAliveInv'
  OBVIOUS
<1> USE Numbers DEF KeepAliveInv
<1>1. TypeOK'
  BY NextType DEF Next
<1>2. /\ now' = now + 1
      /\ client # "dead" => now < due
      /\ open => now < check + 5 * Sec + Jitter
      /\ \A t \in net : now < t + Delay
      /\ client' = client /\ armed' = armed /\ due' = due
      /\ last_write_time' = last_write_time /\ net' = net
      /\ open' = open /\ check' = check
      /\ last_alive_time' = last_alive_time /\ died' = died
  BY DEF Tick, CHECK_ALIVE_TIME
<1>3. Punctual'
  BY <1>2 DEF Punctual
<1>4. Joining' /\ Silent' /\ NeverDropped'
  BY <1>2 DEF Joining, Silent, NeverDropped
<1>5. Periodic' /\ Heard'
  BY <1>2 DEF Periodic, Heard, Connects
<1> QED BY <1>1, <1>3, <1>4, <1>5

LEMMA NextInv == KeepAliveInv /\ [Next]_vars => KeepAliveInv'
<1> SUFFICES ASSUME KeepAliveInv, [Next]_vars PROVE KeepAliveInv'
  OBVIOUS
<1>1. CASE UNCHANGED vars
  BY <1>1 DEF vars, KeepAliveInv, TypeOK, Punctual, Joining, Periodic, Heard,
              Silent, NeverDropped, Connects
<1> QED
  BY <1>1, ConnectedInv, OnTimerInv, SendPingInv, DiesInv, ArrivesInv,
     CheckAliveInv, TickInv DEF Next

LEMMA Invariant == Spec => []KeepAliveInv
  BY InitInv, NextInv, PTL DEF Spec

-----------------------------------------------------------------------------

\* The server never closes the session of a client that runs, whatever the phases
\* of the two timers and however the seconds are rounded, as long as handlers and
\* messages are not late by more than a second together.
THEOREM NeverDroppedCorrect == Spec => []NeverDropped
<1>1. KeepAliveInv => NeverDropped
  BY DEF KeepAliveInv
<1> QED BY <1>1, Invariant, PTL

\* A connected client writes again within two periods of its timer, counted from
\* the second it recorded for its last write.
THEOREM PingsInTimeCorrect == Spec => []PingsInTime
<1>1. KeepAliveInv => PingsInTime
  <2> SUFFICES ASSUME KeepAliveInv, Connects
               PROVE  now <= (last_write_time + 4) * Sec + Jitter
    BY DEF PingsInTime, Connects, PING_SEND_FREQUENCY
  <2> USE Numbers DEF KeepAliveInv
  <2>1. now <= due /\ due < last_write_time * Sec + 4 * Sec + Jitter
    BY DEF Punctual, Periodic, Connects
  <2> QED BY <2>1
<1> QED BY <1>1, Invariant, PTL

\* The session of a client that has died is closed within two periods of the
\* session's timer, after its last message has arrived.
THEOREM DeadFoundCorrect == Spec => []DeadFound
<1>1. KeepAliveInv => DeadFound
  <2> SUFFICES ASSUME KeepAliveInv, client = "dead", open
               PROVE  now <= died + 10 * Sec + Delay + Jitter
    BY DEF DeadFound, CHECK_ALIVE_TIME
  <2> USE Numbers DEF KeepAliveInv
  <2>1. now <= check + 5 * Sec + Jitter /\ check <= died + Delay + 5 * Sec
    BY DEF Punctual, Silent
  <2> QED BY <2>1
<1> QED BY <1>1, Invariant, PTL
=============================================================================
