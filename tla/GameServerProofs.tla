-------------------------- MODULE GameServerProofs --------------------------
(***************************************************************************)
(* Theorems about GameServer, for every number of connections and every    *)
(* amount of traffic: its types, and that the server implements            *)
(* UserRegistry however its threads interleave.                            *)
(***************************************************************************)
EXTENDS GameServer, TLAPS

USE ServerAssumption

-----------------------------------------------------------------------------
(* The registry.  The theorems of UserRegistryProofs hold of the instance R *)
(* of UserRegistry, whose definitions are those of the instance RP.         *)

RP == INSTANCE UserRegistryProofs

LEMMA SameStep == [R!Next]_(R!registry) <=> [RP!Next]_(RP!registry)
<1>1. R!Next <=> RP!Next
  BY DEF R!Next, RP!Next, R!Added, RP!Added, R!AddSession, RP!AddSession,
         R!NextId, RP!NextId, R!Login, RP!Login, R!Refuse, RP!Refuse,
         R!Grant, RP!Grant, R!Taken, RP!Taken, R!CleanUp, RP!CleanUp,
         R!DelUser, RP!DelUser, R!AddUser, RP!AddUser, R!FindUser,
         RP!FindUser, R!DelSession, RP!DelSession, R!registry, RP!registry
<1>2. (UNCHANGED R!registry) <=> (UNCHANGED RP!registry)
  BY DEF R!registry, RP!registry
<1> QED BY <1>1, <1>2

LEMMA SameRegistry ==
  /\ R!Init <=> RP!Init
  /\ R!TypeOK <=> RP!TypeOK
  /\ R!Exclusive <=> RP!Exclusive
  /\ R!Registered <=> RP!Registered
<1>1. R!Init <=> RP!Init
  BY DEF R!Init, RP!Init, R!Ids, RP!Ids
<1>2. R!TypeOK <=> RP!TypeOK
  BY DEF R!TypeOK, RP!TypeOK, R!Ids, RP!Ids
<1>3. R!Exclusive <=> RP!Exclusive
  BY DEF R!Exclusive, RP!Exclusive, R!NormalClients, RP!NormalClients,
         R!Holds, RP!Holds
<1>4. R!Registered <=> RP!Registered
  <2>1. R!AddedSessions = RP!AddedSessions
    BY DEF R!AddedSessions, RP!AddedSessions, R!Added, RP!Added
  <2>2. R!NoWrap <=> RP!NoWrap
    BY <2>1 DEF R!NoWrap, RP!NoWrap, R!Cardinality, RP!Cardinality
  <2>3. \A s \in Sessions :
          /\ R!Added(s) <=> RP!Added(s)
          /\ R!GetSession(session_id[s]) = RP!GetSession(session_id[s])
    BY DEF R!Added, RP!Added, R!GetSession, RP!GetSession
  <2> QED BY <2>2, <2>3, Zenon DEF R!Registered, RP!Registered
<1> QED BY <1>1, <1>2, <1>3, <1>4

LEMMA RegistryType ==
  R!TypeOK /\ [R!Next]_(R!registry) => R!TypeOK'
<1>1. R!TypeOK' <=> RP!TypeOK'
  BY DEF R!TypeOK, RP!TypeOK, R!Ids, RP!Ids
<1> QED
  BY <1>1, SameStep, SameRegistry, RP!NextType DEF RP!RegistryAssumption

LEMMA NextIdNonzero ==
  ASSUME R!TypeOK
  PROVE  R!NextId(last_id) # 0
  BY DEF R!TypeOK, R!Ids, R!NextId

-----------------------------------------------------------------------------
(* The queue q of the logic thread, when ids are the session_id_ of the     *)
(* sessions and acc the accepted ones: AddSession is posted once for each   *)
(* of them, and before everything else.                                     *)

IsAdd(task, s) == task.run = "AddSession" /\ task.s = s

\* Closures are of accepted sessions, and AddSession is still to do.
QueueOwned(q, ids, acc) ==
  \A i \in DOMAIN q :
    q[i].s \in acc /\ (q[i].run = "AddSession" => ids[q[i].s] = 0)

QueueOnce(q) ==
  \A i, j \in DOMAIN q :
    q[i].run = "AddSession" /\ q[j].run = "AddSession" /\ q[i].s = q[j].s
      => i = j

QueueOrder(q, ids) ==
  \A i \in DOMAIN q :
    \/ q[i].run = "AddSession"
    \/ ids[q[i].s] # 0
    \/ \E j \in 1 .. i - 1 : IsAdd(q[j], q[i].s)

QueueAll(q, ids, acc) ==
  \A s \in acc : ids[s] # 0 \/ \E j \in DOMAIN q : IsAdd(q[j], s)

QueueOK(q, ids, acc) ==
  /\ QueueOwned(q, ids, acc) /\ QueueOnce(q) /\ QueueOrder(q, ids)
  /\ QueueAll(q, ids, acc)
  /\ \A s \in Sessions \ acc : ids[s] = 0

QueueInv == QueueOK(logicq, session_id, accepted)

\* A queue with one more element.
LEMMA AppendFacts ==
  ASSUME NEW q \in Seq(Tasks), NEW task \in Tasks
  PROVE  /\ Append(q, task) \in Seq(Tasks)
         /\ Len(q) \in Nat /\ DOMAIN q = 1 .. Len(q)
         /\ DOMAIN Append(q, task) = 1 .. Len(q) + 1
         /\ \A i \in 1 .. Len(q) : Append(q, task)[i] = q[i]
         /\ Append(q, task)[Len(q) + 1] = task
  OBVIOUS

\* Any other closure of an accepted session may be posted at any time.
LEMMA AppendQueue ==
  ASSUME NEW q \in Seq(Tasks), NEW ids, NEW acc, QueueOK(q, ids, acc),
         NEW task \in Tasks, task.run # "AddSession", task.s \in acc
  PROVE  QueueOK(Append(q, task), ids, acc)
<1> DEFINE n == Len(q)
           r == Append(q, task)
<1>1. /\ n \in Nat /\ DOMAIN q = 1 .. n /\ DOMAIN r = 1 .. n + 1
      /\ \A i \in 1 .. n : r[i] = q[i]
      /\ r[n + 1] = task
  BY AppendFacts
<1> HIDE DEF n, r
<1>2. \A i \in DOMAIN r : i \in 1 .. n \/ i = n + 1
  BY <1>1
<1>3. QueueOwned(r, ids, acc)
  BY <1>1, <1>2 DEF QueueOK, QueueOwned
<1>4. QueueOnce(r)
  BY <1>1, <1>2 DEF QueueOK, QueueOnce
<1>5. \A s \in acc : ids[s] # 0 \/ \E j \in 1 .. n : IsAdd(r[j], s)
  BY <1>1 DEF QueueOK, QueueAll, IsAdd
<1>6. QueueAll(r, ids, acc)
  BY <1>1, <1>5 DEF QueueAll
<1>7. QueueOrder(r, ids)
  <2> SUFFICES ASSUME NEW i \in 1 .. n + 1, r[i].run # "AddSession",
                      ids[r[i].s] = 0
               PROVE  \E j \in 1 .. i - 1 : IsAdd(r[j], r[i].s)
    BY <1>1 DEF QueueOrder
  <2>1. CASE i \in 1 .. n
    <3>1. PICK j \in 1 .. i - 1 : IsAdd(q[j], q[i].s)
      BY <1>1, <2>1 DEF QueueOK, QueueOrder
    <3>2. j \in 1 .. n
      BY <1>1, <2>1
    <3> QED BY <1>1, <2>1, <3>1, <3>2
  <2>2. CASE i = n + 1
    BY <1>1, <1>5, <2>2
  <2> QED BY <1>2, <2>1, <2>2, <1>1
<1>8. QueueOK(r, ids, acc)
  BY <1>3, <1>4, <1>6, <1>7 DEF QueueOK
<1> QED BY <1>8 DEF r

\* A new session posts its AddSession.
LEMMA AcceptQueue ==
  ASSUME NEW q \in Seq(Tasks), NEW ids, NEW acc, QueueOK(q, ids, acc),
         NEW s \in Sessions, s \notin acc,
         NEW task \in Tasks, IsAdd(task, s)
  PROVE  QueueOK(Append(q, task), ids, acc \cup {s})
<1> DEFINE n == Len(q)
           r == Append(q, task)
<1>1. /\ n \in Nat /\ DOMAIN q = 1 .. n /\ DOMAIN r = 1 .. n + 1
      /\ \A i \in 1 .. n : r[i] = q[i]
      /\ r[n + 1] = task
  BY AppendFacts
<1> HIDE DEF n, r
<1>2. \A i \in DOMAIN r : i \in 1 .. n \/ i = n + 1
  BY <1>1
<1>3. /\ ids[s] = 0 /\ task.s = s /\ task.run = "AddSession"
      /\ \A i \in 1 .. n : q[i].s \in acc /\ q[i].s # s
  BY <1>1 DEF QueueOK, QueueOwned, IsAdd
<1>4. QueueOwned(r, ids, acc \cup {s})
  BY <1>1, <1>2, <1>3 DEF QueueOK, QueueOwned
<1>5. QueueOnce(r)
  BY <1>1, <1>2, <1>3 DEF QueueOK, QueueOnce
<1>6. \A t \in acc : ids[t] # 0 \/ \E j \in 1 .. n : IsAdd(r[j], t)
  BY <1>1 DEF QueueOK, QueueAll, IsAdd
<1>7. QueueAll(r, ids, acc \cup {s})
  <2>1. n + 1 \in DOMAIN r /\ IsAdd(r[n + 1], s)
    BY <1>1
  <2>2. \A j \in 1 .. n : j \in DOMAIN r
    BY <1>1
  <2> QED BY <1>6, <2>1, <2>2 DEF QueueAll
<1>8. QueueOrder(r, ids)
  <2> SUFFICES ASSUME NEW i \in 1 .. n + 1, r[i].run # "AddSession",
                      ids[r[i].s] = 0
               PROVE  \E j \in 1 .. i - 1 : IsAdd(r[j], r[i].s)
    BY <1>1 DEF QueueOrder
  <2>1. i \in 1 .. n
    BY <1>1, <1>2, <1>3
  <2>2. PICK j \in 1 .. i - 1 : IsAdd(q[j], q[i].s)
    BY <1>1, <2>1 DEF QueueOK, QueueOrder
  <2>3. j \in 1 .. n
    BY <1>1, <2>1
  <2> QED BY <1>1, <2>1, <2>2, <2>3
<1>9. QueueOK(r, ids, acc \cup {s})
  BY <1>4, <1>5, <1>7, <1>8 DEF QueueOK
<1> QED BY <1>9 DEF r

\* The queue without its first closure, as a function.
LEMMA TailFacts ==
  ASSUME NEW q \in Seq(Tasks), q # <<>>
  PROVE  /\ Len(q) \in Nat /\ Len(q) > 0 /\ DOMAIN q = 1 .. Len(q)
         /\ Tail(q) \in Seq(Tasks) /\ DOMAIN Tail(q) = 1 .. Len(q) - 1
         /\ \A i \in 1 .. Len(q) - 1 : Tail(q)[i] = q[i + 1]
         /\ Head(q) = q[1] /\ Head(q) \in Tasks
  OBVIOUS

\* The first closure is run: AddSession numbers its session, others change
\* no number.
LEMMA TailQueue ==
  ASSUME NEW q \in Seq(Tasks), NEW ids, NEW new, NEW acc, QueueOK(q, ids, acc),
         q # <<>>, acc \subseteq Sessions,
         \A s \in Sessions :
           new[s] # 0 <=> ids[s] # 0 \/ IsAdd(Head(q), s)
  PROVE  QueueOK(Tail(q), new, acc)
<1> DEFINE n == Len(q)
           r == Tail(q)
<1>1. /\ n \in Nat /\ n > 0 /\ DOMAIN q = 1 .. n /\ DOMAIN r = 1 .. n - 1
      /\ \A i \in 1 .. n - 1 : r[i] = q[i + 1]
      /\ Head(q) = q[1]
  BY TailFacts
<1> HIDE DEF n, r
<1>2. \A i \in DOMAIN r :
        /\ i + 1 \in DOMAIN q /\ i + 1 # 1 /\ i \in Nat /\ r[i] = q[i + 1]
  BY <1>1
<1>3. 1 \in DOMAIN q
  BY <1>1
<1>4. \A s \in acc : new[s] # 0 <=> ids[s] # 0 \/ IsAdd(q[1], s)
  BY <1>1
<1>5. QueueOwned(r, new, acc)
  BY <1>2, <1>3, <1>4 DEF QueueOK, QueueOwned, QueueOnce, IsAdd
<1>6. QueueOnce(r)
  <2> SUFFICES ASSUME NEW i \in DOMAIN r, NEW j \in DOMAIN r,
                      r[i].run = "AddSession", r[j].run = "AddSession",
                      r[i].s = r[j].s
               PROVE  i = j
    BY DEF QueueOnce
  <2>1. i + 1 = j + 1
    BY <1>2 DEF QueueOK, QueueOnce
  <2> QED BY <1>2, <2>1
<1>7. ASSUME NEW j \in DOMAIN q, NEW s \in acc, IsAdd(q[j], s), new[s] = 0
      PROVE  j - 1 \in DOMAIN r /\ r[j - 1] = q[j]
  <2>1. j # 1
    BY <1>4, <1>7
  <2>2. j - 1 \in 1 .. n - 1 /\ j - 1 + 1 = j
    BY <1>1, <2>1
  <2> QED BY <1>1, <2>2
<1>8. QueueAll(r, new, acc)
  BY <1>4, <1>7 DEF QueueOK, QueueAll
<1>9. QueueOrder(r, new)
  <2> SUFFICES ASSUME NEW i \in DOMAIN r, r[i].run # "AddSession",
                      new[r[i].s] = 0
               PROVE  \E j \in 1 .. i - 1 : IsAdd(r[j], r[i].s)
    BY DEF QueueOrder
  <2>1. r[i].s \in acc /\ ids[r[i].s] = 0
    BY <1>2, <1>4 DEF QueueOK, QueueOwned
  <2>2. PICK j \in 1 .. i + 1 - 1 : IsAdd(q[j], q[i + 1].s)
    BY <1>2, <2>1 DEF QueueOK, QueueOrder
  <2>3. j \in DOMAIN q
    BY <1>1, <1>2
  <2>4. j - 1 \in DOMAIN r /\ r[j - 1] = q[j]
    BY <1>2, <1>7, <2>1, <2>2, <2>3
  <2>5. j - 1 \in 1 .. i - 1
    BY <1>1, <1>2, <2>2, <2>4
  <2> QED BY <1>2, <2>2, <2>4, <2>5
<1>10. \A s \in Sessions \ acc : new[s] = 0
  BY <1>3, <1>1 DEF QueueOK, QueueOwned, IsAdd
<1>11. QueueOK(r, new, acc)
  BY <1>5, <1>6, <1>8, <1>9, <1>10 DEF QueueOK
<1> QED BY <1>11 DEF r

-----------------------------------------------------------------------------
(* The invariant of the server, and what a step has to show to keep it.     *)

ChannelsInv ==
  /\ \A s \in accepted : C!Sound(conn[s], closes[s])
  /\ \A s \in Sessions \ accepted : conn[s] = C!Connected

ServerInv == TypeOK /\ ChannelsInv /\ QueueInv

\* A step keeps the invariant and is a step of the registry, or none.
Kept == ServerInv' /\ [R!Next]_(R!registry)

\* A session with an operation in progress or a handler queued is accepted.
LEMMA ActiveAccepted ==
  ASSUME ServerInv, NEW s \in Sessions,
         \/ conn[s].reading # "none" \/ conn[s].writing > 0
         \/ conn[s].armed \/ conn[s].ioq # <<>>
  PROVE  /\ s \in accepted /\ conn[s] \in C!Channels
         /\ closes[s] \in Nat /\ C!Sound(conn[s], closes[s])
<1>1. s \in accepted
  BY DEF ServerInv, ChannelsInv, C!Connected
<1> QED BY <1>1 DEF ServerInv, ChannelsInv, TypeOK

LEMMA SameRegistryStep ==
  ASSUME R!TypeOK, UNCHANGED registry
  PROVE  R!TypeOK' /\ [R!Next]_(R!registry)
<1>1. UNCHANGED R!registry
  BY DEF registry, R!registry
<1> QED BY <1>1, RegistryType

\* What a thread does to one channel, without the registry.
LEMMA ConnStep ==
  ASSUME ServerInv, NEW s \in accepted, NEW d, NEW n \in Nat, C!Sound(d, n),
         conn' = [conn EXCEPT ![s] = d], closes' = [closes EXCEPT ![s] = n],
         accepted' = accepted,
         R!TypeOK', [R!Next]_(R!registry),
         alive' \in [Sessions -> BOOLEAN],
         frames' \in [Sessions -> 0 .. MaxFrames],
         logins' \in [Sessions -> 0 .. MaxLogins],
         logicq' \in Seq(Tasks), QueueOK(logicq', session_id', accepted)
  PROVE  Kept
<1>1. d \in C!Channels /\ s \in Sessions
  BY DEF C!Sound, C!Core, ServerInv, TypeOK
<1>2. TypeOK'
  BY <1>1 DEF ServerInv, TypeOK
<1>3. ChannelsInv'
  BY <1>1 DEF ServerInv, ChannelsInv, TypeOK
<1>4. QueueInv'
  BY DEF QueueInv
<1> QED BY <1>2, <1>3, <1>4 DEF Kept, ServerInv

\* The io threads and the network when they post nothing to the logic thread.
LEMMA QuietStep ==
  ASSUME ServerInv, NEW s \in accepted, NEW d, C!Sound(d, closes[s]),
         conn' = [conn EXCEPT ![s] = d],
         UNCHANGED <<registry, accepted, logicq, closes>>,
         alive' \in [Sessions -> BOOLEAN],
         frames' \in [Sessions -> 0 .. MaxFrames],
         logins' \in [Sessions -> 0 .. MaxLogins]
  PROVE  Kept
<1>1. R!TypeOK' /\ [R!Next]_(R!registry)
  BY SameRegistryStep DEF ServerInv, TypeOK
<1>2. closes[s] \in Nat /\ closes' = [closes EXCEPT ![s] = closes[s]]
  BY DEF ServerInv, TypeOK
<1>3. logicq' \in Seq(Tasks) /\ QueueOK(logicq', session_id', accepted)
  BY DEF ServerInv, TypeOK, QueueInv, registry
<1> QED BY <1>1, <1>2, <1>3, ConnStep

\* The io threads when they post a closure to the logic thread.
LEMMA PostStep ==
  ASSUME ServerInv, NEW s \in accepted, NEW d, NEW n \in Nat, C!Sound(d, n),
         conn' = [conn EXCEPT ![s] = d], closes' = [closes EXCEPT ![s] = n],
         NEW task \in Tasks, PostLogic(task),
         task.s = s, task.run # "AddSession",
         UNCHANGED <<registry, accepted, environment>>,
         alive' \in [Sessions -> BOOLEAN]
  PROVE  Kept
<1>1. R!TypeOK' /\ [R!Next]_(R!registry)
  BY SameRegistryStep DEF ServerInv, TypeOK
<1>2. logicq' = Append(logicq, task) /\ session_id' = session_id
  BY DEF PostLogic, registry
<1>3. logicq' \in Seq(Tasks)
  BY <1>2, AppendFacts DEF ServerInv, TypeOK
<1>4. QueueOK(logicq', session_id', accepted)
  BY <1>2, AppendQueue DEF ServerInv, TypeOK, QueueInv
<1>5. /\ frames' \in [Sessions -> 0 .. MaxFrames]
      /\ logins' \in [Sessions -> 0 .. MaxLogins]
      /\ accepted' = accepted
  BY DEF ServerInv, TypeOK, environment
<1> QED BY <1>1, <1>3, <1>4, <1>5, ConnStep

\* Close, from a handler that leaves the channel as c.
LEMMA CloseStep ==
  ASSUME ServerInv, NEW s \in accepted, NEW c, C!Core(c), CloseSession(s, c),
         UNCHANGED <<registry, accepted, environment>>,
         alive' \in [Sessions -> BOOLEAN]
  PROVE  Kept
<1> DEFINE task == Task("CleanUp", s, NoMsg)
<1>1. /\ task \in Tasks /\ task.s = s /\ task.run # "AddSession"
      /\ PostLogic(task)
  BY DEF Task, Tasks, CloseSession, ServerInv, TypeOK
<1>2. /\ closes[s] + 1 \in Nat /\ closes[s] + 1 # 0
      /\ closes' = [closes EXCEPT ![s] = closes[s] + 1]
  BY DEF CloseSession, ServerInv, TypeOK
<1>3. C!Sound(C!Close(c), closes[s] + 1)
  BY <1>2, C!CloseCore DEF C!Sound
<1>4. conn' = [conn EXCEPT ![s] = C!Close(c)]
  BY DEF CloseSession
<1> HIDE DEF task
<1> QED BY <1>1, <1>2, <1>3, <1>4, PostStep

-----------------------------------------------------------------------------
(* The steps that keep the invariant *)

LEMMA AcceptKept ==
  ASSUME ServerInv, NEW s \in Sessions, Accept(s)
  PROVE  Kept
<1> DEFINE task == Task("AddSession", s, NoMsg)
           d == C!AsyncRead(C!TimerLoop(C!Connected), "header")
<1>1. s \notin accepted /\ conn[s] = C!Connected
  BY DEF Accept, ServerInv, ChannelsInv
<1>2. task \in Tasks /\ IsAdd(task, s)
  BY DEF Task, Tasks, IsAdd
<1>3. C!Sound(d, 0) /\ (closes[s] \in Nat => C!Sound(d, closes[s]))
  BY C!ConnectedSound DEF C!Sound
<1>4. conn' = [conn EXCEPT ![s] = d] /\ logicq' = Append(logicq, task)
  BY <1>1 DEF Accept, PostLogic
<1>5. /\ accepted' = accepted \cup {s}
      /\ UNCHANGED <<registry, alive, closes, environment>>
  BY DEF Accept
<1> HIDE DEF task, d
<1>6. R!TypeOK' /\ [R!Next]_(R!registry)
  BY <1>5, SameRegistryStep DEF ServerInv, TypeOK
<1>7. logicq' \in Seq(Tasks)
  BY <1>2, <1>4, AppendFacts DEF ServerInv, TypeOK
<1>8. QueueOK(logicq', session_id', accepted')
  BY <1>1, <1>2, <1>4, <1>5, AcceptQueue
     DEF ServerInv, TypeOK, QueueInv, registry
<1>9. TypeOK'
  BY <1>3, <1>4, <1>5, <1>6, <1>7
     DEF ServerInv, TypeOK, C!Sound, C!Core, environment
<1>10. ChannelsInv'
  BY <1>3, <1>4, <1>5 DEF ServerInv, ChannelsInv, TypeOK
<1> QED BY <1>6, <1>8, <1>9, <1>10 DEF Kept, ServerInv, QueueInv

LEMMA NetworkKept ==
  ASSUME ServerInv, NEW s \in Sessions, Network(s)
  PROVE  Kept
<1> DEFINE c == conn[s]
<1>1. CASE HeaderArrives(s)
  <2> PICK ec \in {"ok", "invalid"} :
        conn' = [conn EXCEPT ![s] = C!ReadCompletes(c, ec, NoMsg)]
    BY <1>1 DEF HeaderArrives
  <2>1. s \in accepted /\ C!Sound(c, closes[s]) /\ c.reading = "header"
    BY <1>1, ActiveAccepted DEF HeaderArrives
  <2>2. C!Handler(c.reading, ec, NoMsg) \in C!Handlers
    BY <2>1 DEF C!Handler, C!Handlers
  <2>3. C!Sound(C!ReadCompletes(c, ec, NoMsg), closes[s])
    BY <2>1, <2>2, C!ReadCompletesSound
  <2>4. /\ frames' \in [Sessions -> 0 .. MaxFrames]
        /\ logins' \in [Sessions -> 0 .. MaxLogins]
        /\ alive' \in [Sessions -> BOOLEAN]
        /\ UNCHANGED <<registry, accepted, logicq, closes>>
    BY <1>1 DEF HeaderArrives, ServerInv, TypeOK
  <2> QED BY <2>1, <2>3, <2>4, QuietStep
<1>2. ASSUME NEW m \in Requests, c.reading = "body",
             conn' = [conn EXCEPT ![s] = C!ReadCompletes(c, "ok", m)],
             UNCHANGED <<registry, accepted, alive, logicq, closes>>,
             frames' \in [Sessions -> 0 .. MaxFrames],
             logins' \in [Sessions -> 0 .. MaxLogins]
      PROVE  Kept
  <2>1. s \in accepted /\ C!Sound(c, closes[s])
    BY <1>2, ActiveAccepted
  <2>2. C!Handler(c.reading, "ok", m) \in C!Handlers
    BY <1>2 DEF C!Handler, C!Handlers
  <2>3. C!Sound(C!ReadCompletes(c, "ok", m), closes[s])
    BY <1>2, <2>1, <2>2, C!ReadCompletesSound
  <2>4. alive' \in [Sessions -> BOOLEAN]
    BY <1>2 DEF ServerInv, TypeOK
  <2> QED BY <1>2, <2>1, <2>3, <2>4, QuietStep
<1>3. CASE BodyArrives(s)
  <2>1. [name : Others] \subseteq Requests
    BY DEF Requests
  <2>2. /\ frames' \in [Sessions -> 0 .. MaxFrames]
        /\ logins' \in [Sessions -> 0 .. MaxLogins]
    BY <1>3 DEF BodyArrives, environment, ServerInv, TypeOK
  <2> QED BY <1>2, <1>3, <2>1, <2>2 DEF BodyArrives
<1>4. CASE LoginArrives(s)
  <2>1. LoginReqs \subseteq Requests
    BY DEF Requests
  <2>2. /\ frames' \in [Sessions -> 0 .. MaxFrames]
        /\ logins' \in [Sessions -> 0 .. MaxLogins]
    BY <1>4 DEF LoginArrives, ServerInv, TypeOK
  <2> QED BY <1>2, <1>4, <2>1, <2>2 DEF LoginArrives
<1>5. ASSUME NEW d, C!Sound(d, closes[s]), s \in accepted,
             conn' = [conn EXCEPT ![s] = d],
             UNCHANGED <<registry, accepted, alive, logicq, closes, environment>>
      PROVE  Kept
  <2>1. /\ frames' \in [Sessions -> 0 .. MaxFrames]
        /\ logins' \in [Sessions -> 0 .. MaxLogins]
        /\ alive' \in [Sessions -> BOOLEAN]
    BY <1>5 DEF environment, ServerInv, TypeOK
  <2> QED BY <1>5, <2>1, QuietStep
<1>6. CASE ReadFails(s)
  <2>1. /\ s \in accepted /\ C!Sound(c, closes[s]) /\ c \in C!Channels
        /\ c.reading # "none"
    BY <1>6, ActiveAccepted DEF ReadFails
  <2>2. C!Handler(c.reading, "error", NoMsg) \in C!Handlers
    BY <2>1 DEF C!Handler, C!Handlers, C!Channels
  <2>3. C!Sound(C!ReadCompletes(c, "error", NoMsg), closes[s])
    BY <2>1, <2>2, C!ReadCompletesSound
  <2> QED BY <1>5, <1>6, <2>1, <2>3 DEF ReadFails
<1>7. CASE WriteEnds(s)
  <2> PICK ec \in {"ok", "error"} :
        conn' = [conn EXCEPT ![s] = C!WriteCompletes(c, ec)]
    BY <1>7 DEF WriteEnds
  <2>1. s \in accepted /\ C!Sound(c, closes[s]) /\ c.writing > 0
    BY <1>7, ActiveAccepted DEF WriteEnds
  <2>2. C!Sound(C!WriteCompletes(c, ec), closes[s])
    BY <2>1, C!WriteCompletesSound
  <2> QED BY <1>5, <1>7, <2>1, <2>2 DEF WriteEnds
<1> QED BY <1>1, <1>3, <1>4, <1>6, <1>7 DEF Network

LEMMA TimerKept ==
  ASSUME ServerInv, NEW s \in Sessions, TimerExpires(s)
  PROVE  Kept
<1>1. s \in accepted /\ C!Sound(conn[s], closes[s])
  BY ActiveAccepted DEF TimerExpires
<1>2. C!Sound(C!TimerExpires(conn[s]), closes[s])
  BY <1>1, C!TimerExpiresSound
<1>3. /\ frames' \in [Sessions -> 0 .. MaxFrames]
      /\ logins' \in [Sessions -> 0 .. MaxLogins]
      /\ alive' \in [Sessions -> BOOLEAN]
  BY DEF TimerExpires, environment, ServerInv, TypeOK
<1>4. /\ conn' = [conn EXCEPT ![s] = C!TimerExpires(conn[s])]
      /\ UNCHANGED <<registry, accepted, logicq, closes>>
  BY DEF TimerExpires
<1> QED BY <1>1, <1>2, <1>3, <1>4, QuietStep

LEMMA IoKept ==
  ASSUME ServerInv, NEW s \in Sessions, IoThread(s)
  PROVE  Kept
<1> DEFINE c == conn[s]
           n == closes[s]
           m == Head(c.ioq).m
\* The handler is the completion h of an accepted session.
<1>1. ASSUME NEW h, NEW ec, C!Ready(c, h, ec)
      PROVE  /\ s \in accepted /\ c \in C!Channels /\ n \in Nat /\ C!Sound(c, n)
             /\ C!Core(C!Pop(c)) /\ Head(c.ioq) \in C!Handlers
             /\ Head(c.ioq).h = h /\ Head(c.ioq).ec = ec
  <2>1. c.ioq # <<>>
    BY <1>1 DEF C!Ready
  <2>2. s \in accepted /\ c \in C!Channels /\ n \in Nat /\ C!Sound(c, n)
    BY <2>1, ActiveAccepted
  <2>3. C!Core(C!Pop(c))
    BY <2>1, <2>2, C!PopCore DEF C!Sound
  <2> QED BY <1>1, <2>2, <2>3, C!NextHandler
\* The step of a handler that posts nothing.
<1>2. ASSUME NEW d, C!Sound(d, n), s \in accepted,
             conn' = [conn EXCEPT ![s] = d], alive' \in [Sessions -> BOOLEAN],
             UNCHANGED <<registry, accepted, logicq, closes, environment>>
      PROVE  Kept
  <2>1. /\ frames' \in [Sessions -> 0 .. MaxFrames]
        /\ logins' \in [Sessions -> 0 .. MaxLogins]
    BY <1>2 DEF environment, ServerInv, TypeOK
  <2> QED BY <1>2, <2>1, QuietStep
<1>3. alive \in [Sessions -> BOOLEAN]
  BY DEF ServerInv, TypeOK
<1>4. CASE OnReadHeader(s)
  <2>1. C!Sound(C!AsyncRead(C!Pop(c), "body"), n) /\ s \in accepted
    BY <1>4, <1>1, C!ResumeReadSound DEF OnReadHeader, C!Reads
  <2> QED BY <1>2, <1>3, <1>4, <2>1 DEF OnReadHeader
<1>5. CASE OnReadBody(s)
  <2>1. C!Ready(c, "body", "ok") /\ m.name \in {"LoginReq", "Ping"}
    BY <1>5 DEF OnReadBody, HandlerNames
  <2>2. /\ s \in accepted /\ n \in Nat /\ C!Sound(c, n)
        /\ Head(c.ioq) \in C!Handlers
        /\ Head(c.ioq).h = "body" /\ Head(c.ioq).ec = "ok"
    BY <2>1, <1>1
  <2>3. m \in Requests
    BY <2>2 DEF C!Handlers
  <2>4. Task(m.name, s, m) \in Tasks /\ Task(m.name, s, m).s = s
        /\ Task(m.name, s, m).run # "AddSession"
    BY <2>1, <2>3 DEF Task, Tasks, Requests, LoginReqs
  <2>5. C!Sound(C!AsyncRead(C!Pop(c), "header"), n)
    BY <2>1, <2>2, C!ResumeReadSound DEF C!Reads
  <2>6. /\ closes' = [closes EXCEPT ![s] = n]
        /\ alive' \in [Sessions -> BOOLEAN]
    BY <1>3, <1>5 DEF OnReadBody, ServerInv, TypeOK
  <2>7. /\ conn' = [conn EXCEPT ![s] = C!AsyncRead(C!Pop(c), "header")]
        /\ PostLogic(Task(m.name, s, m))
        /\ UNCHANGED <<registry, accepted, environment>>
    BY <1>5 DEF OnReadBody
  <2> HIDE DEF c, n, m
  <2> QED BY <2>2, <2>4, <2>5, <2>6, <2>7, PostStep
<1>6. CASE ReadBodyError(s)
  <2>1. C!Core(C!Pop(c)) /\ s \in accepted
    BY <1>6, <1>1 DEF ReadBodyError
  <2>2. alive' \in [Sessions -> BOOLEAN]
    BY <1>3, <1>6 DEF ReadBodyError
  <2> QED BY <1>6, <2>1, <2>2, CloseStep DEF ReadBodyError
<1>7. CASE OnError(s)
  <2>1. PICK h \in {"header", "body", "written"}, ec \in {"invalid", "error"} :
          C!Ready(c, h, ec)
    BY <1>7 DEF OnError
  <2>2. C!Core(C!Pop(c)) /\ s \in accepted
    BY <2>1, <1>1
  <2> QED BY <1>3, <1>7, <2>2, CloseStep DEF OnError
<1>8. CASE OnAborted(s)
  <2>1. PICK h \in {"header", "body", "written", "timer"} :
          C!Ready(c, h, "aborted")
    BY <1>8 DEF OnAborted
  <2>2. C!Sound(C!Pop(c), n) /\ s \in accepted
    BY <2>1, <1>1, C!AbortedSound
  <2> QED BY <1>2, <1>3, <1>8, <2>2 DEF OnAborted
<1>9. CASE OnWritten(s)
  <2>1. C!Sound(C!PopWrite(C!Pop(c)), n) /\ s \in accepted
    BY <1>9, <1>1, C!WrittenSound DEF OnWritten
  <2> QED BY <1>2, <1>3, <1>9, <2>1 DEF OnWritten
<1>10. CASE CheckAliveFails(s)
  <2>1. C!Core(C!TimerLoop(C!Pop(c))) /\ s \in accepted
    BY <1>10, <1>1, C!TimerLoopCore DEF CheckAliveFails
  <2>2. alive' \in [Sessions -> BOOLEAN]
    BY <1>3, <1>10 DEF CheckAliveFails
  <2> QED BY <1>10, <2>1, <2>2, CloseStep DEF CheckAliveFails
<1>11. CASE CheckAlivePasses(s)
  <2>1. C!Sound(C!TimerLoop(C!Pop(c)), n) /\ s \in accepted
    BY <1>11, <1>1, C!RearmSound DEF CheckAlivePasses
  <2>2. alive' \in [Sessions -> BOOLEAN]
    BY <1>3, <1>11 DEF CheckAlivePasses
  <2> QED BY <1>2, <1>11, <2>1, <2>2 DEF CheckAlivePasses
<1>12. CASE RunWrite(s)
  <2>1. C!Sound(C!PushWrite(C!Pop(c), m), n) /\ s \in accepted
    BY <1>12, <1>1, C!RunWriteSound DEF RunWrite
  <2> QED BY <1>2, <1>3, <1>12, <2>1 DEF RunWrite
<1>13. CASE RunClose(s)
  <2>1. C!Sound(C!CloseSocket(C!Pop(c)), n) /\ s \in accepted
    BY <1>13, <1>1, C!RunCloseSound DEF RunClose
  <2> QED BY <1>2, <1>3, <1>13, <2>1 DEF RunClose
<1> QED BY <1>4, <1>5, <1>6, <1>7, <1>8, <1>9, <1>10, <1>11, <1>12, <1>13
        DEF IoThread

\* A closure of session s runs on the logic thread, leaves the channel as d
\* and makes a step of the registry.
LEMMA LogicStep ==
  ASSUME ServerInv, NEW s \in Sessions, NEW run, NextTask(run, s),
         NEW d, \A n \in Nat : C!Sound(conn[s], n) => C!Sound(d, n),
         conn' = [conn EXCEPT ![s] = d],
         UNCHANGED <<accepted, alive, closes, environment>>,
         [R!Next]_(R!registry),
         \A t \in Sessions :
           session_id'[t] # 0 <=>
             session_id[t] # 0 \/ (run = "AddSession" /\ t = s)
  PROVE  Kept
<1>1. /\ logicq # <<>> /\ logicq' = Tail(logicq)
      /\ Head(logicq).run = run /\ Head(logicq).s = s
      /\ logicq \in Seq(Tasks)
  BY DEF NextTask, ServerInv, TypeOK
<1>2. s \in accepted
  <2>1. Head(logicq) = logicq[1] /\ 1 \in DOMAIN logicq
    BY <1>1, TailFacts
  <2> QED BY <1>1, <2>1 DEF ServerInv, QueueInv, QueueOK, QueueOwned
<1>3. /\ closes[s] \in Nat /\ closes' = [closes EXCEPT ![s] = closes[s]]
      /\ C!Sound(d, closes[s])
  BY <1>2 DEF ServerInv, TypeOK, ChannelsInv
<1>4. R!TypeOK'
  BY RegistryType DEF ServerInv, TypeOK
<1>5. /\ alive' \in [Sessions -> BOOLEAN]
      /\ frames' \in [Sessions -> 0 .. MaxFrames]
      /\ logins' \in [Sessions -> 0 .. MaxLogins]
      /\ accepted' = accepted /\ accepted \subseteq Sessions
  BY DEF ServerInv, TypeOK, environment
<1>6. logicq' \in Seq(Tasks)
  BY <1>1, TailFacts
<1>7. \A t \in Sessions :
        session_id'[t] # 0 <=> session_id[t] # 0 \/ IsAdd(Head(logicq), t)
  BY <1>1 DEF IsAdd
<1>8. QueueOK(logicq', session_id', accepted)
  <2> DEFINE ids == session_id
             new == session_id'
             q == logicq
  <2>1. QueueOK(q, ids, accepted)
    BY DEF ServerInv, QueueInv
  <2>2. QueueOK(Tail(q), new, accepted)
    <3> HIDE DEF ids, new, q
    <3> SUFFICES /\ q \in Seq(Tasks) /\ q # <<>>
                 /\ \A t \in Sessions :
                      new[t] # 0 <=> ids[t] # 0 \/ IsAdd(Head(q), t)
      BY <2>1, <1>5, TailQueue
    <3> QED BY <1>1, <1>7 DEF ids, new, q
  <2> QED BY <1>1, <2>2
<1> QED BY <1>2, <1>3, <1>4, <1>5, <1>6, <1>8, ConnStep

\* No login and no clean-up of a session runs before its AddSession, which
\* runs once.
LEMMA TaskOrder ==
  ASSUME ServerInv, NEW s, NEW run, NextTask(run, s)
  PROVE  run = "AddSession" <=> ~R!Added(s)
<1>1. /\ logicq \in Seq(Tasks) /\ logicq # <<>>
      /\ Head(logicq).run = run /\ Head(logicq).s = s
  BY DEF NextTask, ServerInv, TypeOK
<1>2. Head(logicq) = logicq[1] /\ 1 \in DOMAIN logicq
  BY <1>1, TailFacts
<1>3. run = "AddSession" => session_id[s] = 0
  BY <1>1, <1>2 DEF ServerInv, QueueInv, QueueOK, QueueOwned
<1>4. run # "AddSession" => session_id[s] # 0
  BY <1>1, <1>2 DEF ServerInv, QueueInv, QueueOK, QueueOrder
<1> QED BY <1>3, <1>4 DEF R!Added

LEMMA LogicKept ==
  ASSUME ServerInv, NEW s \in Sessions,
         \/ AddSession(s) \/ RefuseLogin(s) \/ GrantLogin(s)
         \/ HandlePing(s) \/ CleanUp(s)
  PROVE  Kept
<1>1. \A n : C!Sound(conn[s], n) => C!Sound(conn[s], n)
  OBVIOUS
<1>2. UNCHANGED conn => conn' = [conn EXCEPT ![s] = conn[s]]
  BY DEF ServerInv, TypeOK
<1>3. CASE AddSession(s)
  <2>1. NextTask("AddSession", s) /\ ~R!Added(s) /\ R!AddSession(s)
    BY <1>3, TaskOrder DEF AddSession
  <2>2. [R!Next]_(R!registry)
    BY <2>1 DEF R!Next
  <2>3. \A t \in Sessions :
          session_id'[t] # 0 <=>
            session_id[t] # 0 \/ ("AddSession" = "AddSession" /\ t = s)
    BY <2>1, NextIdNonzero DEF R!AddSession, R!TypeOK, ServerInv, TypeOK
  <2>4. UNCHANGED <<accepted, conn, alive, closes, environment>>
    BY <1>3 DEF AddSession
  <2> QED BY <1>1, <1>2, <2>1, <2>2, <2>3, <2>4, LogicStep
<1>4. ASSUME NEW run \in {"LoginReq", "Ping", "CleanUp"}, NextTask(run, s),
             NEW d, \A n \in Nat : C!Sound(conn[s], n) => C!Sound(d, n),
             conn' = [conn EXCEPT ![s] = d],
             UNCHANGED <<accepted, alive, closes, environment, session_id>>,
             [R!Next]_(R!registry)
      PROVE  Kept
  <2>1. \A t \in Sessions :
          session_id'[t] # 0 <=>
            session_id[t] # 0 \/ (run = "AddSession" /\ t = s)
    BY <1>4
  <2> QED BY <1>4, <2>1, LogicStep
<1>5. ASSUME NextTask("LoginReq", s), NEW reply \in Replies, SendMsg(s, reply),
             UNCHANGED <<accepted, alive, closes, environment>>,
             \/ R!Refuse(s, Head(logicq).m.type, Head(logicq).m.uid)
             \/ R!Grant(s, Head(logicq).m.type, Head(logicq).m.uid)
      PROVE  Kept
  <2> DEFINE d == C!Post(conn[s], C!Handler("write", "ok", reply))
             type == Head(logicq).m.type
             uid == Head(logicq).m.uid
  <2>1. conn' = [conn EXCEPT ![s] = d]
    BY <1>5 DEF SendMsg
  <2>2. \A n \in Nat : C!Sound(conn[s], n) => C!Sound(d, n)
    BY C!PostWriteSound
  <2>3. type \in LoginTypes /\ uid \in Uids
    <3>1. Head(logicq) \in Tasks /\ Head(logicq).run = "LoginReq"
      BY <1>5, TailFacts DEF NextTask, ServerInv, TypeOK
    <3>2. Head(logicq).m \in LoginReqs
      BY <3>1 DEF Tasks
    <3> QED BY <3>2 DEF LoginReqs
  <2>4. UNCHANGED session_id
    BY <1>5 DEF R!Refuse, R!Grant, R!registry
  <2> HIDE DEF d, type, uid
  <2>5. R!Refuse(s, type, uid) \/ R!Grant(s, type, uid)
    BY <1>5 DEF type, uid
  <2>6. R!Login(s) /\ R!Added(s)
    BY <1>5, <2>3, <2>5, TaskOrder DEF R!Login
  <2>7. [R!Next]_(R!registry)
    BY <2>6 DEF R!Next
  <2> QED BY <1>4, <1>5, <2>1, <2>2, <2>4, <2>7
<1>6. CASE RefuseLogin(s)
  <2>1. LoginRsp("Logined") \in Replies
    BY DEF Replies
  <2> QED BY <1>5, <1>6, <2>1 DEF RefuseLogin
<1>7. CASE GrantLogin(s)
  <2>1. LoginRsp("Success") \in Replies
    BY DEF Replies
  <2> QED BY <1>5, <1>7, <2>1 DEF GrantLogin
<1>8. CASE HandlePing(s)
  <2>1. NextTask("Ping", s) /\ UNCHANGED registry
        /\ UNCHANGED <<accepted, conn, alive, closes, environment>>
    BY <1>8 DEF HandlePing
  <2>2. [R!Next]_(R!registry) /\ UNCHANGED session_id
    BY <2>1 DEF registry, R!registry
  <2> QED BY <1>1, <1>2, <1>4, <2>1, <2>2
<1>9. CASE CleanUp(s)
  <2>1. NextTask("CleanUp", s) /\ R!CleanUp(s) /\ R!Added(s)
        /\ UNCHANGED <<accepted, conn, alive, closes, environment>>
    BY <1>9, TaskOrder DEF CleanUp
  <2>2. [R!Next]_(R!registry) /\ UNCHANGED session_id
    BY <2>1 DEF R!Next, R!CleanUp
  <2> QED BY <1>1, <1>2, <1>4, <2>1, <2>2
<1> QED BY <1>3, <1>6, <1>7, <1>8, <1>9

-----------------------------------------------------------------------------
(* The theorems *)

LEMMA InitInv == Init => ServerInv /\ R!Init
<1> SUFFICES ASSUME Init PROVE ServerInv /\ R!Init
  OBVIOUS
<1>1. R!Init
  BY DEF Init
<1>2. R!TypeOK
  BY <1>1 DEF R!Init, R!TypeOK, R!Ids
<1>3. C!Connected \in C!Channels
  BY C!ConnectedSound DEF C!Core
<1>4. TypeOK
  BY <1>2, <1>3 DEF Init, TypeOK
<1>5. ChannelsInv
  BY DEF Init, ChannelsInv
<1>6. QueueInv
  BY <1>1 DEF Init, QueueInv, QueueOK, QueueOwned, QueueOnce, QueueOrder,
              QueueAll, R!Init
<1> QED BY <1>1, <1>4, <1>5, <1>6 DEF ServerInv

LEMMA NextKept == ServerInv /\ [Next]_vars => Kept
<1> SUFFICES ASSUME ServerInv, [Next]_vars PROVE Kept
  OBVIOUS
<1>1. CASE \E s \in Sessions :
             Accept(s) \/ Network(s) \/ TimerExpires(s) \/ IoThread(s)
  BY <1>1, AcceptKept, NetworkKept, TimerKept, IoKept
<1>2. CASE LogicThread
  BY <1>2, LogicKept DEF LogicThread
<1>3. CASE UNCHANGED vars
  <2>1. UNCHANGED <<registry, accepted, conn, alive, logicq, closes, frames,
                    logins>>
    BY <1>3 DEF vars, environment
  <2>2. R!TypeOK' /\ [R!Next]_(R!registry)
    BY <2>1, SameRegistryStep DEF ServerInv, TypeOK
  <2>3. TypeOK'
    BY <2>1, <2>2 DEF ServerInv, TypeOK
  <2>4. ChannelsInv'
    BY <2>1 DEF ServerInv, ChannelsInv
  <2>5. QueueInv'
    BY <2>1 DEF ServerInv, QueueInv, registry
  <2> QED BY <2>2, <2>3, <2>4, <2>5 DEF Kept, ServerInv
<1> QED BY <1>1, <1>2, <1>3 DEF Next

LEMMA SpecInv == Spec => []ServerInv
<1>1. ServerInv /\ [Next]_vars => ServerInv'
  BY NextKept DEF Kept
<1> QED BY <1>1, InitInv, PTL DEF Spec

\* TypeOK is an invariant of the running server.
THEOREM TypeCorrect == Spec => []TypeOK
<1>1. ServerInv => TypeOK
  BY DEF ServerInv
<1> QED BY <1>1, SpecInv, PTL

\* The reads of a session form one chain, unbroken until Close.
THEOREM ReadChainCorrect == Spec => []ReadChain
<1>1. ServerInv => ReadChain
  BY DEF ServerInv, ChannelsInv, C!Sound, C!Core, C!Healthy, ReadChain
<1> QED BY <1>1, SpecInv, PTL

\* Writes never overlap, never lack a buffer, and leave none behind.
THEOREM WriteChainCorrect == Spec => []WriteChain
<1>1. ServerInv => WriteChain
  BY DEF ServerInv, ChannelsInv, C!Sound, C!Core, C!Healthy, WriteChain
<1> QED BY <1>1, SpecInv, PTL

\* The timer of a session runs until Close.
THEOREM WatchedCorrect == Spec => []Watched
<1>1. ServerInv => Watched
  BY DEF ServerInv, ChannelsInv, C!Sound, C!Healthy, Watched
<1> QED BY <1>1, SpecInv, PTL

\* With its threads and queues the server implements UserRegistry.
THEOREM Implements == Spec => RegistrySpec
<1>1. ServerInv /\ [Next]_vars => [R!Next]_(R!registry)
  BY NextKept DEF Kept
<1>2. Init => R!Init
  BY InitInv
<1> QED BY <1>1, <1>2, SpecInv, PTL DEF Spec, RegistrySpec, R!Spec

\* Every registry step of the server is one of the instance of the proofs.
LEMMA ImplementsProved == Spec => RP!Spec
<1>1. [R!Next]_(R!registry) => [RP!Next]_(RP!registry)
  BY SameStep
<1>2. R!Init => RP!Init
  BY SameRegistry
<1> QED BY <1>1, <1>2, Implements, PTL DEF RegistrySpec, R!Spec, RP!Spec

\* Nothing but a repeated clean-up logs a uid in twice in the running server.
THEOREM ExclusiveCorrect == Spec => []Exclusive
<1>1. RP!Spec => []RP!Exclusive
  BY RP!ExclusiveLogin DEF RP!RegistryAssumption
<1>2. RP!Exclusive => Exclusive
  BY SameRegistry DEF Exclusive
<1> QED BY <1>1, <1>2, ImplementsProved, PTL

\* GetSession finds every session that is connected and not cleaned up.
THEOREM RegisteredCorrect == Spec => []Registered
<1>1. RP!Spec => []RP!Registered
  BY RP!GetSessionCorrect DEF RP!RegistryAssumption
<1>2. RP!Registered => Registered
  BY SameRegistry DEF Registered
<1> QED BY <1>1, <1>2, ImplementsProved, PTL

-----------------------------------------------------------------------------
(* How often a session is closed: a chain that ended with a call of Close   *)
(* does not start again (see ChannelProofs).                                *)

CloseInv ==
  /\ \A s \in accepted : C!OneWait(conn[s]) /\ C!Limited(conn[s], closes[s])
  /\ \A s \in Sessions \ accepted : closes[s] = 0

\* A step that does not call Close.
LEMMA OpenStep ==
  ASSUME ServerInv, CloseInv, NEW s \in accepted, NEW d, C!OneWait(d),
         C!NoMore(d, conn[s]), conn' = [conn EXCEPT ![s] = d],
         UNCHANGED <<accepted, closes>>
  PROVE  CloseInv'
<1>1. accepted \subseteq Sessions /\ closes[s] \in Nat
  BY DEF ServerInv, TypeOK
<1>2. C!Limited(d, closes[s])
  BY <1>1, C!LimitedNoMore DEF CloseInv
<1>3. \A t \in accepted : conn'[t] = IF t = s THEN d ELSE conn[t]
  BY <1>1 DEF ServerInv, TypeOK
<1> QED BY <1>2, <1>3 DEF CloseInv

\* A handler that calls Close, and leaves the channel as d before.
LEMMA ClosedStep ==
  ASSUME ServerInv, CloseInv, NEW s \in accepted, NEW d, C!Core(d),
         C!OneWait(d), CloseSession(s, d), UNCHANGED accepted,
         C!CanRead(d) => C!CanRead(conn[s]),
         C!CanWrite(d) => C!CanWrite(conn[s]),
         C!Waits(d) = {} \/ C!NoMore(d, conn[s]),
         \/ C!CanRead(conn[s]) /\ ~C!CanRead(d)
         \/ C!CanWrite(conn[s]) /\ ~C!CanWrite(d)
         \/ C!CanWait(conn[s]) /\ C!Waits(d) = {}
  PROVE  CloseInv'
<1> DEFINE e == C!Close(d)
<1>1. accepted \subseteq Sessions /\ closes[s] \in Nat
  BY DEF ServerInv, TypeOK
<1>2. C!OneWait(e) /\ C!NoMore(e, d) /\ (C!CanWait(e) => C!Waits(d) # {})
  BY C!CloseLimited
<1>3. conn' = [conn EXCEPT ![s] = e]
      /\ closes' = [closes EXCEPT ![s] = closes[s] + 1]
  BY DEF CloseSession
<1> HIDE DEF e
<1>4. C!NoMore(e, conn[s])
  BY <1>2 DEF C!NoMore
<1>5. \/ C!CanRead(conn[s]) /\ ~C!CanRead(e)
      \/ C!CanWrite(conn[s]) /\ ~C!CanWrite(e)
      \/ C!CanWait(conn[s]) /\ ~C!CanWait(e)
  BY <1>2 DEF C!NoMore
<1>6. C!Limited(e, closes[s] + 1)
  BY <1>1, <1>4, <1>5, C!LimitedClose DEF CloseInv
<1>7. \A t \in accepted :
        /\ conn'[t] = IF t = s THEN e ELSE conn[t]
        /\ closes'[t] = IF t = s THEN closes[s] + 1 ELSE closes[t]
  BY <1>1, <1>3 DEF ServerInv, TypeOK
<1>8. \A t \in Sessions \ accepted : closes'[t] = closes[t]
  BY <1>3 DEF ServerInv, TypeOK
<1> QED BY <1>2, <1>6, <1>7, <1>8 DEF CloseInv

LEMMA AcceptLimited ==
  ASSUME ServerInv, CloseInv, NEW s \in Sessions, Accept(s)
  PROVE  CloseInv'
<1> DEFINE d == C!AsyncRead(C!TimerLoop(C!Connected), "header")
<1>1. s \notin accepted /\ conn[s] = C!Connected /\ closes[s] = 0
  BY DEF Accept, ServerInv, ChannelsInv, CloseInv
<1>2. conn' = [conn EXCEPT ![s] = d] /\ accepted' = accepted \cup {s}
      /\ closes' = closes
  BY <1>1 DEF Accept
<1>3. C!OneWait(d)
  <2> DEFINE c == C!Connected
             e == C!TimerLoop(c)
  <2>1. C!Core(c) /\ c.ioq = <<>>
    BY C!ConnectedSound DEF C!Connected
  <2> HIDE DEF c
  <2>2. C!Waits(c) = {}
    BY <2>1 DEF C!Waits
  <2>3. C!Core(e) /\ C!OneWait(e)
    BY <2>1, <2>2, C!TimerLoopLimited
  <2> HIDE DEF e
  <2>4. C!OneWait(C!AsyncRead(e, "header"))
    BY <2>3, C!AsyncReadLimited DEF C!Core
  <2> QED BY <2>4 DEF e, c
<1>4. C!Limited(d, 0)
  BY DEF C!Limited, C!CanClose
<1> HIDE DEF d
<1>5. \A t \in accepted' : conn'[t] = IF t = s THEN d ELSE conn[t]
  BY <1>2 DEF ServerInv, TypeOK
<1> QED BY <1>1, <1>2, <1>3, <1>4, <1>5 DEF CloseInv

LEMMA NetworkLimited ==
  ASSUME ServerInv, CloseInv, NEW s \in Sessions,
         Network(s) \/ TimerExpires(s)
  PROVE  CloseInv'
<1> DEFINE c == conn[s]
<1>1. conn[s].reading # "none" \/ conn[s].writing > 0 \/ conn[s].armed
  BY DEF Network, HeaderArrives, BodyArrives, LoginArrives, ReadFails,
         WriteEnds, TimerExpires
<1>2. /\ s \in accepted /\ c \in C!Channels /\ C!Core(c) /\ C!OneWait(c)
      /\ UNCHANGED <<accepted, closes>>
  BY <1>1, ActiveAccepted
     DEF C!Sound, CloseInv, Network, HeaderArrives, BodyArrives, LoginArrives,
         ReadFails, WriteEnds, TimerExpires
<1>3. ASSUME NEW ec \in {"ok", "invalid", "error"}, NEW m,
             c.reading # "none", C!Handler(c.reading, ec, m) \in C!Handlers,
             conn' = [conn EXCEPT ![s] = C!ReadCompletes(c, ec, m)]
      PROVE  CloseInv'
  BY <1>2, <1>3, C!ReadCompletesLimited, OpenStep
<1>4. CASE HeaderArrives(s)
  <2> PICK ec \in {"ok", "invalid"} :
        conn' = [conn EXCEPT ![s] = C!ReadCompletes(c, ec, NoMsg)]
    BY <1>4 DEF HeaderArrives
  <2>1. C!Handler(c.reading, ec, NoMsg) \in C!Handlers /\ c.reading # "none"
    BY <1>4 DEF HeaderArrives, C!Handler, C!Handlers
  <2> QED BY <1>3, <2>1
<1>5. CASE BodyArrives(s) \/ LoginArrives(s)
  <2> PICK m \in Requests :
        conn' = [conn EXCEPT ![s] = C!ReadCompletes(c, "ok", m)]
    BY <1>5 DEF BodyArrives, LoginArrives, Requests
  <2>1. C!Handler(c.reading, "ok", m) \in C!Handlers /\ c.reading # "none"
    BY <1>5 DEF BodyArrives, LoginArrives, C!Handler, C!Handlers
  <2> QED BY <1>3, <2>1
<1>6. CASE ReadFails(s)
  <2>1. C!Handler(c.reading, "error", NoMsg) \in C!Handlers
    BY <1>2, <1>6 DEF ReadFails, C!Handler, C!Handlers, C!Channels
  <2> QED BY <1>3, <1>6, <2>1 DEF ReadFails
<1>7. CASE WriteEnds(s)
  <2> PICK ec \in {"ok", "error"} :
        conn' = [conn EXCEPT ![s] = C!WriteCompletes(c, ec)]
    BY <1>7 DEF WriteEnds
  <2>1. C!OneWait(C!WriteCompletes(c, ec))
        /\ C!NoMore(C!WriteCompletes(c, ec), c)
    BY <1>2, <1>7, C!WriteCompletesLimited DEF WriteEnds
  <2> QED BY <1>2, <2>1, OpenStep
<1>8. CASE TimerExpires(s)
  <2>1. C!OneWait(C!TimerExpires(c)) /\ C!NoMore(C!TimerExpires(c), c)
    BY <1>2, <1>8, C!TimerExpiresLimited DEF TimerExpires
  <2> QED BY <1>2, <1>8, <2>1, OpenStep DEF TimerExpires
<1> QED BY <1>4, <1>5, <1>6, <1>7, <1>8 DEF Network

LEMMA IoLimited ==
  ASSUME ServerInv, CloseInv, NEW s \in Sessions, IoThread(s)
  PROVE  CloseInv'
<1> DEFINE c == conn[s]
           d == C!Pop(c)
           f == Head(c.ioq)
<1>1. c.ioq # <<>> /\ UNCHANGED accepted
  BY DEF C!Ready, IoThread, OnReadHeader, OnReadBody, ReadBodyError, OnError,
         OnAborted, OnWritten, CheckAliveFails, CheckAlivePasses, RunWrite,
         RunClose
<1>2. s \in accepted /\ c \in C!Channels /\ C!Core(c) /\ C!OneWait(c)
  BY <1>1, ActiveAccepted DEF C!Sound, CloseInv
<1>3. C!Core(d) /\ C!OneWait(d) /\ C!NoMore(d, c)
  BY <1>1, <1>2, C!PopCore, C!PopLimited
<1>4. /\ f.h \in C!Reads => C!CanRead(c) /\ ~C!CanRead(d)
      /\ f.h = "written" => C!CanWrite(c) /\ ~C!CanWrite(d)
      /\ f.h = "timer" /\ f.ec = "ok" => C!CanWait(c) /\ ~C!CanWait(d)
  BY <1>1, <1>2, C!PopLimited DEF C!IsWait
\* A read or a write whose handler calls Close.
<1>5. ASSUME CloseSession(s, d), f.h \in {"header", "body", "written"}
      PROVE  CloseInv'
  <2>1. \/ C!CanRead(c) /\ ~C!CanRead(d)
        \/ C!CanWrite(c) /\ ~C!CanWrite(d)
    BY <1>4, <1>5 DEF C!Reads
  <2>2. /\ C!CanRead(d) => C!CanRead(c)
        /\ C!CanWrite(d) => C!CanWrite(c)
    BY <1>3 DEF C!NoMore
  <2> HIDE DEF d, f
  <2> QED BY <1>1, <1>2, <1>3, <1>5, <2>1, <2>2, ClosedStep
<1>6. CASE OnReadHeader(s) \/ OnReadBody(s)
  <2>1. PICK part \in {"header", "body"} :
          conn' = [conn EXCEPT ![s] = C!AsyncRead(C!Pop(c), part)]
    BY <1>6 DEF OnReadHeader, OnReadBody
  <2>2. f.h \in C!Reads /\ UNCHANGED closes
    BY <1>6 DEF OnReadHeader, OnReadBody, C!Ready, C!Reads
  <2>3. C!OneWait(C!AsyncRead(C!Pop(c), part))
        /\ C!NoMore(C!AsyncRead(C!Pop(c), part), c)
    BY <1>1, <1>2, <2>2, C!ResumeReadLimited
  <2> QED BY <1>1, <1>2, <2>1, <2>2, <2>3, OpenStep
<1>7. CASE ReadBodyError(s) \/ OnError(s)
  BY <1>5, <1>7 DEF ReadBodyError, OnError, C!Ready
<1>8. CASE OnAborted(s)
  BY <1>1, <1>2, <1>3, <1>8, OpenStep DEF OnAborted
<1>9. CASE OnWritten(s)
  <2>1. C!OneWait(C!PopWrite(C!Pop(c))) /\ C!NoMore(C!PopWrite(C!Pop(c)), c)
    BY <1>2, <1>9, C!WrittenLimited DEF OnWritten
  <2> QED BY <1>1, <1>2, <1>9, <2>1, OpenStep DEF OnWritten
<1>10. CASE CheckAliveFails(s) \/ CheckAlivePasses(s)
  <2> DEFINE e == C!TimerLoop(d)
  <2>1. C!CanWait(c) /\ ~C!CanWait(d)
    BY <1>4, <1>10 DEF CheckAliveFails, CheckAlivePasses, C!Ready
  <2>2. C!Waits(d) = {}
    BY <2>1 DEF C!CanWait
  <2>3. /\ C!Core(e) /\ C!OneWait(e) /\ C!Waits(e) = {}
        /\ C!CanRead(e) => C!CanRead(c)
        /\ C!CanWrite(e) => C!CanWrite(c)
    BY <1>3, <2>2, C!TimerLoopLimited DEF C!NoMore
  <2>4. \/ CloseSession(s, e)
        \/ conn' = [conn EXCEPT ![s] = e] /\ UNCHANGED closes
    BY <1>10 DEF CheckAliveFails, CheckAlivePasses
  <2> HIDE DEF c, d, e
  <2>5. C!NoMore(e, c)
    BY <2>1, <2>3 DEF C!NoMore
  <2>6. CASE CloseSession(s, e)
    BY <1>1, <1>2, <2>1, <2>3, <2>6, ClosedStep DEF c
  <2>7. CASE conn' = [conn EXCEPT ![s] = e] /\ UNCHANGED closes
    BY <1>1, <1>2, <2>3, <2>5, <2>7, OpenStep DEF c
  <2> QED BY <2>4, <2>6, <2>7
<1>11. CASE RunWrite(s)
  <2>1. f.m \in Replies
    BY <1>1, <1>2, <1>11, C!HeadType DEF RunWrite, C!Ready, C!Handlers
  <2>2. C!OneWait(C!PushWrite(C!Pop(c), f.m))
        /\ C!NoMore(C!PushWrite(C!Pop(c), f.m), c)
    BY <1>2, <1>11, <2>1, C!RunWriteLimited DEF RunWrite
  <2> QED BY <1>1, <1>2, <1>11, <2>2, OpenStep DEF RunWrite
<1>12. CASE RunClose(s)
  <2>1. C!OneWait(C!CloseSocket(C!Pop(c)))
        /\ C!NoMore(C!CloseSocket(C!Pop(c)), c)
    BY <1>2, <1>12, C!RunCloseLimited DEF RunClose
  <2> QED BY <1>1, <1>2, <1>12, <2>1, OpenStep DEF RunClose
<1> QED BY <1>6, <1>7, <1>8, <1>9, <1>10, <1>11, <1>12 DEF IoThread

LEMMA LogicLimited ==
  ASSUME ServerInv, CloseInv, LogicThread
  PROVE  CloseInv'
<1>1. PICK s \in Sessions :
        AddSession(s) \/ RefuseLogin(s) \/ GrantLogin(s) \/ HandlePing(s)
        \/ CleanUp(s)
  BY DEF LogicThread
<1>2. UNCHANGED <<accepted, closes>>
  BY <1>1 DEF AddSession, RefuseLogin, GrantLogin, HandlePing, CleanUp
<1>3. CASE UNCHANGED conn
  BY <1>2, <1>3 DEF CloseInv
<1>4. ASSUME NEW reply \in Replies, SendMsg(s, reply), s \in accepted
      PROVE  CloseInv'
  <2> DEFINE f == C!Handler("write", "ok", reply)
  <2>1. /\ f \in C!Handlers /\ ~C!IsWait(f)
        /\ f.h \notin C!Reads /\ f.h # "written"
    BY DEF C!Handler, C!Handlers, C!IsWait, C!Reads
  <2>2. conn[s] \in C!Channels /\ C!OneWait(conn[s])
    BY <1>4 DEF ServerInv, TypeOK, CloseInv
  <2>3. conn' = [conn EXCEPT ![s] = C!Post(conn[s], f)]
    BY <1>4 DEF SendMsg
  <2> HIDE DEF f
  <2>4. C!OneWait(C!Post(conn[s], f)) /\ C!NoMore(C!Post(conn[s], f), conn[s])
    BY <2>1, <2>2, C!PostOther
  <2> QED BY <1>2, <1>4, <2>3, <2>4, OpenStep
<1>5. CASE RefuseLogin(s) \/ GrantLogin(s)
  <2>1. /\ logicq # <<>> /\ Head(logicq).s = s /\ logicq \in Seq(Tasks)
    BY <1>5 DEF RefuseLogin, GrantLogin, NextTask, ServerInv, TypeOK
  <2>2. Head(logicq) = logicq[1] /\ 1 \in DOMAIN logicq
    BY <2>1, TailFacts
  <2>3. s \in accepted
    BY <2>1, <2>2 DEF ServerInv, QueueInv, QueueOK, QueueOwned
  <2>4. {LoginRsp("Success"), LoginRsp("Logined")} \subseteq Replies
    BY DEF Replies
  <2> QED BY <1>4, <1>5, <2>3, <2>4 DEF RefuseLogin, GrantLogin
<1> QED BY <1>1, <1>3, <1>5 DEF AddSession, HandlePing, CleanUp

LEMMA NextLimited == ServerInv /\ CloseInv /\ [Next]_vars => CloseInv'
<1> SUFFICES ASSUME ServerInv, CloseInv, [Next]_vars
             PROVE  CloseInv'
  OBVIOUS
<1>1. ASSUME NEW s \in Sessions, Accept(s)
      PROVE  CloseInv'
  BY <1>1, AcceptLimited
<1>2. ASSUME NEW s \in Sessions, Network(s) \/ TimerExpires(s)
      PROVE  CloseInv'
  BY <1>2, NetworkLimited
<1>3. ASSUME NEW s \in Sessions, IoThread(s)
      PROVE  CloseInv'
  BY <1>3, IoLimited
<1>4. CASE LogicThread
  BY <1>4, LogicLimited
<1>5. CASE UNCHANGED vars
  BY <1>5 DEF CloseInv, vars
<1> QED BY <1>1, <1>2, <1>3, <1>4, <1>5 DEF Next

LEMMA SpecLimited == Spec => []CloseInv
<1>1. Init => CloseInv
  BY DEF Init, CloseInv
<1> QED BY <1>1, SpecInv, NextLimited, PTL DEF Spec

\* CloseBounded: a session calls Close three times at most, once for each of
\* the read, the write and the timer chain, whatever fails and in which order
\* (so that the logic thread cleans it up three times at most).
THEOREM CloseBoundedCorrect == Spec => []CloseBounded
<1>1. ServerInv /\ CloseInv => CloseBounded
  <2> SUFFICES ASSUME ServerInv, CloseInv, NEW s \in Sessions
               PROVE  closes[s] <= 3
    BY DEF CloseBounded
  <2>1. closes[s] \in Nat
    BY DEF ServerInv, TypeOK
  <2>2. s \in accepted => closes[s] + C!CanClose(conn[s]) <= 3
    BY DEF CloseInv, C!Limited
  <2>3. C!CanClose(conn[s]) \in Nat
    BY DEF C!CanClose
  <2> QED BY <2>1, <2>2, <2>3 DEF CloseInv
<1> QED BY <1>1, SpecInv, SpecLimited, PTL
=============================================================================
