----------------------------- MODULE BootProofs -----------------------------
(***************************************************************************)
(* Theorems about Boot, for any number of connections, messages and io     *)
(* threads: the program is whole when it comes to Run, the client makes    *)
(* each user once, nothing of a session runs before the initialisation,    *)
(* only early messages do harm, and the sessions are spread evenly.        *)
(***************************************************************************)
EXTENDS Boot, FiniteSetTheorems, TLAPS

USE BootAssumption

-----------------------------------------------------------------------------
(* Going round the pool *)

LEMMA DivMod ==
  ASSUME NEW m \in Nat, NEW P \in Nat \ {0}
  PROVE  /\ m \div P \in Nat /\ m % P \in 0 .. P - 1
         /\ m = P * (m \div P) + (m % P)
  OBVIOUS

\* A remainder does not depend on how the number is divided.
LEMMA RemainderIs ==
  ASSUME NEW P \in Nat \ {0}, NEW q \in Nat, NEW r \in 0 .. P - 1,
         NEW s \in Nat, NEW t \in 0 .. P - 1, P * q + r = P * s + t
  PROVE  r = t
<1>1. CASE q = s
  <2>1. P * q = P * s /\ P * q \in Nat
    BY <1>1
  <2> QED BY <2>1
<1>2. CASE q < s
  <2>1. P * q + P <= P * s
    <3>1. PICK d \in Nat : s = q + 1 + d
      <4>1. s - q - 1 \in Nat /\ s = q + 1 + (s - q - 1)
        BY <1>2
      <4> QED BY <4>1
    <3>2. P * (q + 1 + d) = P * q + P + P * d /\ P * d \in Nat /\ P * q \in Nat
      OBVIOUS
    <3> QED BY <3>1, <3>2
  <2>2. P * q \in Nat /\ P * s \in Nat
    OBVIOUS
  <2> QED BY <2>1, <2>2
<1>3. CASE s < q
  <2>1. P * s + P <= P * q
    <3>1. PICK d \in Nat : q = s + 1 + d
      <4>1. q - s - 1 \in Nat /\ q = s + 1 + (q - s - 1)
        BY <1>3
      <4> QED BY <4>1
    <3>2. P * (s + 1 + d) = P * s + P + P * d /\ P * d \in Nat /\ P * s \in Nat
      OBVIOUS
    <3> QED BY <3>1, <3>2
  <2>2. P * q \in Nat /\ P * s \in Nat
    OBVIOUS
  <2> QED BY <2>1, <2>2
<1> QED BY <1>1, <1>2, <1>3

\* The remainders of successive numbers go round.
LEMMA NextRemainder ==
  ASSUME NEW m \in Nat, NEW P \in Nat \ {0}
  PROVE  /\ m % P \in 0 .. P - 1
         /\ (m + 1) % P = IF (m % P) + 1 = P THEN 0 ELSE (m % P) + 1
<1> DEFINE q == m \div P
           r == m % P
           s == (m + 1) \div P
           t == (m + 1) % P
<1>1. q \in Nat /\ r \in 0 .. P - 1 /\ m = P * q + r
  BY DivMod
<1>2. s \in Nat /\ t \in 0 .. P - 1 /\ m + 1 = P * s + t
  <2>1. m + 1 \in Nat
    OBVIOUS
  <2> QED BY <2>1, DivMod
<1> HIDE DEF q, r, s, t
<1>3. CASE r + 1 = P
  <2>1. P * (q + 1) = P * q + P /\ P * q \in Nat /\ P * s \in Nat
    BY <1>1, <1>2
  <2>2. P * (q + 1) + 0 = P * s + t
    BY <1>1, <1>2, <1>3, <2>1
  <2>3. t = 0
    BY <1>1, <1>2, <2>2, RemainderIs
  <2> QED BY <1>1, <1>3, <2>3 DEF r, t
<1>4. CASE r + 1 # P
  <2>1. P * q \in Nat /\ P * s \in Nat /\ r + 1 \in 0 .. P - 1
    BY <1>1, <1>2, <1>4
  <2>2. P * q + (r + 1) = P * s + t
    BY <1>1, <1>2, <2>1
  <2>3. t = r + 1
    BY <1>1, <1>2, <2>1, <2>2, RemainderIs
  <2> QED BY <1>1, <1>4, <2>3 DEF r, t
<1> QED BY <1>3, <1>4

-----------------------------------------------------------------------------
(* The steps of main *)

LEMMA StepsLength ==
  ASSUME NEW p, NEW m
  PROVE  (p \in DOMAIN Steps /\ m \in 0 .. Len(Steps[p]))
           <=> (/\ p \in {"server", "client"}
                /\ m \in 0 .. (IF p = "server" THEN 9 ELSE 7))
<1>1. DOMAIN Steps = {"server", "client"}
  BY DEF Steps
<1>2. Len(Steps["server"]) = 9 /\ Len(Steps["client"]) = 7
  BY DEF Steps
<1> QED BY <1>1, <1>2

\* Which step of which program a name is.
LEMMA AtStep ==
  ASSUME program \in DOMAIN Steps, main \in 0 .. Len(Steps[program])
  PROVE  /\ At("daemon") => main = 1
         /\ At("config") => main = 2
         /\ At("log") => main = 3
         /\ At("pool") => main = 4
         /\ At("logic") => program = "server" /\ main = 5
         /\ At("post") => program = "server" /\ main = 6
         /\ At("accept") => program = "server" /\ main = 7
         /\ At("users") => program = "client" /\ main = 5
         /\ At("run") => main = IF program = "server" THEN 8 ELSE 6
<1>1. program \in {"server", "client"} /\ main \in 0 .. 9
  BY StepsLength
<1>2. CASE program = "server"
  <2>1. Steps[program] = <<"daemon", "config", "log", "pool", "logic", "post",
                           "accept", "run", "join">>
    BY <1>2 DEF Steps
  <2>2. CASE main = 0
    BY <2>2 DEF At
  <2> SUFFICES ASSUME main \in 1 .. 9 PROVE
         /\ At("daemon") => main = 1
         /\ At("config") => main = 2
         /\ At("log") => main = 3
         /\ At("pool") => main = 4
         /\ At("logic") => main = 5
         /\ At("post") => main = 6
         /\ At("accept") => main = 7
         /\ At("users") => FALSE
         /\ At("run") => main = 8
    BY <1>1, <1>2, <2>2
  <2> QED BY <2>1 DEF At
<1>3. CASE program = "client"
  <2>1. Steps[program] = <<"daemon", "config", "log", "pool", "users", "run",
                           "join">>
    BY <1>3 DEF Steps
  <2>2. main \in 0 .. 7
    BY <1>3, StepsLength
  <2> QED BY <1>3, <2>1, <2>2 DEF At
<1> QED BY <1>1, <1>2, <1>3

-----------------------------------------------------------------------------
(* The inductive invariant, one part for each thing the program starts *)

\* The main thread: which step it has come to tells which threads run.
MainInv ==
  /\ program \in {"server", "client"} /\ daemon \in BOOLEAN
  /\ main \in 0 .. (IF program = "server" THEN 9 ELSE 7)
  /\ threads \subseteq {"log", "io", "logic"}
  /\ log \in {"none", "open", "closed"}
  /\ pool_size \in PoolSizes \cup {0}
  /\ main \in 1 .. 3 => threads = {} /\ log = "none"
  /\ main >= 4 => "log" \in threads
  /\ threads # {} => log = "open" /\ "log" \in threads
  /\ main >= 5 /\ pool_size > 0 => "io" \in threads
  /\ program = "server" /\ main >= 6 => "logic" \in threads

\* The users of the client: those below uid have been made.
UsersInv ==
  /\ uid \in 0 .. IntMax /\ uid_to \in 0 .. IntMax
  /\ made \in [0 .. IntMax -> 0 .. 2]
  /\ main \in 1 .. 4 => uid = 0 /\ \A u \in 0 .. IntMax : made[u] = 0
  /\ program = "client" /\ main >= 5 /\ uid > 0 => pool_size > 0
  /\ program = "client" /\ main >= 6 => uid > uid_to
  /\ program = "client" /\ uid_to < IntMax =>
       /\ uid <= uid_to + 1
       /\ \A u \in 0 .. IntMax : made[u] = IF u < uid THEN 1 ELSE 0

Tasks ==
  [name : HandlerNames \cup {"Init", "AddSession", "CleanUp"},
   of : Conns \cup {Nothing}]

\* The queue of the logic thread: the initialisation is its head until it ends,
\* and nowhere else.
LogicInv ==
  /\ logicq \in Seq(Tasks)
  /\ init \in {"posted", "LoginReq", "Ping", "timer", "done"}
  /\ program = "client" \/ main \in 1 .. 6 => logicq = <<>> /\ init = "posted"
  /\ program = "server" /\ main >= 7 => init = "done" \/ logicq # <<>>
  /\ init \in {"LoginReq", "Ping", "timer"} => logicq # <<>>
  /\ \A i \in DOMAIN logicq :
       (logicq[i].name = "Init") <=> (init # "done" /\ i = 1)

\* The handlers: how far the initialisation has come.
HandlersInv ==
  /\ init \in {"posted", "LoginReq", "Ping", "timer", "done"}
  /\ io_service_ \in BOOLEAN /\ handlers_ \subseteq HandlerNames
  /\ inserting \in HandlerNames \cup {Nothing}
  /\ io_service_ <=> init # "posted"
  /\ init \in {"Ping", "timer", "done"} => "LoginReq" \in handlers_
  /\ init \in {"timer", "done"} => "Ping" \in handlers_
  /\ inserting # Nothing => init \in HandlerNames /\ inserting = init

Accepting == program = "server" /\ main >= 8

\* The sessions: there are none before the server accepts.
SessionsInv ==
  /\ session \in [Conns -> {"none", "reading", "closed"}]
  /\ received \in [Conns -> 0 .. MaxMsgs]
  /\ Accepting \/ \A c \in Conns : session[c] = "none"

On(i) == {c \in Conns : io_of[c] = i}

\* The sessions that wait for or have an io_service take them in turn: those up
\* to pending have one session more than the others.
Even ==
  \E n \in Nat : \A i \in 0 .. pool_size - 1 :
    /\ IsFiniteSet(On(i))
    /\ Cardinality(On(i)) = n + (IF i < pending THEN 1 ELSE 0)

PoolInv ==
  /\ next_io_service_ \in Nat /\ pending \in Nat
  /\ io_of \in [Conns -> -1 .. pool_size - 1]
  /\ Accepting => /\ pool_size > 0 /\ next_io_service_ > 0
                  /\ pending = (next_io_service_ - 1) % pool_size
  /\ ~Accepting => pending = 0 /\ \A c \in Conns : io_of[c] = -1
  /\ program = "server" /\ ~Accepting => next_io_service_ = 0
  /\ \A c \in Conns : session[c] = "none" => io_of[c] = -1
  /\ Even

\* What can go wrong has a message that came too early as its cause.
HarmInv ==
  /\ crash \in {"no", "assert", "race", "terminate", "divide"}
  /\ early \in BOOLEAN
  /\ OnlyEarly

BootInv ==
  MainInv /\ UsersInv /\ LogicInv /\ HandlersInv /\ SessionsInv /\ PoolInv
    /\ HarmInv

-----------------------------------------------------------------------------
(* Steps *)

\* AtStep, for a state of the invariant.
LEMMA MainAt ==
  ASSUME MainInv
  PROVE  /\ At("daemon") => main = 1
         /\ At("config") => main = 2
         /\ At("log") => main = 3
         /\ At("pool") => main = 4
         /\ At("logic") => program = "server" /\ main = 5
         /\ At("post") => program = "server" /\ main = 6
         /\ At("accept") => program = "server" /\ main = 7
         /\ At("users") => program = "client" /\ main = 5
         /\ At("run") => main = IF program = "server" THEN 8 ELSE 6
<1>1. program \in DOMAIN Steps /\ main \in 0 .. Len(Steps[program])
  BY StepsLength DEF MainInv
<1> QED BY <1>1, AtStep

\* What the other threads and the users leave alone.
LEMMA MainKept ==
  ASSUME PoolEmpty \/ MakeUser \/ LogicThread \/ \E c \in Conns : Accept(c) \/ IoThread(c)
  PROVE  UNCHANGED <<process, main>>
<1>1. CASE PoolEmpty
  BY <1>1 DEF PoolEmpty
<1>2. CASE MakeUser
  BY <1>2 DEF MakeUser
<1>3. CASE LogicThread
  BY <1>3 DEF LogicThread, SetIoService, BeginInsert, EndInsert, InitTimer,
              RunTask, steady
<1>4. CASE \E c \in Conns : Accept(c)
  BY <1>4 DEF Accept
<1>5. CASE \E c \in Conns : IoThread(c)
  BY <1>5 DEF IoThread, AssertFails, RaceCrashes, Found, NotRegistered, steady
<1> QED BY <1>1, <1>2, <1>3, <1>4, <1>5

LEMMA MainStep ==
  ASSUME MainInv, [Next]_vars
  PROVE  MainInv'
<1>1. CASE UNCHANGED <<process, main>>
  BY <1>1 DEF MainInv, process
<1>2. CASE CreateDaemon
  <2>1. main = 1 /\ main' = 2 /\ UNCHANGED <<program, daemon, pool_size>>
    BY <1>2, MainAt DEF CreateDaemon, GoOn
  <2>2. threads = {} /\ log = "none"
    BY <2>1 DEF MainInv
  <2>3. threads' = {} /\ log' = "none"
    BY <1>2, <2>2 DEF CreateDaemon
  <2> QED BY <2>1, <2>3 DEF MainInv
<1>3. CASE LoadConfig
  <2>1. main = 2 /\ main' \in {0, 3} /\ UNCHANGED <<program, daemon, threads, log>>
    BY <1>3, MainAt DEF LoadConfig, GoOn, Return
  <2>2. pool_size' \in PoolSizes \cup {0}
    BY <1>3 DEF LoadConfig, MainInv
  <2> QED BY <2>1, <2>2 DEF MainInv
<1>4. CASE InitLog
  <2>1. main = 3 /\ UNCHANGED <<program, daemon, pool_size>>
    BY <1>4, MainAt DEF InitLog
  <2>2. threads = {} /\ log = "none"
    BY <2>1 DEF MainInv
  <2>3. \/ main' = 4 /\ threads' = {"log"} /\ log' = "open"
        \/ main' = 0 /\ threads' = {} /\ log' = "none"
    BY <1>4, <2>1, <2>2 DEF InitLog, GoOn, Return
  <2> QED BY <2>1, <2>3 DEF MainInv
<1>5. CASE StartThreads
  <2>1. main = 4 /\ main' = 5 /\ UNCHANGED <<program, daemon, log, pool_size>>
    BY <1>5, MainAt DEF StartThreads, GoOn
  <2>2. threads' = IF pool_size = 0 THEN threads ELSE threads \cup {"io"}
    BY <1>5 DEF StartThreads
  <2> QED BY <2>1, <2>2 DEF MainInv
<1>6. CASE StartLogic
  <2>1. /\ program = "server" /\ main = 5 /\ main' = 6
        /\ UNCHANGED <<program, daemon, log, pool_size>>
    BY <1>6, MainAt DEF StartLogic, GoOn
  <2>2. threads' = threads \cup {"logic"}
    BY <1>6 DEF StartLogic
  <2> QED BY <2>1, <2>2 DEF MainInv
<1>7. CASE StartFails
  <2>1. main' = 0 /\ UNCHANGED process
    BY <1>7 DEF StartFails, Return
  <2> QED BY <2>1 DEF MainInv, process
<1>8. CASE PostInit \/ Listen
  <2>1. /\ program = "server" /\ main \in {6, 7} /\ main' = main + 1
        /\ UNCHANGED process
    BY <1>8, MainAt DEF PostInit, Listen, GoOn
  <2> QED BY <2>1 DEF MainInv, process
<1>9. CASE UsersMade \/ RunReturns
  <2>1. /\ main \in 5 .. (IF program = "server" THEN 8 ELSE 6)
        /\ program = "server" => main = 8
        /\ main' = main + 1 /\ UNCHANGED process
    BY <1>9, MainAt DEF UsersMade, RunReturns, GoOn, MainInv
  <2> QED BY <2>1 DEF MainInv, process
<1> QED BY <1>1, <1>2, <1>3, <1>4, <1>5, <1>6, <1>7, <1>8, <1>9, MainKept
        DEF Next, MainThread, vars

-----------------------------------------------------------------------------
(* The users *)

LEMMA UsersKept ==
  ASSUME MainInv, UsersInv, UNCHANGED <<program, pool_size, clients>>,
         \/ main' \in {0, main}
         \/ /\ main' = main + 1 /\ main \notin {0, 4}
            /\ ~(program = "client" /\ main = 5)
  PROVE  UsersInv'
<1>1. UNCHANGED <<program, pool_size, uid, uid_to, made>>
  BY DEF clients
<1>2. /\ main' \in 1 .. 4 => main \in 1 .. 4
      /\ program = "client" /\ main' >= 5 => main >= 5
      /\ program = "client" /\ main' >= 6 => main >= 6
  BY DEF MainInv
<1> QED BY <1>1, <1>2 DEF UsersInv

LEMMA UserMade ==
  ASSUME MainInv, UsersInv, MakeUser
  PROVE  UsersInv'
<1>1. program = "client" /\ main = 5 /\ UNCHANGED <<main, program, pool_size, uid_to>>
  BY MainAt DEF MakeUser, process
<1>2. /\ uid \in 0 .. IntMax /\ uid_to \in 0 .. IntMax /\ uid <= uid_to
      /\ pool_size > 0 /\ made \in [0 .. IntMax -> 0 .. 2] /\ made[uid] < 2
  BY DEF MakeUser, UsersInv
<1>3. made' = [made EXCEPT ![uid] = made[uid] + 1]
  BY DEF MakeUser
<1>4. made' \in [0 .. IntMax -> 0 .. 2]
  BY <1>2, <1>3
<1>5. uid' = (uid + 1) % (IntMax + 1)
  BY DEF MakeUser
<1>6. uid + 1 \in Nat /\ IntMax + 1 \in Nat \ {0}
  BY <1>2
<1>7. uid' \in 0 .. IntMax
  BY <1>5, <1>6, DivMod
<1>8. CASE uid_to < IntMax
  <2>1. IntMax + 1 > uid + 1
    BY <1>2, <1>8
  <2>2. uid' = uid + 1
    BY <1>2, <1>5, <2>1
  <2>3. /\ uid <= uid_to + 1
        /\ \A u \in 0 .. IntMax : made[u] = IF u < uid THEN 1 ELSE 0
    BY <1>1, <1>8 DEF UsersInv
  <2>4. ASSUME NEW u \in 0 .. IntMax
        PROVE  made'[u] = IF u < uid' THEN 1 ELSE 0
    BY <1>2, <1>3, <2>2, <2>3
  <2> QED BY <1>1, <1>2, <1>4, <1>7, <2>2, <2>4 DEF UsersInv
<1> QED BY <1>1, <1>2, <1>4, <1>7, <1>8 DEF UsersInv

LEMMA UsersStep ==
  ASSUME MainInv, UsersInv, [Next]_vars
  PROVE  UsersInv'
<1>1. CASE LoadConfig
  <2>1. main = 2 /\ main' \in {0, 3} /\ UNCHANGED <<program, uid, made>>
    BY <1>1, MainAt DEF LoadConfig, GoOn, Return
  <2>2. uid = 0 /\ \A u \in 0 .. IntMax : made[u] = 0
    BY <2>1 DEF UsersInv
  <2>3. uid_to' \in 0 .. IntMax
    BY <1>1 DEF LoadConfig, UsersInv
  <2>4. uid' = 0 /\ \A u \in 0 .. IntMax : made'[u] = IF u < 0 THEN 1 ELSE 0
    BY <2>1, <2>2
  <2>5. ~(main' >= 5) /\ ~(main' >= 6)
    BY <2>1
  <2>7. 0 <= uid_to' + 1
    <3>1. \A n \in 0 .. IntMax : 0 <= n + 1
      OBVIOUS
    <3> QED BY <2>3, <3>1
  <2>6. made' \in [0 .. IntMax -> 0 .. 2]
    BY <2>1 DEF UsersInv
  <2> QED BY <2>2, <2>1, <2>3, <2>4, <2>5, <2>6, <2>7 DEF UsersInv
<1>2. CASE StartThreads
  <2>1. main = 4 /\ main' = 5 /\ UNCHANGED <<program, pool_size, clients>>
    BY <1>2, MainAt DEF StartThreads, GoOn
  <2> QED BY <2>1 DEF UsersInv, clients
<1>3. CASE UsersMade
  <2>1. /\ main = 5 /\ main' = 6 /\ uid > uid_to
        /\ UNCHANGED <<program, pool_size, clients>>
    BY <1>3, MainAt DEF UsersMade, GoOn, process
  <2> QED BY <2>1 DEF UsersInv, clients
<1>4. CASE CreateDaemon \/ InitLog \/ StartLogic \/ PostInit \/ Listen \/ RunReturns
  <2>1. /\ UNCHANGED <<program, pool_size, clients>>
        /\ \/ main' = 0
           \/ /\ main' = main + 1 /\ main \notin {0, 4}
              /\ ~(program = "client" /\ main = 5)
    BY <1>4, MainAt DEF CreateDaemon, InitLog, StartLogic, PostInit, Listen,
       RunReturns, GoOn, Return, process
  <2> QED BY <2>1, UsersKept
<1>5. CASE StartFails \/ PoolEmpty \/ \E c \in Conns : Accept(c)
  <2>1. UNCHANGED <<program, pool_size, clients>> /\ main' \in {0, main}
    BY <1>5 DEF StartFails, PoolEmpty, Accept, Return, process
  <2> QED BY <2>1, UsersKept
<1>6. CASE LogicThread \/ \E c \in Conns : IoThread(c)
  <2>1. UNCHANGED clients
    BY <1>6 DEF LogicThread, SetIoService, BeginInsert, EndInsert, InitTimer,
       RunTask, IoThread, AssertFails, RaceCrashes, Found, NotRegistered, steady
  <2>2. UNCHANGED <<program, pool_size>> /\ main' \in {0, main}
    BY <1>6, MainKept DEF process
  <2> QED BY <2>1, <2>2, UsersKept
<1>7. CASE UNCHANGED vars
  BY <1>7, UsersKept DEF vars, process
<1> QED BY <1>1, <1>2, <1>3, <1>4, <1>5, <1>6, <1>7, UserMade
        DEF Next, MainThread

-----------------------------------------------------------------------------
(* The logic thread and what it initialises *)

LEMMA TasksAppended ==
  ASSUME NEW q \in Seq(Tasks), NEW t \in Tasks
  PROVE  /\ Append(q, t) \in Seq(Tasks) /\ Append(q, t) # <<>>
         /\ DOMAIN Append(q, t) = 1 .. Len(q) + 1
         /\ \A i \in 1 .. Len(q) : Append(q, t)[i] = q[i]
         /\ Append(q, t)[Len(q) + 1] = t
  OBVIOUS

LEMMA TasksTail ==
  ASSUME NEW q \in Seq(Tasks), q # <<>>
  PROVE  /\ Tail(q) \in Seq(Tasks)
         /\ \A i \in DOMAIN Tail(q) : i + 1 \in DOMAIN q /\ Tail(q)[i] = q[i + 1]
  OBVIOUS

\* A closure posted while the server accepts comes after the initialisation.
LEMMA LogicAppended ==
  ASSUME LogicInv, NEW t \in Tasks, program = "server", main >= 7,
         t.name # "Init", logicq' = Append(logicq, t),
         UNCHANGED <<program, main, init>>
  PROVE  LogicInv'
<1>1. logicq \in Seq(Tasks) /\ (init = "done" \/ logicq # <<>>)
  BY DEF LogicInv
<1>2. logicq' \in Seq(Tasks) /\ logicq' # <<>>
  BY <1>1, TasksAppended
<1>3. ASSUME NEW i \in DOMAIN logicq'
      PROVE  (logicq'[i].name = "Init") <=> (init' # "done" /\ i = 1)
  <2>1. i \in 1 .. Len(logicq) + 1
    BY <1>1, TasksAppended
  <2>2. CASE i \in 1 .. Len(logicq)
    <3>1. i \in DOMAIN logicq /\ logicq'[i] = logicq[i]
      BY <1>1, <2>2, TasksAppended
    <3> QED BY <3>1 DEF LogicInv
  <2>3. CASE i = Len(logicq) + 1
    <3>1. logicq'[i] = t
      BY <1>1, <2>3, TasksAppended
    <3>2. i = 1 => init = "done"
      BY <1>1, <2>3
    <3> QED BY <3>1, <3>2
  <2> QED BY <1>1, <2>1, <2>2, <2>3
<1> QED BY <1>2, <1>3 DEF LogicInv

\* A closure that ends is not the initialisation, or ends it.
LEMMA LogicEnded ==
  ASSUME LogicInv, logicq # <<>>, logicq' = Tail(logicq), init' = "done",
         UNCHANGED <<program, main>>, program = "server", main \notin 1 .. 6
  PROVE  LogicInv'
<1>1. logicq' \in Seq(Tasks)
  BY TasksTail DEF LogicInv
<1>2. ASSUME NEW i \in DOMAIN logicq'
      PROVE  logicq'[i].name # "Init"
  <2>1. i + 1 \in DOMAIN logicq /\ logicq'[i] = logicq[i + 1] /\ i + 1 # 1
    BY TasksTail DEF LogicInv
  <2> QED BY <2>1 DEF LogicInv
<1> QED BY <1>1, <1>2 DEF LogicInv

LEMMA LogicStep ==
  ASSUME MainInv, LogicInv, HandlersInv, SessionsInv, [Next]_vars
  PROVE  LogicInv'
<1>1. CASE /\ CreateDaemon \/ LoadConfig \/ InitLog \/ StartThreads
               \/ StartLogic \/ StartFails \/ Listen \/ UsersMade \/ RunReturns
  <2>1. UNCHANGED <<program, logicq, init>>
    BY <1>1 DEF CreateDaemon, LoadConfig, InitLog, StartThreads, StartLogic,
       StartFails, Listen, UsersMade, RunReturns, sessions, boot, process
  <2>2. \/ main' = 0
        \/ main' = main + 1 /\ (main \in 1 .. 5 \/ program = "client" \/ main >= 7)
    BY <1>1, MainAt DEF CreateDaemon, LoadConfig, InitLog, StartThreads,
       StartLogic, StartFails, Listen, UsersMade, RunReturns, GoOn, Return, MainInv
  <2> QED BY <2>1, <2>2 DEF LogicInv, MainInv
<1>2. CASE PostInit
  <2>1. /\ program = "server" /\ main = 6 /\ main' = 7
        /\ UNCHANGED <<program, init>>
        /\ logicq' = Append(logicq, Task("Init", Nothing))
    BY <1>2, MainAt DEF PostInit, GoOn, boot, process
  <2>2. logicq = <<>> /\ init = "posted"
    BY <2>1 DEF LogicInv
  <2>3. Task("Init", Nothing) \in Tasks /\ Task("Init", Nothing).name = "Init"
    BY DEF Task, Tasks
  <2>4. /\ logicq' \in Seq(Tasks) /\ logicq' # <<>>
        /\ DOMAIN logicq' = 1 .. 1 /\ logicq'[1].name = "Init"
    BY <2>1, <2>2, <2>3
  <2> QED BY <2>1, <2>2, <2>4 DEF LogicInv
<1>3. CASE PoolEmpty \/ MakeUser \/ SetIoService \/ BeginInsert \/ UNCHANGED vars
  <2>1. UNCHANGED <<program, main, logicq>>
    BY <1>3 DEF PoolEmpty, MakeUser, SetIoService, BeginInsert, vars, steady,
       process, sessions
  <2>2. init' = init \/ SetIoService
    BY <1>3 DEF PoolEmpty, MakeUser, BeginInsert, vars, sessions, boot
  <2>3. SetIoService => init = "posted" /\ init' = "LoginReq" /\ logicq # <<>>
    BY DEF SetIoService, NextIs
  <2> QED BY <2>1, <2>2, <2>3 DEF LogicInv
<1>4. CASE EndInsert
  <2>1. init \in HandlerNames /\ init' \in {"Ping", "timer"}
    BY <1>4 DEF EndInsert, HandlersInv
  <2>2. UNCHANGED <<program, main, logicq>>
    BY <1>4 DEF EndInsert, steady, process
  <2>3. logicq # <<>> /\ init # "posted" /\ init # "done"
    BY <2>1 DEF LogicInv, HandlerNames
  <2> QED BY <2>1, <2>2, <2>3 DEF LogicInv
<1>5. CASE InitTimer
  <2>1. init = "timer" /\ UNCHANGED <<program, main>>
    BY <1>5 DEF InitTimer, steady, process
  <2>2. logicq # <<>> /\ program = "server" /\ main \notin 1 .. 6
    BY <2>1 DEF LogicInv, MainInv
  <2> QED BY <1>5, <2>1, <2>2, LogicEnded DEF InitTimer
<1>6. CASE RunTask
  <2>1. /\ logicq # <<>> /\ Head(logicq).name # "Init" /\ logicq' = Tail(logicq)
        /\ UNCHANGED <<program, main, init>>
    BY <1>6 DEF RunTask, NextIs, HandlerNames, steady, process, boot
  <2>2. 1 \in DOMAIN logicq /\ logicq[1] = Head(logicq)
    BY <2>1 DEF LogicInv
  <2>3. init = "done"
    BY <2>1, <2>2 DEF LogicInv
  <2>4. program = "server" /\ main \notin 1 .. 6
    BY <2>1 DEF LogicInv, MainInv
  <2> QED BY <2>1, <2>3, <2>4, LogicEnded
<1>7. ASSUME NEW c \in Conns, Accept(c) PROVE LogicInv'
  <2>1. /\ program = "server" /\ main = 8 /\ UNCHANGED <<program, main, init>>
        /\ logicq' = Append(logicq, Task("AddSession", c))
    BY <1>7, MainAt DEF Accept, process, boot
  <2>2. Task("AddSession", c) \in Tasks /\ Task("AddSession", c).name # "Init"
    BY DEF Task, Tasks
  <2> QED BY <2>1, <2>2, LogicAppended
<1>8. ASSUME NEW c \in Conns, IoThread(c) PROVE LogicInv'
  <2>1. session[c] = "reading" /\ UNCHANGED <<program, main, init>>
    BY <1>8 DEF IoThread, AssertFails, RaceCrashes, Found, NotRegistered,
       Received, steady, boot, process
  <2>2. program = "server" /\ main >= 8 /\ main >= 7
    BY <2>1 DEF SessionsInv, Accepting, MainInv
  <2>3. CASE UNCHANGED logicq
    BY <2>1, <2>3 DEF LogicInv
  <2>4. ASSUME NEW name \in HandlerNames \cup {"CleanUp"},
               logicq' = Append(logicq, Task(name, c))
        PROVE  LogicInv'
    <3>1. Task(name, c) \in Tasks /\ Task(name, c).name # "Init"
      BY DEF Task, Tasks, HandlerNames
    <3> QED BY <2>1, <2>2, <2>4, <3>1, LogicAppended
  <2> QED BY <1>8, <2>3, <2>4
          DEF IoThread, AssertFails, RaceCrashes, Found, NotRegistered
<1> QED BY <1>1, <1>2, <1>3, <1>4, <1>5, <1>6, <1>7, <1>8
        DEF Next, MainThread, LogicThread

LEMMA HandlersStep ==
  ASSUME HandlersInv, [Next]_vars
  PROVE  HandlersInv'
<1>1. CASE UNCHANGED boot
  BY <1>1 DEF HandlersInv, boot
<1>2. CASE SetIoService
  <2>1. /\ init = "posted" /\ init' = "LoginReq" /\ io_service_' = TRUE
        /\ UNCHANGED <<handlers_, inserting>>
    BY <1>2 DEF SetIoService
  <2>2. inserting = Nothing
    BY <2>1 DEF HandlersInv, HandlerNames
  <2> QED BY <2>1, <2>2 DEF HandlersInv
<1>3. CASE BeginInsert
  <2>1. /\ init \in HandlerNames /\ inserting' = init
        /\ UNCHANGED <<init, io_service_, handlers_>>
    BY <1>3 DEF BeginInsert
  <2> QED BY <2>1 DEF HandlersInv
<1>4. CASE EndInsert
  <2>1. /\ init \in HandlerNames /\ inserting = init /\ inserting' = Nothing
        /\ handlers_' = handlers_ \cup {init}
        /\ init' = IF init = "LoginReq" THEN "Ping" ELSE "timer"
        /\ UNCHANGED io_service_
    BY <1>4 DEF EndInsert, HandlersInv
  <2>2. io_service_ /\ handlers_' \subseteq HandlerNames
    BY <2>1 DEF HandlersInv, HandlerNames
  <2>3. CASE init = "LoginReq"
    <3>1. init' = "Ping" /\ "LoginReq" \in handlers_'
      BY <2>1, <2>3
    <3> QED BY <2>1, <2>2, <3>1 DEF HandlersInv
  <2>4. CASE init = "Ping"
    <3>1. init' = "timer" /\ "LoginReq" \in handlers_' /\ "Ping" \in handlers_'
      BY <2>1, <2>4 DEF HandlersInv
    <3> QED BY <2>1, <2>2, <3>1 DEF HandlersInv
  <2> QED BY <2>1, <2>3, <2>4 DEF HandlerNames
<1>5. CASE InitTimer
  <2>1. /\ init = "timer" /\ init' = "done"
        /\ UNCHANGED <<io_service_, handlers_, inserting>>
    BY <1>5 DEF InitTimer
  <2>2. inserting = Nothing
    BY <2>1 DEF HandlersInv, HandlerNames
  <2> QED BY <2>1, <2>2 DEF HandlersInv
<1>6. CASE MainThread \/ RunReturns
  BY <1>1, <1>6 DEF MainThread, RunReturns, CreateDaemon, LoadConfig, InitLog,
     StartThreads, StartLogic, PostInit, StartFails, PoolEmpty, Listen, MakeUser,
     UsersMade, sessions
<1>7. CASE RunTask \/ \E c \in Conns : Accept(c) \/ IoThread(c)
  BY <1>1, <1>7 DEF RunTask, Accept, IoThread, AssertFails, RaceCrashes, Found,
     NotRegistered
<1>8. CASE UNCHANGED vars
  BY <1>1, <1>8 DEF vars, sessions
<1> QED BY <1>2, <1>3, <1>4, <1>5, <1>6, <1>7, <1>8 DEF Next, LogicThread

-----------------------------------------------------------------------------
(* The sessions and the harm they can come to *)

\* The server accepts from the call of Accept on, and does not stop.
LEMMA AcceptingStep ==
  ASSUME MainInv, [Next]_vars
  PROVE  /\ Accepting => Accepting'
         /\ ~Accepting /\ ~Listen => ~Accepting'
         /\ UNCHANGED program
<1>1. CASE UNCHANGED <<process, main>>
  BY <1>1 DEF Accepting, process
<1>2. CASE CreateDaemon \/ LoadConfig \/ InitLog \/ StartThreads \/ StartLogic
             \/ PostInit
  <2>1. main \in 1 .. 6
    BY <1>2, MainAt DEF CreateDaemon, LoadConfig, InitLog, StartThreads,
       StartLogic, PostInit
  <2>2. UNCHANGED program /\ main' \in {0, main + 1}
    BY <1>2 DEF CreateDaemon, LoadConfig, InitLog, StartThreads,
       StartLogic, PostInit, GoOn, Return, process
  <2>3. main < 8 /\ main' < 8
    BY <2>1, <2>2
  <2> QED BY <2>2, <2>3 DEF Accepting, MainInv
<1>5. CASE StartFails
  <2>1. main < 8 /\ main' = 0 /\ UNCHANGED program
    BY <1>5, MainAt DEF StartFails, Return, process
  <2> QED BY <2>1 DEF Accepting, MainInv
<1>3. CASE Listen
  <2>1. program = "server" /\ main = 7 /\ main' = 8 /\ UNCHANGED program
    BY <1>3, MainAt DEF Listen, GoOn, process
  <2> QED BY <1>3, <2>1 DEF Accepting
<1>4. CASE UsersMade \/ RunReturns
  <2>1. /\ UNCHANGED program /\ main' = main + 1
        /\ program = "client" \/ main = 8
    BY <1>4, MainAt DEF UsersMade, RunReturns, GoOn, process, MainInv
  <2>2. main \in Nat
    BY DEF MainInv
  <2> QED BY <2>1, <2>2 DEF Accepting
<1> QED BY <1>1, <1>2, <1>3, <1>4, <1>5, MainKept DEF Next, MainThread, vars

\* A closed session, or one that takes a message, is of a server that accepts.
LEMMA SessionsStep ==
  ASSUME MainInv, SessionsInv, [Next]_vars
  PROVE  SessionsInv'
<1>1. CASE UNCHANGED <<session, received>>
  BY <1>1, AcceptingStep DEF SessionsInv
<1>2. ASSUME NEW c \in Conns, Accept(c) PROVE SessionsInv'
  <2>1. /\ program = "server" /\ main = 8 /\ UNCHANGED received
        /\ session' = [session EXCEPT ![c] = "reading"]
    BY <1>2, MainAt DEF Accept
  <2>2. Accepting'
    BY <2>1, AcceptingStep DEF Accepting
  <2> QED BY <2>1, <2>2 DEF SessionsInv
<1>3. ASSUME NEW c \in Conns, IoThread(c) PROVE SessionsInv'
  <2>1. session[c] = "reading" /\ received[c] < MaxMsgs
    BY <1>3 DEF IoThread, AssertFails, RaceCrashes, Found, NotRegistered, Received
  <2>2. received' = [received EXCEPT ![c] = received[c] + 1]
    BY <1>3 DEF IoThread, AssertFails, RaceCrashes, Found, NotRegistered, Received
  <2>3. received' \in [Conns -> 0 .. MaxMsgs]
    BY <2>1, <2>2 DEF SessionsInv
  <2>4. session' = session \/ session' = [session EXCEPT ![c] = "closed"]
    BY <1>3 DEF IoThread, AssertFails, RaceCrashes, Found, NotRegistered
  <2>5. session' \in [Conns -> {"none", "reading", "closed"}]
    BY <2>4 DEF SessionsInv
  <2>6. Accepting'
    BY <2>1, AcceptingStep DEF SessionsInv
  <2> QED BY <2>3, <2>5, <2>6 DEF SessionsInv
<1>4. CASE MainThread \/ RunReturns
  BY <1>1, <1>4 DEF MainThread, RunReturns, CreateDaemon, LoadConfig, InitLog,
     StartThreads, StartLogic, PostInit, StartFails, PoolEmpty, Listen, MakeUser,
     UsersMade, sessions
<1>5. CASE LogicThread
  BY <1>1, <1>5 DEF LogicThread, SetIoService, BeginInsert, EndInsert, InitTimer,
     RunTask
<1>6. CASE UNCHANGED vars
  BY <1>1, <1>6 DEF vars, sessions
<1> QED BY <1>2, <1>3, <1>4, <1>5, <1>6 DEF Next

\* Once the initialisation is over, every handler is found.
LEMMA Unharmed ==
  ASSUME HandlersInv, NEW c \in Conns, init = "done", IoThread(c)
  PROVE  session' = session /\ crash' = crash
<1>1. io_service_ /\ handlers_ = HandlerNames /\ inserting = Nothing
  BY DEF HandlersInv, HandlerNames
<1> QED BY <1>1 DEF IoThread, AssertFails, RaceCrashes, Found, NotRegistered, steady

LEMMA HarmStep ==
  ASSUME HandlersInv, SessionsInv, HarmInv, [Next]_vars
  PROVE  HarmInv'
<1>1. CASE UNCHANGED <<session, crash, early>>
  BY <1>1 DEF HarmInv, OnlyEarly
<1>2. CASE MainThread \/ RunReturns
  <2>1. /\ UNCHANGED <<session, early>>
        /\ crash' = crash \/ crash' \in {"no", "terminate", "divide"}
    BY <1>2 DEF MainThread, RunReturns, CreateDaemon, LoadConfig, InitLog,
       StartThreads, StartLogic, PostInit, StartFails, PoolEmpty, Listen, MakeUser,
       UsersMade, sessions
  <2> QED BY <2>1 DEF HarmInv, OnlyEarly
<1>3. CASE LogicThread
  BY <1>1, <1>3 DEF LogicThread, SetIoService, BeginInsert, EndInsert, InitTimer,
     RunTask, steady
<1>4. ASSUME NEW c \in Conns, Accept(c) PROVE HarmInv'
  <2>1. /\ session' = [session EXCEPT ![c] = "reading"]
        /\ UNCHANGED <<crash, early>>
    BY <1>4 DEF Accept
  <2>2. \A d \in Conns : session'[d] = "closed" => session[d] = "closed"
    BY <2>1 DEF SessionsInv
  <2> QED BY <2>1, <2>2 DEF HarmInv, OnlyEarly
<1>5. ASSUME NEW c \in Conns, IoThread(c) PROVE HarmInv'
  <2>1. early' = (early \/ init # "done")
    BY <1>5 DEF IoThread, AssertFails, RaceCrashes, Found, NotRegistered, Received
  <2>2. crash' \in {crash, "assert", "race"}
    BY <1>5 DEF IoThread, AssertFails, RaceCrashes, Found, NotRegistered, steady
  <2>3. crash' \in {"no", "assert", "race", "terminate", "divide"}
    BY <2>2 DEF HarmInv
  <2>4. early' \in BOOLEAN
    BY <2>1 DEF HarmInv
  <2>5. CASE init = "done"
    <3>1. session' = session /\ crash' = crash
      BY <1>5, <2>5, Unharmed
    <3>2. early => early'
      BY <2>1
    <3> QED BY <2>3, <2>4, <3>1, <3>2 DEF HarmInv, OnlyEarly
  <2>6. CASE init # "done"
    <3>1. early'
      BY <2>1, <2>6
    <3> QED BY <2>3, <2>4, <3>1 DEF HarmInv, OnlyEarly
  <2> QED BY <2>5, <2>6
<1>6. CASE UNCHANGED vars
  BY <1>1, <1>6 DEF vars, sessions
<1> QED BY <1>2, <1>3, <1>4, <1>5, <1>6 DEF Next

-----------------------------------------------------------------------------
(* The pool *)

LEMMA PoolKept ==
  ASSUME PoolInv, UNCHANGED <<accepting, pool_size, program, session>>,
         Accepting <=> Accepting'
  PROVE  PoolInv'
<1>1. UNCHANGED <<next_io_service_, pending, io_of, pool_size, program, session>>
  BY DEF accepting
<1>2. Even'
  BY <1>1 DEF PoolInv, Even, On
<1> QED BY <1>1, <1>2 DEF PoolInv

\* No session has an io_service yet.
LEMMA EvenAtFirst ==
  ASSUME pool_size' \in Nat, pending' = 0, \A c \in Conns : io_of'[c] = -1
  PROVE  Even'
<1>1. ASSUME NEW i \in 0 .. pool_size' - 1
      PROVE  /\ IsFiniteSet(On(i)')
             /\ Cardinality(On(i)') = 0 + (IF i < pending' THEN 1 ELSE 0)
  <2>1. i \in Nat /\ ~(i < pending')
    OBVIOUS
  <2>2. On(i)' = {}
    BY <2>1 DEF On
  <2> QED BY <2>1, <2>2, FS_EmptySet
<1> QED BY <1>1 DEF Even

\* A session takes the io_service that is due.
LEMMA EvenAfter ==
  ASSUME Even, NEW c \in Conns, NEW P \in Nat \ {0}, NEW i \in 0 .. P - 1,
         pool_size = P, pool_size' = P, pending = i, io_of[c] = -1,
         io_of \in [Conns -> -1 .. P - 1], io_of' = [io_of EXCEPT ![c] = i],
         pending' = IF i + 1 = P THEN 0 ELSE i + 1
  PROVE  Even'
<1>1. PICK n \in Nat : \A j \in 0 .. P - 1 :
        IsFiniteSet(On(j)) /\ Cardinality(On(j)) = n + (IF j < i THEN 1 ELSE 0)
  BY DEF Even
<1>2. On(i)' = On(i) \cup {c} /\ c \notin On(i)
  BY DEF On
<1>3. \A j \in 0 .. P - 1 : j # i => On(j)' = On(j)
  BY DEF On
<1>4. IsFiniteSet(On(i)) /\ Cardinality(On(i)) = n
  BY <1>1
<1>5. IsFiniteSet(On(i)') /\ Cardinality(On(i)') = n + 1
  BY <1>2, <1>4, FS_AddElement
<1>6. \A j \in 0 .. P - 1 :
        /\ IsFiniteSet(On(j)')
        /\ Cardinality(On(j)') = n + (IF j < i + 1 THEN 1 ELSE 0)
  BY <1>1, <1>3, <1>5
<1>7. CASE i + 1 = P
  <2>1. \A j \in 0 .. P - 1 : j < i + 1 /\ ~(j < 0)
    BY <1>7
  <2>2. \A j \in 0 .. P - 1 :
          /\ IsFiniteSet(On(j)')
          /\ Cardinality(On(j)') = (n + 1) + (IF j < pending' THEN 1 ELSE 0)
    BY <1>6, <1>7, <2>1
  <2>3. n + 1 \in Nat
    OBVIOUS
  <2> QED BY <2>2, <2>3 DEF Even
<1>8. CASE i + 1 # P
  <2>1. pending' = i + 1
    BY <1>8
  <2> QED BY <1>6, <2>1 DEF Even
<1> QED BY <1>7, <1>8

LEMMA PoolStep ==
  ASSUME MainInv, SessionsInv, PoolInv, [Next]_vars
  PROVE  PoolInv'
<1>1. CASE /\ CreateDaemon \/ InitLog \/ StartLogic \/ PostInit \/ StartFails
               \/ PoolEmpty \/ UsersMade \/ RunReturns
  <2>1. UNCHANGED <<accepting, pool_size, program, session>>
    BY <1>1 DEF CreateDaemon, InitLog, StartLogic, PostInit, StartFails,
       PoolEmpty, UsersMade, RunReturns, process, sessions
  <2>2. ~Listen
    BY <1>1, MainAt DEF CreateDaemon, InitLog, StartLogic, PostInit, StartFails,
       PoolEmpty, UsersMade, RunReturns, Listen, Return, GoOn
  <2> QED BY <2>1, <2>2, PoolKept, AcceptingStep
<1>2. CASE LoadConfig
  <2>1. /\ main = 2 /\ main' \in {0, 3}
        /\ UNCHANGED <<accepting, program, session>>
    BY <1>2, MainAt DEF LoadConfig, GoOn, Return, sessions
  <2>2. ~Accepting /\ ~Accepting'
    BY <2>1 DEF Accepting
  <2>3. pool_size' \in Nat
    <3>1. pool_size \in PoolSizes \cup {0}
      BY DEF MainInv
    <3>2. pool_size' \in PoolSizes \cup {0}
      BY <1>2, <3>1 DEF LoadConfig
    <3> QED BY <3>2
  <2>4. /\ pending' = 0 /\ \A c \in Conns : io_of'[c] = -1
        /\ next_io_service_' = next_io_service_
    BY <2>1, <2>2 DEF PoolInv, accepting
  <2>5. Even'
    BY <2>3, <2>4, EvenAtFirst
  <2>6. io_of' \in [Conns -> -1 .. pool_size' - 1]
    <3>1. io_of' = io_of /\ io_of = [c \in Conns |-> io_of[c]]
      BY <2>1 DEF accepting, PoolInv
    <3> QED BY <2>3, <2>4, <3>1
  <2> QED BY <2>1, <2>2, <2>4, <2>5, <2>6 DEF PoolInv
<1>3. CASE StartThreads
  <2>1. /\ main = 4 /\ main' = 5 /\ next_io_service_' = 0
        /\ UNCHANGED <<pending, io_of, pool_size, program, session>>
    BY <1>3, MainAt DEF StartThreads, GoOn, sessions
  <2>2. ~Accepting /\ ~Accepting'
    BY <2>1 DEF Accepting
  <2>3. Even'
    BY <2>1 DEF PoolInv, Even, On
  <2> QED BY <2>1, <2>2, <2>3 DEF PoolInv
<1>4. CASE Listen
  <2>1. /\ program = "server" /\ main = 7 /\ main' = 8 /\ pool_size > 0
        /\ pending' = next_io_service_ % pool_size
        /\ next_io_service_' = next_io_service_ + 1
        /\ UNCHANGED <<io_of, pool_size, program, session>>
    BY <1>4, MainAt DEF Listen, GoOn, GetIoService, process, sessions
  <2>2. ~Accepting /\ Accepting'
    BY <2>1 DEF Accepting
  <2>3. /\ next_io_service_ = 0 /\ pending = 0
        /\ \A c \in Conns : io_of[c] = -1
    BY <2>1, <2>2 DEF PoolInv
  <2>4. pool_size \in Nat \ {0}
    BY <2>1 DEF MainInv
  <2>5. 0 % pool_size = 0
    BY <2>4
  <2>6. pending' = 0 /\ next_io_service_' = 1
    BY <2>1, <2>3, <2>5
  <2>7. pending' = (next_io_service_' - 1) % pool_size'
    BY <2>1, <2>5, <2>6
  <2>8. Even'
    BY <2>1, <2>3, <2>6 DEF PoolInv, Even, On
  <2> QED BY <2>1, <2>2, <2>3, <2>6, <2>7, <2>8 DEF PoolInv
<1>5. CASE MakeUser
  <2>1. /\ program = "client" /\ next_io_service_' = next_io_service_ + 2
        /\ UNCHANGED <<pending, io_of, pool_size, program, session, main>>
    BY <1>5, MainAt DEF MakeUser, process, sessions
  <2>2. ~Accepting /\ ~Accepting'
    BY <2>1 DEF Accepting
  <2>3. Even'
    BY <2>1 DEF PoolInv, Even, On
  <2>4. next_io_service_' \in Nat
    BY <2>1 DEF PoolInv
  <2> QED BY <2>1, <2>2, <2>3, <2>4 DEF PoolInv
<1>6. ASSUME NEW c \in Conns, Accept(c) PROVE PoolInv'
  <2>1. /\ program = "server" /\ main = 8 /\ session[c] = "none"
        /\ session' = [session EXCEPT ![c] = "reading"]
        /\ io_of' = [io_of EXCEPT ![c] = pending]
        /\ pending' = next_io_service_ % pool_size
        /\ next_io_service_' = next_io_service_ + 1
        /\ UNCHANGED <<pool_size, program, main>>
    BY <1>6, MainAt DEF Accept, GetIoService, process
  <2>2. Accepting /\ Accepting'
    BY <2>1 DEF Accepting
  <2> DEFINE m == next_io_service_ - 1
  <2>3. /\ m \in Nat /\ next_io_service_ = m + 1 /\ pool_size \in Nat \ {0}
        /\ pending = m % pool_size
    BY <2>2 DEF PoolInv, MainInv
  <2> HIDE DEF m
  <2>4. /\ pending \in 0 .. pool_size - 1
        /\ pending' = IF pending + 1 = pool_size THEN 0 ELSE pending + 1
    BY <2>1, <2>3, NextRemainder
  <2>5. io_of[c] = -1 /\ io_of \in [Conns -> -1 .. pool_size - 1]
    BY <2>1 DEF PoolInv
  <2>6. Even'
    BY <2>1, <2>3, <2>4, <2>5, EvenAfter DEF PoolInv
  <2>7. io_of' \in [Conns -> -1 .. pool_size - 1]
    BY <2>1, <2>3, <2>4, <2>5
  <2>8. pending' \in Nat
    BY <2>3, <2>4
  <2>9. /\ next_io_service_' = m + 2 /\ next_io_service_' \in Nat
        /\ next_io_service_' > 0
    BY <2>1, <2>3
  <2>10. pending' = (next_io_service_' - 1) % pool_size'
    BY <2>1, <2>3, <2>9
  <2>11. \A d \in Conns : session'[d] = "none" => io_of'[d] = -1
    BY <2>1 DEF PoolInv, SessionsInv
  <2> QED BY <2>1, <2>2, <2>3, <2>6, <2>7, <2>8, <2>9, <2>10, <2>11 DEF PoolInv
<1>7. ASSUME NEW c \in Conns, IoThread(c) PROVE PoolInv'
  <2>1. UNCHANGED <<accepting, pool_size, program>>
    BY <1>7 DEF IoThread, AssertFails, RaceCrashes, Found, NotRegistered, steady,
       process
  <2>2. /\ session[c] = "reading"
        /\ session' = session \/ session' = [session EXCEPT ![c] = "closed"]
    BY <1>7 DEF IoThread, AssertFails, RaceCrashes, Found, NotRegistered, Received
  <2>3. \A d \in Conns : session'[d] = "none" => session[d] = "none"
    BY <2>2 DEF SessionsInv
  <2>4. Accepting /\ Accepting'
    BY <2>2, AcceptingStep DEF SessionsInv
  <2>5. Even'
    BY <2>1 DEF PoolInv, Even, On, accepting
  <2> QED BY <2>1, <2>3, <2>4, <2>5 DEF PoolInv, accepting
<1>8. CASE LogicThread
  <2>1. UNCHANGED <<accepting, pool_size, program, session, main>>
    BY <1>8 DEF LogicThread, SetIoService, BeginInsert, EndInsert, InitTimer,
       RunTask, steady, process
  <2> QED BY <2>1, PoolKept DEF Accepting
<1>9. CASE UNCHANGED vars
  BY <1>9, PoolKept DEF vars, process, sessions, Accepting
<1> QED BY <1>1, <1>2, <1>3, <1>4, <1>5, <1>6, <1>7, <1>8, <1>9
        DEF Next, MainThread

-----------------------------------------------------------------------------
(* The theorems *)

LEMMA InitBoot == Init => BootInv
<1> SUFFICES ASSUME Init PROVE BootInv
  OBVIOUS
<1>1. MainInv
  BY DEF Init, MainInv
<1>2. UsersInv
  BY DEF Init, UsersInv
<1>3. LogicInv
  <2>1. logicq = <<>> /\ <<>> \in Seq(Tasks) /\ init = "posted" /\ main = 1
    BY DEF Init
  <2>2. DOMAIN logicq = {}
    BY <2>1
  <2> QED BY <2>1, <2>2 DEF LogicInv
<1>4. HandlersInv
  BY DEF Init, HandlersInv
<1>5. SessionsInv
  BY DEF Init, SessionsInv
<1>6. PoolInv
  <2>1. /\ pool_size = 0 /\ main = 1 /\ next_io_service_ = 0 /\ pending = 0
        /\ \A c \in Conns : io_of[c] = -1
    BY DEF Init
  <2>2. io_of \in [Conns -> -1 .. pool_size - 1]
    BY DEF Init
  <2>3. Even
    BY <2>1 DEF Even
  <2> QED BY <2>1, <2>2, <2>3 DEF PoolInv, Accepting
<1>7. HarmInv
  BY DEF Init, HarmInv, OnlyEarly
<1> QED BY <1>1, <1>2, <1>3, <1>4, <1>5, <1>6, <1>7 DEF BootInv

LEMMA NextBoot == BootInv /\ [Next]_vars => BootInv'
  BY MainStep, UsersStep, LogicStep, HandlersStep, SessionsStep, PoolStep,
     HarmStep DEF BootInv

LEMMA SpecBoot == Spec => []BootInv
  BY InitBoot, NextBoot, PTL DEF Spec

\* Every variable of the start has its type: TypeOK.
THEOREM TypeCorrect == Spec => []TypeOK
<1>1. BootInv => TypeOK
  <2> SUFFICES ASSUME BootInv PROVE TypeOK
    OBVIOUS
  <2>1. program \in DOMAIN Steps /\ main \in 0 .. Len(Steps[program])
    BY StepsLength DEF BootInv, MainInv
  <2>2. /\ daemon \in BOOLEAN /\ threads \subseteq {"log", "io", "logic"}
        /\ log \in {"none", "open", "closed"} /\ pool_size \in PoolSizes \cup {0}
    BY DEF BootInv, MainInv
  <2>3. /\ next_io_service_ \in Nat /\ io_of \in [Conns -> -1 .. pool_size - 1]
        /\ pending = 0 \/ pending \in 0 .. pool_size - 1
    <3>1. CASE Accepting
      <4> DEFINE m == next_io_service_ - 1
      <4>1. m \in Nat /\ pool_size \in Nat \ {0} /\ pending = m % pool_size
        BY <3>1 DEF BootInv, MainInv, PoolInv
      <4> HIDE DEF m
      <4>2. pending \in 0 .. pool_size - 1
        BY <4>1, DivMod
      <4> QED BY <4>2 DEF BootInv, PoolInv
    <3>2. CASE ~Accepting
      BY <3>2 DEF BootInv, PoolInv
    <3> QED BY <3>1, <3>2
  <2>4. /\ session \in [Conns -> {"none", "reading", "closed"}]
        /\ received \in [Conns -> 0 .. MaxMsgs]
    BY DEF BootInv, SessionsInv
  <2>5. /\ logicq \in Seq([name : HandlerNames \cup {"Init", "AddSession", "CleanUp"},
                           of : Conns \cup {Nothing}])
        /\ init \in {"posted", "LoginReq", "Ping", "timer", "done"}
    BY DEF BootInv, LogicInv, Tasks
  <2>6. /\ io_service_ \in BOOLEAN /\ handlers_ \subseteq HandlerNames
        /\ inserting \in HandlerNames \cup {Nothing}
    BY DEF BootInv, HandlersInv
  <2>7. /\ {uid, uid_to} \subseteq 0 .. IntMax
        /\ made \in [0 .. IntMax -> 0 .. 2]
    BY DEF BootInv, UsersInv
  <2>8. /\ crash \in {"no", "assert", "race", "terminate", "divide"}
        /\ early \in BOOLEAN
    BY DEF BootInv, HarmInv
  <2> QED BY <2>1, <2>2, <2>3, <2>4, <2>5, <2>6, <2>7, <2>8 DEF TypeOK
<1> QED BY <1>1, SpecBoot, PTL

\* No thread logs before the log is open, daemon or not, and when main comes to
\* Run all threads are there; the client has io threads because it has made a
\* user, for which an empty pool would have been the end: Whole.
THEOREM WholeCorrect == Spec => []Whole
<1>1. BootInv => Whole
  <2> SUFFICES ASSUME BootInv PROVE Whole
    OBVIOUS
  <2>1. threads # {} => log = "open" /\ "log" \in threads
    BY DEF BootInv, MainInv
  <2>2. ASSUME At("run") PROVE {"log", "io"} \subseteq threads
    <3>1. main = IF program = "server" THEN 8 ELSE 6
      BY <2>2, MainAt DEF BootInv
    <3>2. pool_size > 0
      <4>1. CASE program = "server"
        BY <3>1, <4>1 DEF BootInv, PoolInv, Accepting
      <4>2. CASE program = "client"
        BY <3>1, <4>2 DEF BootInv, UsersInv
      <4> QED BY <4>1, <4>2 DEF BootInv, MainInv
    <3> QED BY <3>1, <3>2 DEF BootInv, MainInv
  <2>3. ASSUME program = "server", At("run") PROVE "logic" \in threads
    BY <2>3, MainAt DEF BootInv, MainInv
  <2> QED BY <2>1, <2>2, <2>3 DEF Whole
<1> QED BY <1>1, SpecBoot, PTL

\* One User for every uid and none twice: EachUser.
THEOREM EachUserCorrect == Spec => []EachUser
<1>1. BootInv => EachUser
  <2> SUFFICES ASSUME BootInv, program = "client", uid_to < IntMax
               PROVE  /\ \A u \in 0 .. IntMax : made[u] <= 1
                      /\ At("run") => \A u \in 0 .. uid_to : made[u] = 1
    BY DEF EachUser
  <2>1. \A u \in 0 .. IntMax : made[u] = IF u < uid THEN 1 ELSE 0
    BY DEF BootInv, UsersInv
  <2>2. \A u \in 0 .. IntMax : made[u] <= 1
    BY <2>1
  <2>3. ASSUME At("run"), NEW u \in 0 .. uid_to PROVE made[u] = 1
    <3>1. main = 6
      BY <2>3, MainAt DEF BootInv
    <3>2. uid > uid_to /\ uid_to \in 0 .. IntMax /\ uid \in 0 .. IntMax
      BY <3>1 DEF BootInv, UsersInv
    <3>3. u \in 0 .. IntMax /\ u < uid
      BY <3>2
    <3> QED BY <2>1, <3>3
  <2> QED BY <2>2, <2>3
<1> QED BY <1>1, SpecBoot, PTL

\* The logic thread runs nothing of a session before the initialisation:
\* InitFirst.
THEOREM InitFirstCorrect == Spec => []InitFirst
<1>1. BootInv => InitFirst
  <2> SUFFICES ASSUME BootInv, NEW i \in DOMAIN logicq
               PROVE  IF logicq[i].name = "Init" THEN i = 1
                      ELSE \/ init = "done"
                           \/ \E j \in 1 .. i - 1 : logicq[j].name = "Init"
    BY DEF InitFirst
  <2>1. \A k \in DOMAIN logicq :
          (logicq[k].name = "Init") <=> (init # "done" /\ k = 1)
    BY DEF BootInv, LogicInv
  <2>2. CASE logicq[i].name = "Init"
    BY <2>1, <2>2
  <2>3. CASE logicq[i].name # "Init" /\ init # "done"
    <3>1. i \in Nat \ {0} /\ i # 1 /\ 1 \in DOMAIN logicq
      BY <2>1, <2>3 DEF BootInv, LogicInv
    <3>2. logicq[1].name = "Init" /\ 1 \in 1 .. i - 1
      BY <2>1, <2>3, <3>1
    <3> QED BY <2>3, <3>2
  <2> QED BY <2>2, <2>3
<1> QED BY <1>1, SpecBoot, PTL

\* Only a message that came during the initialisation does harm: OnlyEarly.
THEOREM OnlyEarlyCorrect == Spec => []OnlyEarly
<1>1. BootInv => OnlyEarly
  BY DEF BootInv, HarmInv
<1> QED BY <1>1, SpecBoot, PTL

\* The io threads have the same number of sessions but for one: Spread.
THEOREM SpreadCorrect == Spec => []Spread
<1>1. BootInv => Spread
  <2> SUFFICES ASSUME BootInv, NEW i \in 0 .. pool_size - 1,
                      NEW j \in 0 .. pool_size - 1
               PROVE  Cardinality(On(i)) <= Cardinality(On(j)) + 1
    BY DEF Spread, On
  <2>1. PICK n \in Nat : \A k \in 0 .. pool_size - 1 :
          /\ IsFiniteSet(On(k))
          /\ Cardinality(On(k)) = n + (IF k < pending THEN 1 ELSE 0)
    BY DEF BootInv, PoolInv, Even
  <2> QED BY <2>1
<1> QED BY <1>1, SpecBoot, PTL
=============================================================================
