-------------------------------- MODULE Boot --------------------------------
(***************************************************************************)
(* The start of the two programs, server/main.cpp and client/main.cpp: the *)
(* main thread turns into a daemon, reads the configuration, opens the log *)
(* and starts the other threads.  The client then creates its users one by *)
(* one; the server posts the initialisation to the logic thread and goes   *)
(* on to accept, so that sessions receive messages while the handlers are  *)
(* still being registered.                                                 *)
(***************************************************************************)
EXTENDS Integers, Sequences, FiniteSets

CONSTANTS
  Conns,      \* bound: the connections that come
  PoolSizes,  \* bound: the numbers of io threads, config thread
  MaxMsgs,    \* bound: the messages a session receives
  UidTos,     \* bound: the last uid of the client, config uid_to
  IntMax,     \* the largest int
  Nothing     \* no handler is being inserted

ASSUME BootAssumption ==
  /\ PoolSizes \subseteq Nat /\ MaxMsgs \in Nat
  /\ IntMax \in Nat /\ UidTos \subseteq 0 .. IntMax

HandlerNames == {"LoginReq", "Ping"}

VARIABLES
  program,           \* "server" or "client"
  daemon,            \* daemon_status, the option -d
  main,              \* the step of main that comes next, 0 after its return
  threads,           \* what runs besides the main thread
  log,               \* "none" before Log::Init, "open", or "closed" under it
  pool_size,         \* io_services_.size() of IoServicePool
  next_io_service_,  \* of IoServicePool
  pending,           \* the io_service the next session will get
  io_of,             \* the io_service a session has got
  session,           \* "none", "reading" or "closed"
  received,          \* messages a session has received
  logicq,            \* the queue of the logic thread
  init,              \* where its initialisation is
  io_service_,       \* UserProcessor::io_service_ has been set
  handlers_,         \* the keys of UserProcessor::handlers_
  inserting,         \* the key being inserted
  uid, uid_to,       \* of the loop in client/main.cpp; uid_from is 0
  made,              \* how many Users have been made for a uid
  crash,             \* how the program died
  early              \* history: Dispatch was called before all was registered

boot == <<init, io_service_, handlers_, inserting>>
process == <<program, daemon, threads, log, pool_size>>
accepting == <<next_io_service_, pending, io_of>>
clients == <<uid, uid_to, made>>
sessions == <<session, received, logicq, boot, early>>
steady == <<process, main, accepting, clients>>  \* but for main's own steps
vars == <<process, main, accepting, sessions, clients, crash>>

Init ==
  /\ program \in {"server", "client"} /\ daemon \in BOOLEAN /\ main = 1
  /\ threads = {} /\ log = "none" /\ pool_size = 0
  /\ next_io_service_ = 0 /\ pending = 0 /\ io_of = [c \in Conns |-> -1]
  /\ session = [c \in Conns |-> "none"] /\ received = [c \in Conns |-> 0]
  /\ logicq = <<>>
  /\ init = "posted" /\ io_service_ = FALSE
  /\ handlers_ = {} /\ inserting = Nothing
  /\ uid = 0 /\ uid_to = 0
  /\ made = [u \in 0 .. IntMax |-> 0]
  /\ crash = "no" /\ early = FALSE

Task(name, c) == [name |-> name, of |-> c]

-----------------------------------------------------------------------------
(* The main thread.  Steps is the order of the calls in the two mains.     *)

\* Mutant of Steps: the log is opened first.
StepsLogFirst ==
  [server |-> <<"log", "daemon", "config", "pool", "logic", "post", "accept",
                "run", "join">>,
   client |-> <<"log", "daemon", "config", "pool", "users", "run", "join">>]

Steps ==
  [server |-> <<"daemon", "config", "log", "pool", "logic", "post", "accept",
                "run", "join">>,
   client |-> <<"daemon", "config", "log", "pool", "users", "run", "join">>]

At(step) == main # 0 /\ Steps[program][main] = step

GoOn == main' = main + 1

Return == main' = 0

\* fork leaves the child with the calling thread alone; the first 64 files are
\* closed.  When a fork fails main goes on all the same, in the foreground.
CreateDaemon ==
  /\ At("daemon") /\ GoOn
  /\ \E forked \in BOOLEAN :
       IF daemon /\ forked
       THEN threads' = {} /\ log' = IF log = "open" THEN "closed" ELSE log
       ELSE UNCHANGED <<threads, log>>
  /\ UNCHANGED <<program, daemon, pool_size, accepting, sessions, clients, crash>>

LoadConfig ==
  /\ At("config")
  /\ \/ /\ GoOn
        /\ pool_size' \in PoolSizes
        /\ IF program = "client" THEN uid_to' \in UidTos ELSE UNCHANGED uid_to
     \/ Return /\ UNCHANGED <<pool_size, uid_to>>
  /\ UNCHANGED <<program, daemon, threads, log, accepting, sessions, uid, made,
                 crash>>

\* The file cannot be opened, or no worker be started: an exception.
InitLog ==
  /\ At("log")
  /\ \/ GoOn /\ threads' = threads \cup {"log"} /\ log' = "open"
     \/ Return /\ UNCHANGED <<threads, log>>
  /\ UNCHANGED <<program, daemon, pool_size, accepting, sessions, clients, crash>>

StartThreads ==
  /\ At("pool") /\ GoOn
  /\ next_io_service_' = 0
  /\ threads' = IF pool_size = 0 THEN threads ELSE threads \cup {"io"}
  /\ UNCHANGED <<program, daemon, log, pool_size, pending, io_of, sessions,
                 clients, crash>>

StartLogic ==
  /\ At("logic") /\ GoOn
  /\ threads' = threads \cup {"logic"}
  /\ UNCHANGED <<program, daemon, log, pool_size, accepting, sessions, clients,
                 crash>>

\* Mutant of PostInit: the initialisation is not posted at all.
PostInitNot ==
  /\ At("post") /\ GoOn
  /\ UNCHANGED <<process, accepting, sessions, clients, crash>>

PostInit ==
  /\ At("post") /\ GoOn
  /\ logicq' = Append(logicq, Task("Init", Nothing))
  /\ UNCHANGED <<process, accepting, session, received, boot, early, clients,
                 crash>>

\* An exception of what main calls once the log is open: LOG_CRITICAL, and main
\* returns.  The destructor of a thread that has not been joined then calls
\* std::terminate; of the io threads, some may have been started.
StartFails ==
  /\ \/ \E step \in {"pool", "logic", "accept"} : At(step)
     \/ At("users") /\ uid <= uid_to /\ pool_size > 0
  /\ Return
  /\ \/ threads \cap {"io", "logic"} = {} /\ crash' = "no"
     \/ threads \cap {"io", "logic"} # {} /\ crash' = "terminate"
     \/ At("pool") /\ pool_size > 1 /\ crash' = "terminate"
  /\ UNCHANGED <<process, accepting, sessions, clients>>

\* Mutant of GetIoService: the counter does not move.
GetIoServiceStays ==
  /\ pending' = next_io_service_ % pool_size
  /\ next_io_service_' = next_io_service_

\* Mutant of GetIoService: the counter itself is the index.
GetIoServiceWhole ==
  /\ pending' = next_io_service_
  /\ next_io_service_' = next_io_service_ + 1

GetIoService ==
  /\ pending' = next_io_service_ % pool_size
  /\ next_io_service_' = next_io_service_ + 1

\* GetIoService of an empty pool divides by zero.
PoolEmpty ==
  /\ pool_size = 0
  /\ \/ At("accept")
     \/ At("users") /\ uid <= uid_to
  /\ crash' = "divide"
  /\ UNCHANGED <<process, main, accepting, sessions, clients>>

\* Accept listens and calls DoAccept, which takes the io_service of the session
\* it waits for.
Listen ==
  /\ At("accept") /\ pool_size > 0 /\ GoOn
  /\ GetIoService
  /\ UNCHANGED <<process, io_of, sessions, clients, crash>>

\* The handler of async_accept: OnAccept, DoReadHeader, DoAccept.
Accept(c) ==
  /\ program = "server" /\ At("run") /\ session[c] = "none"
  /\ session' = [session EXCEPT ![c] = "reading"]
  /\ io_of' = [io_of EXCEPT ![c] = pending]
  /\ logicq' = Append(logicq, Task("AddSession", c))
  /\ GetIoService
  /\ UNCHANGED <<process, main, received, boot, early, clients, crash>>

\* OnAcceptError only logs and DoAccept is not called again, so that the
\* MasterIo runs out of work; in the client it never has any.  Run returns, and
\* main joins threads that do not end.
RunReturns ==
  /\ At("run") /\ GoOn
  /\ UNCHANGED <<process, accepting, sessions, clients, crash>>

\* A User and its GameClient take an io_service each.  ++uid overflows after
\* the largest int and the loop goes on with smaller ones.
MakeUser ==
  /\ At("users") /\ uid <= uid_to /\ pool_size > 0 /\ made[uid] < 2
  /\ next_io_service_' = next_io_service_ + 2
  /\ made' = [made EXCEPT ![uid] = @ + 1]
  /\ uid' = (uid + 1) % (IntMax + 1)
  /\ UNCHANGED <<process, main, pending, io_of, sessions, uid_to, crash>>

\* Mutant of UsersMade: the last uid is left out.
UsersMadeEarly ==
  /\ At("users") /\ uid >= uid_to /\ GoOn
  /\ UNCHANGED <<process, accepting, sessions, clients, crash>>

UsersMade ==
  /\ At("users") /\ uid > uid_to /\ GoOn
  /\ UNCHANGED <<process, accepting, sessions, clients, crash>>

MainThread ==
  \/ CreateDaemon \/ LoadConfig \/ InitLog \/ StartThreads \/ StartLogic
  \/ PostInit \/ StartFails \/ PoolEmpty \/ Listen \/ MakeUser \/ UsersMade

-----------------------------------------------------------------------------
(* The logic thread *)

NextIs(name) ==
  "logic" \in threads /\ logicq # <<>> /\ Head(logicq).name = name

SetIoService ==
  /\ NextIs("Init") /\ init = "posted" /\ init' = "LoginReq"
  /\ io_service_' = TRUE
  /\ UNCHANGED <<steady, session, received, logicq, handlers_, inserting,
                 crash, early>>

\* AddHandler inserts into the map without a lock.
BeginInsert ==
  /\ init \in HandlerNames /\ inserting = Nothing
  /\ inserting' = init
  /\ UNCHANGED <<steady, session, received, logicq, init, io_service_,
                 handlers_, crash, early>>

\* Mutant of EndInsert: Ping is not registered.
EndInsertOne ==
  /\ inserting # Nothing /\ inserting' = Nothing
  /\ handlers_' = handlers_ \cup {"LoginReq"}
  /\ init' = IF inserting = "LoginReq" THEN "Ping" ELSE "timer"
  /\ UNCHANGED <<steady, session, received, logicq, io_service_, crash, early>>

EndInsert ==
  /\ inserting # Nothing /\ inserting' = Nothing
  /\ handlers_' = handlers_ \cup {inserting}
  /\ init' = IF inserting = "LoginReq" THEN "Ping" ELSE "timer"
  /\ UNCHANGED <<steady, session, received, logicq, io_service_, crash, early>>

\* TimerManager::Init ends the closure.
InitTimer ==
  /\ init = "timer" /\ init' = "done"
  /\ logicq' = Tail(logicq)
  /\ UNCHANGED <<steady, session, received, io_service_, handlers_, inserting,
                 crash, early>>

\* The closures of the sessions: AddSession, the handlers, the clean-up.
RunTask ==
  /\ \E name \in HandlerNames \cup {"AddSession", "CleanUp"} : NextIs(name)
  /\ logicq' = Tail(logicq)
  /\ UNCHANGED <<steady, session, received, boot, crash, early>>

LogicThread ==
  SetIoService \/ BeginInsert \/ EndInsert \/ InitTimer \/ RunTask

-----------------------------------------------------------------------------
(* The io threads: a session has received m and calls Dispatch *)

Received(c) ==
  /\ session[c] = "reading" /\ received[c] < MaxMsgs
  /\ received' = [received EXCEPT ![c] = @ + 1]
  /\ early' = (early \/ init # "done")

\* assert(this->io_service_) fails.
AssertFails(c) ==
  /\ Received(c) /\ ~io_service_
  /\ crash' = "assert"
  /\ UNCHANGED <<steady, session, logicq, boot>>

\* find and insert at the same time: the tree is read while it changes.
RaceCrashes(c) ==
  /\ Received(c) /\ io_service_ /\ inserting # Nothing
  /\ crash' = "race"
  /\ UNCHANGED <<steady, session, logicq, boot>>

Found(c, m) ==
  /\ Received(c) /\ io_service_ /\ m \in handlers_ \cup {inserting}
  /\ logicq' = Append(logicq, Task(m, c))
  /\ UNCHANGED <<steady, session, boot, crash>>

\* kErrorMsgNotRegister: the session closes, its clean-up is posted.
NotRegistered(c, m) ==
  /\ Received(c) /\ io_service_
  /\ m \notin handlers_ \/ inserting # Nothing
  /\ session' = [session EXCEPT ![c] = "closed"]
  /\ logicq' = Append(logicq, Task("CleanUp", c))
  /\ UNCHANGED <<steady, boot, crash>>

IoThread(c) ==
  \/ AssertFails(c) \/ RaceCrashes(c)
  \/ \E m \in HandlerNames : Found(c, m) \/ NotRegistered(c, m)

Next ==
  /\ main # 0 /\ crash = "no"
  /\ \/ MainThread \/ RunReturns \/ LogicThread
     \/ \E c \in Conns : Accept(c) \/ IoThread(c)

Spec == Init /\ [][Next]_vars

\* The main thread and the logic thread run; peers and errors may stay away.
Running == main # 0 /\ crash = "no"

FairSpec ==
  /\ Spec
  /\ WF_vars(Running /\ MainThread) /\ WF_vars(Running /\ LogicThread)

-----------------------------------------------------------------------------
(* Properties *)

\* Every variable has the type its C++ declaration gives it.
TypeOK ==
  /\ program \in DOMAIN Steps /\ daemon \in BOOLEAN
  /\ main \in 0 .. Len(Steps[program])
  /\ threads \subseteq {"log", "io", "logic"}
  /\ log \in {"none", "open", "closed"}
  /\ pool_size \in PoolSizes \cup {0}
  /\ next_io_service_ \in Nat
  /\ pending = 0 \/ pending \in 0 .. pool_size - 1
  /\ io_of \in [Conns -> -1 .. pool_size - 1]
  /\ session \in [Conns -> {"none", "reading", "closed"}]
  /\ received \in [Conns -> 0 .. MaxMsgs]
  /\ logicq \in Seq([name : HandlerNames \cup {"Init", "AddSession", "CleanUp"},
                     of : Conns \cup {Nothing}])
  /\ init \in {"posted", "LoginReq", "Ping", "timer", "done"}
  /\ io_service_ \in BOOLEAN /\ handlers_ \subseteq HandlerNames
  /\ inserting \in HandlerNames \cup {Nothing}
  /\ {uid, uid_to} \subseteq 0 .. IntMax /\ made \in [0 .. IntMax -> 0 .. 2]
  /\ crash \in {"no", "assert", "race", "terminate", "divide"}
  /\ early \in BOOLEAN

\* fork takes only the calling thread along and CreateDaemon closes the files, so
\* that the order of the calls matters: no thread that may log runs while the
\* log is not open, and when main comes to Run, all threads the program needs
\* are there, daemon or not.
Whole ==
  /\ threads \cap {"io", "logic"} # {} => log = "open" /\ "log" \in threads
  /\ At("run") => {"log", "io"} \subseteq threads
  /\ program = "server" /\ At("run") => "logic" \in threads

\* The client makes one User for every uid of the configuration and none twice,
\* unless the last one is the largest int, when the loop does not end.
EachUser ==
  program = "client" /\ uid_to < IntMax =>
    /\ \A u \in 0 .. IntMax : made[u] <= 1
    /\ At("run") => \A u \in 0 .. uid_to : made[u] = 1

\* The logic thread runs nothing of a session before the initialisation, although
\* the main thread does not wait for it: it was posted first.
InitFirst ==
  \A i \in DOMAIN logicq :
    IF logicq[i].name = "Init" THEN i = 1
    ELSE init = "done" \/ \E j \in 1 .. i - 1 : logicq[j].name = "Init"

\* Only a message that arrives during the initialisation can kill the server or
\* be refused as not registered: afterwards every handler is found.
OnlyEarly ==
  (crash \in {"assert", "race"} \/ \E c \in Conns : session[c] = "closed")
    => early

\* The sessions are spread evenly over the io threads.
Spread ==
  LET On(i) == Cardinality({c \in Conns : io_of[c] = i}) IN
  \A i, j \in 0 .. pool_size - 1 : On(i) <= On(j) + 1

\* A server that accepts ends up with its handlers registered, however many
\* connections and messages come meanwhile, unless one of them kills it.
Initialised ==
  program = "server" /\ At("run") ~> init = "done" \/ crash # "no"

\* Dispatch is called when the processor has its io_service, as it asserts.
ServiceSet == crash # "assert"
=============================================================================
