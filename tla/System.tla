------------------------------- MODULE System -------------------------------
(***************************************************************************)
(* The two programs together: a user of the client (GameClient), the       *)
(* server (GameServer), and the TCP connection between them.  The handlers *)
(* are those of the two modules; what each of these leaves to chance, the  *)
(* messages its peer sends and when they arrive, is here what the other    *)
(* one has written.  At first somebody else is logged in under the uid of  *)
(* the user, on a session whose peer is lost: the user may come before the *)
(* server has noticed, and is refused, or after.                           *)
(***************************************************************************)
EXTENDS Naturals, Sequences

CONSTANTS
  Own, Other,  \* the session of the user, the session that is lost
  Uid,         \* the uid of both
  NoUid, NoSession, IdMod,  \* of UserRegistry
  NoMsg,       \* of Channel
  MaxFrames,   \* bound: message headers each end reads
  MaxStuck,    \* bound: of GameClient
  MaxExpiries, \* bound: how often a timer expires, of either end
  Window       \* bound: messages on the way, beyond which no write ends

\* The lost session has read its login: MaxFrames is not 0.
ASSUME SystemAssumption ==
  /\ Own # Other /\ NoSession \notin {Own, Other}
  /\ NoMsg \notin {"LoginReq", "Ping"}
  /\ IdMod \in Nat /\ IdMod > 1
  /\ MaxFrames \in Nat \ {0}
  /\ MaxStuck \in Nat /\ MaxExpiries \in Nat /\ Window \in Nat

VARIABLES
  phase, pipe, gameclient, recent, pinging, stopping, userq, cl_closes, first,
  cl_frames, answered,  \* of GameClient
  last_id, session_id, user_sessions, users, user_id, authed, cleaned, strayed,
  accepted, conn, alive, logicq, sv_closes, sv_frames, logins,  \* of GameServer
  c2s, s2c,   \* the messages on the way to the server and to the client
  expiries    \* how often a timer has expired

registry == <<last_id, session_id, user_sessions, users, user_id, authed,
              cleaned, strayed>>
client == <<phase, pipe, gameclient, recent, pinging, stopping, userq,
            cl_closes, first, cl_frames, answered>>
server == <<registry, accepted, conn, alive, logicq, sv_closes, sv_frames,
            logins>>
vars == <<client, server, c2s, s2c, expiries>>

Sessions == {Own, Other}

\* GameClient and GameServer, with the theorems about them.
Cl == INSTANCE GameClientProofs
        WITH Results <- {"Success", "Logined"}, Others <- {},
             closes <- cl_closes, frames <- cl_frames

Sv == INSTANCE GameServerProofs
        WITH Uids <- {Uid}, LoginTypes <- {"Normal"}, Others <- {"Ping"},
             Lossy <- Sessions, Silent <- Sessions, MaxLogins <- 1,
             closes <- sv_closes, frames <- sv_frames

\* The error of the read in progress is in the queue of the lost session.
Lost ==
  Sv!C!Post(Sv!C!TimerLoop(Sv!C!Connected),
            Sv!C!Handler("header", "error", NoMsg))

Split(own, other) == [s \in Sessions |-> IF s = Own THEN own ELSE other]

Init ==
  /\ Cl!Init
  /\ last_id = 1 /\ session_id = Split(0, 1)
  /\ user_sessions = [i \in 0 .. IdMod - 1 |-> IF i = 1 THEN Other ELSE NoSession]
  /\ users = {Uid} /\ user_id = Split(NoUid, Uid) /\ authed = Split(FALSE, TRUE)
  /\ cleaned = {} /\ strayed = {}
  /\ accepted = {Other} /\ conn = Split(Sv!C!Connected, Lost)
  /\ alive = Split(FALSE, TRUE) /\ logicq = <<>>
  /\ sv_closes = Split(0, 0) /\ sv_frames = Split(0, 1) /\ logins = Split(0, 1)
  /\ c2s = <<>> /\ s2c = <<>> /\ expiries = 0

-----------------------------------------------------------------------------
(* The client's end of the connection *)

\* Mutant of Request: the type that does not ask the UserManager.
RequestQueued(m) ==
  IF m.name = "LoginReq"
  THEN [name |-> "LoginReq", type |-> "Queued", uid |-> Uid]
  ELSE m

\* The fields User::Init gives a LoginReq; a Ping has none.
Request(m) ==
  IF m.name = "LoginReq"
  THEN [name |-> "LoginReq", type |-> "Normal", uid |-> Uid]
  ELSE m

\* The handshake is the kernel's: the client may find itself connected before
\* the server has accepted, or after.
Connect ==
  /\ \/ Cl!Connected
     \/ Cl!ConnectFails /\ Own \notin accepted
  /\ UNCHANGED <<server, c2s, s2c, expiries>>

ClientReadsHeader ==
  /\ pipe.reading = "header" /\ s2c # <<>> /\ cl_frames < MaxFrames
  /\ pipe' = Cl!C!ReadCompletes(pipe, "ok", NoMsg)
  /\ cl_frames' = cl_frames + 1
  /\ UNCHANGED <<phase, gameclient, recent, pinging, stopping, userq, cl_closes,
                 first, answered, server, c2s, s2c, expiries>>

ClientReadsBody ==
  /\ pipe.reading = "body" /\ s2c # <<>>
  /\ pipe' = Cl!C!ReadCompletes(pipe, "ok", Head(s2c))
  /\ s2c' = Tail(s2c)
  /\ answered' = (answered \/ Head(s2c).name = "LoginRsp")
  /\ UNCHANGED <<phase, gameclient, recent, pinging, stopping, userq, cl_closes,
                 first, cl_frames, server, c2s, expiries>>

\* The connection breaks, or its end is seen.
ClientReadFails == Cl!ReadFails /\ UNCHANGED <<server, c2s, s2c, expiries>>

ClientWrites ==
  /\ pipe.writing > 0 /\ Len(c2s) < Window
  /\ pipe' = Cl!C!WriteCompletes(pipe, "ok")
  /\ c2s' = Append(c2s, Request(Head(pipe.write_bufs)))
  /\ UNCHANGED <<phase, gameclient, recent, pinging, stopping, userq, cl_closes,
                 first, cl_frames, answered, server, s2c, expiries>>

ClientWriteFails ==
  /\ pipe.writing > 0 /\ ~conn[Own].open
  /\ pipe' = Cl!C!WriteCompletes(pipe, "error")
  /\ UNCHANGED <<phase, gameclient, recent, pinging, stopping, userq, cl_closes,
                 first, cl_frames, answered, server, c2s, s2c, expiries>>

ClientTimer ==
  /\ expiries < MaxExpiries /\ expiries' = expiries + 1
  /\ Cl!TimerExpires
  /\ UNCHANGED <<server, c2s, s2c>>

ClientIo   == Cl!IoThread /\ UNCHANGED <<server, c2s, s2c, expiries>>
ClientUser == Cl!UserThread /\ UNCHANGED <<server, c2s, s2c, expiries>>

Client ==
  \/ Connect \/ ClientReadsHeader \/ ClientReadsBody \/ ClientReadFails
  \/ ClientWrites \/ ClientWriteFails \/ ClientTimer \/ ClientIo \/ ClientUser

-----------------------------------------------------------------------------
(* The server's end *)

Accept ==
  /\ phase # "failed" /\ Sv!Accept(Own)
  /\ UNCHANGED <<client, c2s, s2c, expiries>>

ServerReadsHeader ==
  /\ conn[Own].reading = "header" /\ c2s # <<>> /\ sv_frames[Own] < MaxFrames
  /\ conn' = [conn EXCEPT ![Own] = Sv!C!ReadCompletes(@, "ok", NoMsg)]
  /\ sv_frames' = [sv_frames EXCEPT ![Own] = @ + 1]
  /\ UNCHANGED <<client, registry, accepted, alive, logicq, sv_closes, logins,
                 c2s, s2c, expiries>>

ServerReadsBody ==
  /\ conn[Own].reading = "body" /\ c2s # <<>>
  /\ conn' = [conn EXCEPT ![Own] = Sv!C!ReadCompletes(@, "ok", Head(c2s))]
  /\ c2s' = Tail(c2s)
  /\ logins' = IF Head(c2s).name = "LoginReq"
               THEN [logins EXCEPT ![Own] = @ + 1] ELSE logins
  /\ UNCHANGED <<client, registry, accepted, alive, logicq, sv_closes,
                 sv_frames, s2c, expiries>>

ServerReadFails == Sv!ReadFails(Own) /\ UNCHANGED <<client, c2s, s2c, expiries>>

ServerWrites ==
  /\ conn[Own].writing > 0 /\ Len(s2c) < Window
  /\ conn' = [conn EXCEPT ![Own] = Sv!C!WriteCompletes(@, "ok")]
  /\ s2c' = Append(s2c, Head(conn[Own].write_bufs))
  /\ UNCHANGED <<client, registry, accepted, alive, logicq, sv_closes,
                 sv_frames, logins, c2s, expiries>>

ServerWriteFails ==
  /\ conn[Own].writing > 0 /\ ~pipe.open
  /\ conn' = [conn EXCEPT ![Own] = Sv!C!WriteCompletes(@, "error")]
  /\ UNCHANGED <<client, registry, accepted, alive, logicq, sv_closes,
                 sv_frames, logins, c2s, s2c, expiries>>

ServerTimer ==
  /\ expiries < MaxExpiries /\ expiries' = expiries + 1
  /\ Sv!TimerExpires(Own)
  /\ UNCHANGED <<client, c2s, s2c>>

ServerIo == Sv!IoThread(Own) /\ UNCHANGED <<client, c2s, s2c, expiries>>
Logic    == Sv!LogicThread /\ UNCHANGED <<client, c2s, s2c, expiries>>

\* The lost session is closed; its remaining handlers touch nothing else.
OtherCloses == Sv!OnError(Other) /\ UNCHANGED <<client, c2s, s2c, expiries>>

Server ==
  \/ Accept \/ ServerReadsHeader \/ ServerReadsBody \/ ServerReadFails
  \/ ServerWrites \/ ServerWriteFails \/ ServerTimer \/ ServerIo \/ Logic
  \/ OtherCloses

-----------------------------------------------------------------------------
Next == Client \/ Server

Spec == Init /\ [][Next]_vars

\* The threads run, a connection the kernel has made is reported, and each end
\* sees in the end that the other one has closed.
FairSpec ==
  /\ Spec
  /\ WF_vars(ClientIo) /\ WF_vars(ClientUser) /\ WF_vars(ServerIo)
  /\ WF_vars(Logic)
  /\ WF_vars(Own \in accepted /\ Connect)
  /\ WF_vars(~conn[Own].open /\ ClientReadFails)
  /\ WF_vars(~pipe.open /\ ServerReadFails)

-----------------------------------------------------------------------------
(* Properties *)

\* For the client the server and the network are no more than GameClient assumes
\* of them: the login is answered after it was sent, once, and nothing but its
\* answer comes.  What is checked of GameClient thus holds with this server.
ClientSpec == Cl!Spec

\* For the server this client is one of the peers of GameServer: it logs in at
\* most once on a connection, with type Normal and its uid, as LoggedOut and
\* Exclusive take for granted, and sends nothing but pings besides.
ServerSteps == [][Sv!Next]_server

Told(result) == \E i \in DOMAIN userq : userq[i] = result

\* The answer the user's thread is about to handle is still true at the server:
\* the session is authenticated under the uid of this user, and found by the
\* logins of others unless it is being closed, or it is not authenticated.
AnswerTrue ==
  /\ Told("Success") =>
       /\ authed[Own] /\ user_id[Own] = Uid
       /\ Own \notin cleaned /\ Uid \notin strayed => Uid \in users
  /\ Told("Logined") => ~authed[Own]

\* Both sockets are closed, and the session is out of the manager.
Over ==
  /\ ~pipe.open /\ ~conn[Own].open
  /\ \A i \in DOMAIN user_sessions : user_sessions[i] # Own

\* Neither end outlives the other, whoever begins: the client because it was
\* refused, the server because its timer expired, or either because the
\* connection broke, in the middle of the login too.
EndTogether ==
  Own \in accepted /\ (~pipe.open \/ ~conn[Own].open \/ Told("Logined")) ~> Over
=============================================================================
