---------------------------- MODULE UserRegistry ----------------------------
(***************************************************************************)
(* What the logic thread keeps: the UserSessionManager (session id ->      *)
(* session), the UserManager (set of logged-in uids) and the identity each *)
(* UserSession carries.  Every operation below is one closure executed by  *)
(* the single LogicIo thread, so it is atomic.                             *)
(*                                                                         *)
(* Taken alone the module is the sequential promise of the server: once a  *)
(* session has been added, its logins and its clean-ups may come in any    *)
(* order and any number.  GameServer shows that the threads and queues of  *)
(* the program implement it.                                               *)
(***************************************************************************)
EXTENDS Naturals, FiniteSets

CONSTANTS
  Sessions,     \* the UserSession objects, one per accepted connection
  Uids,         \* the values LoginReq.uid may carry: with NoUid, when a
                \* LoginReq may come without one, or not be parsed
  NoUid,        \* the empty string: UserSession::user_id_ before a login, and
                \* LoginReq.uid when it is absent
  NoSession,    \* no entry under this key of user_sessions_
  LoginTypes,   \* the LoginReq.type values clients send
  IdMod         \* 2^32: session ids are uint32_t

ASSUME RegistryAssumption ==
  /\ IdMod \in Nat /\ IdMod > 1
  /\ NoSession \notin Sessions
  /\ LoginTypes \subseteq {"Normal", "Queued"}

VARIABLES
  last_id,        \* the static session_id of UserSessionManager::AddSession
  session_id,     \* UserSession::session_id_, 0 before AddSession
  user_sessions,  \* UserSessionManager::user_sessions_
  users,          \* keys of UserManager::users_
  user_id,        \* UserSession::user_id_
  authed,         \* UserSession::authed_
  cleaned,        \* history: the sessions whose OnClose closure has run
  strayed         \* history: uids erased by a closure of a session that did
                  \* not hold them

registry == <<last_id, session_id, user_sessions, users, user_id, authed,
              cleaned, strayed>>

Ids == 0 .. IdMod - 1

Init ==
  /\ last_id = 0
  /\ session_id = [s \in Sessions |-> 0]
  /\ user_sessions = [i \in Ids |-> NoSession]
  /\ users = {}
  /\ user_id = [s \in Sessions |-> NoUid]
  /\ authed = [s \in Sessions |-> FALSE]
  /\ cleaned = {}
  /\ strayed = {}

-----------------------------------------------------------------------------
(* UserSessionManager *)

\* Mutants of NextId: the counter is not static; it is wider than the ids; 0 is
\* not skipped.
NextIdLocal(id) == 1
NextIdWide(id) == id + 1
NextIdZero(id) == (id + 1) % IdMod

\* ++session_id, and once more when the 32-bit counter wrapped to 0.
NextId(id) == IF (id + 1) % IdMod = 0 THEN 1 ELSE (id + 1) % IdMod

\* std::map::insert leaves an entry that is already there alone.
AddSession(s) ==
  LET id == NextId(last_id) IN
  /\ last_id' = id
  /\ session_id' = [session_id EXCEPT ![s] = id]
  /\ user_sessions' = [user_sessions EXCEPT
                         ![id] = IF @ = NoSession THEN s ELSE @]
  /\ UNCHANGED <<users, user_id, authed, cleaned, strayed>>

\* Mutant of DelSession: the latest session goes.
DelSessionLast(id) ==
  user_sessions' = [user_sessions EXCEPT ![last_id] = NoSession]

\* std::map::erase.
DelSession(id) == user_sessions' = [user_sessions EXCEPT ![id] = NoSession]

GetSession(id) == user_sessions[id]

-----------------------------------------------------------------------------
(* UserManager *)

\* Mutant of FindUser: no user is ever found.
FindUserNever(uid) == FALSE

FindUser(uid) == uid \in users

AddUser(uid) == users' = users \cup {uid}

\* Mutant of DelUser: nothing is erased.
DelUserNot(uid) == UNCHANGED users

DelUser(uid) == users' = users \ {uid}

-----------------------------------------------------------------------------
(* UserSessionProcessor::LoginReqHandle *)

\* Only a Normal login consults the UserManager.
Taken(type, uid) == type = "Normal" /\ FindUser(uid)

\* Mutant of Refuse: set_user_id comes before the check.
RefuseNamed(s, type, uid) ==
  /\ Taken(type, uid)
  /\ user_id' = [user_id EXCEPT ![s] = uid]
  /\ UNCHANGED <<last_id, session_id, user_sessions, users, authed, cleaned,
                 strayed>>

Refuse(s, type, uid) ==
  /\ Taken(type, uid)
  /\ UNCHANGED registry

\* Mutant of Grant: AddUser takes the uid the session had before.
GrantStale(s, type, uid) ==
  /\ ~Taken(type, uid)
  /\ IF type = "Normal" THEN AddUser(user_id[s]) ELSE UNCHANGED users
  /\ user_id' = [user_id EXCEPT ![s] = uid]
  /\ authed' = [authed EXCEPT ![s] = TRUE]
  /\ UNCHANGED <<last_id, session_id, user_sessions, cleaned, strayed>>

Grant(s, type, uid) ==
  /\ ~Taken(type, uid)
  /\ IF type = "Normal" THEN AddUser(uid) ELSE UNCHANGED users
  /\ user_id' = [user_id EXCEPT ![s] = uid]
  /\ authed' = [authed EXCEPT ![s] = TRUE]
  /\ UNCHANGED <<last_id, session_id, user_sessions, cleaned, strayed>>

-----------------------------------------------------------------------------
(* The closure UserSession::OnClose posts: DelUser, then DelSession.  Both *)
(* keys are read when the closure runs, not when it was posted, and DelUser *)
(* is called whether or not the session is authenticated.                  *)

CleanUp(s) ==
  /\ DelUser(user_id[s])
  /\ DelSession(session_id[s])
  /\ cleaned' = cleaned \cup {s}
  /\ strayed' = IF s \in cleaned \/ ~authed[s] THEN strayed \cup {user_id[s]}
                ELSE strayed
  /\ UNCHANGED <<last_id, session_id, user_id, authed>>

-----------------------------------------------------------------------------
Added(s) == session_id[s] # 0

Login(s) ==
  \E type \in LoginTypes, uid \in Uids :
    Refuse(s, type, uid) \/ Grant(s, type, uid)

Next ==
  \E s \in Sessions :
    \/ ~Added(s) /\ AddSession(s)
    \/ Added(s) /\ Login(s)
    \/ Added(s) /\ CleanUp(s)

Spec == Init /\ [][Next]_registry

-----------------------------------------------------------------------------
(* Properties *)

\* Every variable has the type its C++ declaration gives it.
TypeOK ==
  /\ last_id \in Ids
  /\ session_id \in [Sessions -> Ids]
  /\ user_sessions \in [Ids -> Sessions \cup {NoSession}]
  /\ users \subseteq Uids
  /\ user_id \in [Sessions -> Uids \cup {NoUid}]
  /\ authed \in [Sessions -> BOOLEAN]
  /\ cleaned \subseteq Sessions
  /\ strayed \subseteq Uids \cup {NoUid}

\* s was told kLoginResSuccess for uid and its OnClose closure has not run.
Holds(s, uid) == authed[s] /\ user_id[s] = uid /\ s \notin cleaned

\* Clients log in the way client/user.cpp does: with type Normal, which is also
\* what a LoginReq that cannot be parsed is taken for.
NormalClients == LoginTypes \subseteq {"Normal"}

\* A uid is logged in on one session at a time, and found by FindUser while it
\* is, unless the OnClose closure of a session that did not hold it erased it:
\* however sessions reconnect, log in again or close, nothing else can put two
\* sessions under one uid.  The empty uid of a LoginReq without one is a uid
\* like the others, except that every session that closes before its login
\* erases it.
Exclusive ==
  NormalClients =>
    \A s, t \in Sessions, uid \in Uids \ strayed :
      Holds(s, uid) => uid \in users /\ (Holds(t, uid) => s = t)

AddedSessions == {s \in Sessions : Added(s)}

\* The 32-bit session ids have not run out yet.
NoWrap == Cardinality(AddedSessions) < IdMod

\* GetSession finds every session that was added and not yet cleaned up, under
\* the id the session itself carries: no other session's AddSession or
\* (repeated) clean-up takes its entry away, as long as the ids last.
Registered ==
  NoWrap =>
    \A s \in Sessions :
      Added(s) /\ s \notin cleaned => GetSession(session_id[s]) = s

\* The id 0 that means "not added" is never handed out, across the wrap of the
\* counter too, and an entry of the manager is always under its session's id.
TableSound ==
  /\ user_sessions[0] = NoSession
  /\ \A i \in Ids :
       user_sessions[i] # NoSession => session_id[user_sessions[i]] = i
=============================================================================
