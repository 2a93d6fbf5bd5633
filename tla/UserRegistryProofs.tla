------------------------- MODULE UserRegistryProofs -------------------------
(***************************************************************************)
(* Theorems about UserRegistry, for every number of sessions and uids and  *)
(* every width of the session ids.                                         *)
(***************************************************************************)
EXTENDS UserRegistry, FiniteSetTheorems, TLAPS

USE RegistryAssumption DEF Ids, FindUser, AddUser, DelUser, DelSession, GetSession

\* NextId stays in range and skips the reserved id 0.
LEMMA NextIdType ==
  ASSUME NEW id \in Ids
  PROVE  NextId(id) \in Ids \ {0}
  BY DEF NextId

\* A counter below the modulus is not changed by it.
LEMMA ModSmall ==
  ASSUME NEW n \in Nat, NEW x \in Nat, x < n
  PROVE  x % n = x
  OBVIOUS

-----------------------------------------------------------------------------
(* Type correctness *)

LEMMA InitType == Init => TypeOK
  BY DEF Init, TypeOK

\* Every operation of the logic thread keeps the types.
LEMMA NextType == TypeOK /\ [Next]_registry => TypeOK'
<1> SUFFICES ASSUME TypeOK, [Next]_registry PROVE TypeOK'
  OBVIOUS
<1> USE DEF TypeOK
<1>1. ASSUME NEW s \in Sessions, AddSession(s) PROVE TypeOK'
  <2>1. NextId(last_id) \in Ids
    BY NextIdType
  <2> QED BY <1>1, <2>1 DEF AddSession
<1>2. ASSUME NEW s \in Sessions, Login(s) PROVE TypeOK'
  <2> PICK type \in LoginTypes, uid \in Uids :
        Refuse(s, type, uid) \/ Grant(s, type, uid)
    BY <1>2 DEF Login
  <2>1. CASE Refuse(s, type, uid)
    BY <2>1 DEF Refuse, registry
  <2>2. CASE Grant(s, type, uid)
    BY <2>2 DEF Grant
  <2> QED BY <2>1, <2>2
<1>3. ASSUME NEW s \in Sessions, CleanUp(s) PROVE TypeOK'
  BY <1>3 DEF CleanUp
<1>4. CASE UNCHANGED registry
  BY <1>4 DEF registry
<1> QED BY <1>1, <1>2, <1>3, <1>4 DEF Next

\* TypeOK is an invariant: every variable keeps its C++ type.
THEOREM TypeCorrect == Spec => []TypeOK
<1>1. Init => TypeOK
  BY InitType
<1>2. TypeOK /\ [Next]_registry => TypeOK'
  BY NextType
<1> QED BY <1>1, <1>2, PTL DEF Spec

-----------------------------------------------------------------------------
(* Exclusion of double logins.  Exclusive is inductive: a clean-up takes a  *)
(* uid away either from the one session that holds it, which is cleaned up  *)
(* by that, or from a session that does not, and then the uid has strayed.  *)

ExclusiveInv == TypeOK /\ Exclusive

LEMMA NextExclusive == ExclusiveInv /\ [Next]_registry => ExclusiveInv'
<1> SUFFICES ASSUME ExclusiveInv, [Next]_registry PROVE ExclusiveInv'
  OBVIOUS
<1> USE DEF ExclusiveInv
<1>t. TypeOK'
  BY NextType
<1>1. ASSUME NEW s \in Sessions, AddSession(s) PROVE ExclusiveInv'
  BY <1>1, <1>t DEF AddSession, Exclusive, Holds
<1>2. ASSUME NEW s \in Sessions, Login(s) PROVE ExclusiveInv'
  <2> PICK type \in LoginTypes, uid \in Uids :
        Refuse(s, type, uid) \/ Grant(s, type, uid)
    BY <1>2 DEF Login
  <2>1. CASE Refuse(s, type, uid)
    BY <2>1, <1>t DEF Refuse, registry, Exclusive, Holds
  <2>2. CASE Grant(s, type, uid)
    <3>1. ASSUME NormalClients, NEW t \in Sessions, NEW u \in Sessions,
                 NEW v \in Uids \ strayed', Holds(t, v)'
          PROVE  v \in users' /\ (Holds(u, v)' => t = u)
      <4>1. type = "Normal" /\ uid \notin users /\ users' = users \cup {uid}
        BY <3>1, <2>2 DEF Grant, Taken, NormalClients
      <4>2. v \in Uids \ strayed
        BY <3>1, <2>2 DEF Grant
      <4>3. ASSUME NEW w \in Sessions, w # s, Holds(w, v)'
            PROVE  Holds(w, v) /\ v \in users /\ v # uid
        <5>1. Holds(w, v)
          BY <4>3, <2>2 DEF Grant, TypeOK, Holds
        <5> QED BY <5>1, <4>1, <4>2, <3>1 DEF Exclusive
      <4>4. Holds(s, v)' => v = uid
        BY <2>2 DEF Grant, TypeOK, Holds
      <4> QED BY <3>1, <4>1, <4>2, <4>3, <4>4 DEF Exclusive
    <3> QED BY <3>1, <1>t DEF Exclusive, NormalClients
  <2> QED BY <2>1, <2>2
<1>3. ASSUME NEW s \in Sessions, CleanUp(s) PROVE ExclusiveInv'
  <2>1. ASSUME NormalClients, NEW t \in Sessions, NEW u \in Sessions,
               NEW v \in Uids \ strayed', Holds(t, v)'
        PROVE  v \in users' /\ (Holds(u, v)' => t = u)
    <3>1. /\ v \in Uids \ strayed
          /\ Holds(t, v) /\ t # s
          /\ Holds(u, v)' => Holds(u, v)
      BY <2>1, <1>3 DEF CleanUp, Holds
    <3>2. v \in users /\ (Holds(u, v)' => t = u)
      BY <2>1, <3>1 DEF Exclusive
    <3>3. CASE s \in cleaned \/ ~authed[s]
      BY <3>1, <3>2, <3>3, <2>1, <1>3 DEF CleanUp
    <3>4. CASE s \notin cleaned /\ authed[s]
      <4>1. v # user_id[s]
        <5> SUFFICES ASSUME v = user_id[s] PROVE FALSE
          OBVIOUS
        <5>1. Holds(s, v)
          BY <3>4 DEF Holds
        <5> QED BY <5>1, <3>1, <2>1 DEF Exclusive
      <4> QED BY <4>1, <3>2, <1>3 DEF CleanUp
    <3> QED BY <3>3, <3>4
  <2> QED BY <2>1, <1>t DEF Exclusive, NormalClients
<1>4. CASE UNCHANGED registry
  BY <1>4, <1>t DEF registry, Exclusive, Holds
<1> QED BY <1>1, <1>2, <1>3, <1>4 DEF Next

\* Nothing but a repeated clean-up puts two sessions under one uid, for any
\* number of sessions, logins and clean-ups.
THEOREM ExclusiveLogin == Spec => []Exclusive
<1>1. Init => ExclusiveInv
  BY InitType DEF Init, ExclusiveInv, Exclusive, Holds
<1>2. ExclusiveInv /\ [Next]_registry => ExclusiveInv'
  BY NextExclusive
<1>3. ExclusiveInv => Exclusive
  BY DEF ExclusiveInv
<1> QED BY <1>1, <1>2, <1>3, PTL DEF Spec

-----------------------------------------------------------------------------
(* The session table.  An id that was handed out belongs to its session for *)
(* ever, because AddSession runs once per session.                          *)

LEMMA NextTable == TypeOK /\ TableSound /\ [Next]_registry => TableSound'
<1> SUFFICES ASSUME TypeOK, TableSound, [Next]_registry PROVE TableSound'
  OBVIOUS
<1> USE DEF TypeOK, TableSound
<1>1. ASSUME NEW s \in Sessions, ~Added(s), AddSession(s) PROVE TableSound'
  <2>1. NextId(last_id) \in Ids \ {0}
    BY NextIdType
  <2>2. \A i \in Ids : user_sessions[i] # s
    BY <1>1 DEF Added
  <2> QED BY <1>1, <2>1, <2>2 DEF AddSession
<1>2. ASSUME NEW s \in Sessions, Login(s) PROVE TableSound'
  <2>1. UNCHANGED <<user_sessions, session_id>>
    BY <1>2 DEF Login, Refuse, Grant, registry
  <2> QED BY <2>1
<1>3. ASSUME NEW s \in Sessions, CleanUp(s) PROVE TableSound'
  BY <1>3 DEF CleanUp
<1>4. CASE UNCHANGED registry
  BY <1>4 DEF registry
<1> QED BY <1>1, <1>2, <1>3, <1>4 DEF Next

\* An entry of user_sessions_ is always the session that carries its id, and
\* none is under the reserved id 0, also after the ids have wrapped around.
THEOREM TableCorrect == Spec => []TableSound
<1>1. Init => TypeOK /\ TableSound
  BY InitType DEF Init, TableSound
<1>2. TypeOK /\ TableSound /\ [Next]_registry => (TypeOK /\ TableSound)'
  BY NextType, NextTable
<1> QED BY <1>1, <1>2, PTL DEF Spec

-----------------------------------------------------------------------------
(* GetSession.  While the ids last, last_id counts the added sessions, so   *)
(* that the next id is new and its key in user_sessions_ is free.           *)

Numbered ==
  /\ last_id <= Cardinality(AddedSessions)
  /\ \A s \in Sessions : session_id[s] <= last_id
  /\ \A s, t \in AddedSessions : session_id[s] = session_id[t] => s = t
  /\ \A i \in Ids : user_sessions[i] # NoSession => i <= last_id
  /\ \A s \in AddedSessions \ cleaned : GetSession(session_id[s]) = s

RegisteredInv ==
  /\ TypeOK
  /\ IsFiniteSet(AddedSessions)
  /\ NoWrap => Numbered

\* With fewer sessions than ids, AddSession counts on and never wraps.
LEMMA AddNumbered ==
  ASSUME RegisteredInv,
         NEW s \in Sessions, ~Added(s), AddSession(s)
  PROVE  /\ IsFiniteSet(AddedSessions')
         /\ NoWrap' => Numbered'
<1> USE DEF TypeOK, RegisteredInv
<1>1. s \notin AddedSessions /\ Cardinality(AddedSessions) \in Nat
  BY FS_CardinalityType DEF AddedSessions
<1>2. /\ IsFiniteSet(AddedSessions \cup {s})
      /\ Cardinality(AddedSessions \cup {s}) = Cardinality(AddedSessions) + 1
  BY <1>1, FS_AddElement
<1>3. AddedSessions' = AddedSessions \cup {s}
  <2>1. NextId(last_id) \in Ids \ {0}
    BY NextIdType
  <2> QED BY <2>1 DEF AddSession, AddedSessions, Added
<1> SUFFICES ASSUME NoWrap' PROVE Numbered'
  BY <1>2, <1>3
<1>a. NoWrap /\ Numbered /\ Cardinality(AddedSessions) + 1 < IdMod
  BY <1>1, <1>2, <1>3 DEF NoWrap
<1>4. /\ last_id' = last_id + 1 /\ NextId(last_id) = last_id + 1
      /\ last_id + 1 \in Ids
  <2>1. last_id + 1 < IdMod
    BY <1>1, <1>a DEF Numbered
  <2>2. last_id + 1 \in Nat /\ IdMod \in Nat
    OBVIOUS
  <2>3. (last_id + 1) % IdMod = last_id + 1
    BY <2>1, <2>2, ModSmall, Zenon
  <2> QED BY <2>1, <2>3 DEF AddSession, NextId
<1>5. session_id' = [session_id EXCEPT ![s] = last_id + 1]
  BY <1>4 DEF AddSession
<1>7. user_sessions' = [user_sessions EXCEPT ![last_id + 1] = s]
  <2>1. user_sessions[last_id + 1] = NoSession
    BY <1>4, <1>a DEF Numbered
  <2> QED BY <2>1, <1>4 DEF AddSession
<1>8. last_id' <= Cardinality(AddedSessions')
  BY <1>1, <1>2, <1>3, <1>4, <1>a DEF Numbered
<1>9. \A t \in Sessions : session_id'[t] <= last_id'
  BY <1>4, <1>5, <1>a DEF Numbered
<1>10. \A t, u \in AddedSessions' : session_id'[t] = session_id'[u] => t = u
  <2>1. \A t \in AddedSessions : session_id'[t] = session_id[t]
                                 /\ session_id[t] # last_id + 1
    BY <1>1, <1>5, <1>a DEF Numbered, AddedSessions
  <2> QED BY <1>3, <1>5, <2>1, <1>a DEF Numbered
<1>11. \A i \in Ids : user_sessions'[i] # NoSession => i <= last_id'
  BY <1>4, <1>7, <1>a DEF Numbered
<1>12. ASSUME NEW t \in AddedSessions', t \notin cleaned'
       PROVE  user_sessions'[session_id'[t]] = t
  <2>1. CASE t = s
    BY <2>1, <1>4, <1>5, <1>7
  <2>2. CASE t # s
    <3>1. /\ session_id'[t] = session_id[t]
          /\ t \in AddedSessions \ cleaned /\ t \in Sessions
      BY <2>2, <1>12, <1>3, <1>5 DEF AddSession, AddedSessions
    <3>2. session_id[t] <= last_id /\ user_sessions[session_id[t]] = t
      BY <3>1, <1>a DEF Numbered
    <3> QED BY <3>1, <3>2, <1>7
  <2> QED BY <2>1, <2>2
<1> QED BY <1>8, <1>9, <1>10, <1>11, <1>12 DEF Numbered

LEMMA NextRegistered == RegisteredInv /\ [Next]_registry => RegisteredInv'
<1> SUFFICES ASSUME RegisteredInv, [Next]_registry PROVE RegisteredInv'
  OBVIOUS
<1> USE DEF TypeOK, RegisteredInv
<1>t. TypeOK'
  BY NextType
<1>1. ASSUME NEW s \in Sessions, ~Added(s), AddSession(s)
      PROVE  RegisteredInv'
  BY <1>1, <1>t, AddNumbered
<1>2. ASSUME UNCHANGED <<last_id, session_id, user_sessions, cleaned>>
      PROVE  RegisteredInv'
  <2>1. AddedSessions' = AddedSessions
    BY <1>2 DEF AddedSessions, Added
  <2> QED BY <2>1, <1>2, <1>t DEF Numbered, NoWrap
<1>3. ASSUME NEW s \in Sessions, Login(s) PROVE RegisteredInv'
  BY <1>2, <1>3 DEF Login, Refuse, Grant, registry
<1>4. ASSUME NEW s \in Sessions, Added(s), CleanUp(s) PROVE RegisteredInv'
  <2>1. AddedSessions' = AddedSessions /\ s \in AddedSessions
    BY <1>4 DEF AddedSessions, Added, CleanUp
  <2>2. ASSUME Numbered, NEW t \in AddedSessions', t \notin cleaned'
        PROVE  user_sessions'[session_id'[t]] = t
    <3>1. t \in AddedSessions \ cleaned /\ t # s /\ t \in Sessions
      BY <2>1, <2>2, <1>4 DEF CleanUp, AddedSessions
    <3>2. session_id[t] # session_id[s]
      BY <2>1, <2>2, <3>1 DEF Numbered
    <3>3. user_sessions[session_id[t]] = t
      BY <2>2, <3>1 DEF Numbered
    <3> QED BY <3>2, <3>3, <1>4 DEF CleanUp
  <2>3. Numbered => Numbered'
    BY <2>1, <2>2, <1>4 DEF Numbered, CleanUp
  <2> QED BY <2>1, <2>3, <1>t DEF NoWrap
<1>5. CASE UNCHANGED registry
  BY <1>2, <1>5 DEF registry
<1> QED BY <1>1, <1>3, <1>4, <1>5 DEF Next

\* As long as fewer sessions than ids were added, GetSession finds each of
\* them that was not cleaned up.
THEOREM GetSessionCorrect == Spec => []Registered
<1>1. Init => RegisteredInv
  <2> SUFFICES ASSUME Init PROVE RegisteredInv
    OBVIOUS
  <2>1. AddedSessions = {}
    BY DEF Init, AddedSessions, Added
  <2>2. IsFiniteSet(AddedSessions) /\ Cardinality(AddedSessions) = 0
    BY <2>1, FS_EmptySet
  <2>3. Numbered
    BY <2>1, <2>2 DEF Init, Numbered
  <2> QED BY <2>2, <2>3, InitType DEF RegisteredInv
<1>2. RegisteredInv /\ [Next]_registry => RegisteredInv'
  BY NextRegistered
<1>3. RegisteredInv => Registered
  BY DEF RegisteredInv, Registered, Numbered, AddedSessions
<1> QED BY <1>1, <1>2, <1>3, PTL DEF Spec
=============================================================================
