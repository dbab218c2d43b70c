---------------------------- MODULE SessionsProofs ----------------------------
(***************************************************************************)
(* What holds of refresh sessions for every number of requests, users,     *)
(* addresses and every maxSessions.                                        *)
(*                                                                         *)
(* The bound of a user's sessions is not inductive: a request that has     *)
(* counted holds a place that the table does not show.  Counted together   *)
(* with those places (Waiting) it is.  That a token has one successor      *)
(* rests on what is never written down in one place: wherever a token is   *)
(* remembered - by its own row, by a request that read it, by the session  *)
(* it was exchanged for - it is with the same user and address (Claims).   *)
(***************************************************************************)
EXTENDS Sessions, FiniteSetTheorems, TLAPS

Opening == {"count", "wipe", "insert"}
Located == {"findUser", "findByIp", "verify", "refreshFind", "refreshDelete",
            "logoutFind", "logoutDelete"} \cup Opening

\* Requests past the count of user u's sessions: their inserts come next.
Waiting(u) == {c \in Clients : pc[c] = "insert" /\ userOf[c] = u}

\* A request has what the query it awaits needs.
Served(c) ==
  /\ pc[c] \in {"findByEmail", "findByLogin", "addUser"}
       => asked[c].login \in Names /\ asked[c].email \in Names
  /\ pc[c] \in {"findByIp", "verify"} \cup Opening => userOf[c] \in UserIds
  /\ pc[c] \in Located => asked[c].ip \in Ips
  /\ pc[c] \in {"refreshDelete", "logoutDelete"}
       => row[c] \in Session /\ row[c].id = asked[c].token
  /\ pc[c] \in {"findUser", "findByIp", "verify"} => asked[c].token = 0
  /\ asked[c].token <= lastId
  /\ row[c].id <= lastId

TypeInv ==
  /\ SessTypeOK
  /\ IsFiniteSet(users) /\ IsFiniteSet(sessions)
  /\ \A c \in Clients : Served(c)

LEMMA InitType == Init => TypeInv
BY FS_EmptySet DEF Init, TypeInv, SessTypeOK, Served, Pcs, Request, NoRequest, NoSession,
       Opening, Located

LEMMA ReplyType ==
  ASSUME TypeInv, NEW c \in Clients, Reply(c),
         sessions' \subseteq sessions, UNCHANGED <<users, lastId, expired>>
  PROVE  TypeInv'
<1>1. IsFiniteSet(sessions')
  BY FS_Subset DEF TypeInv
<1> QED
  BY <1>1 DEF TypeInv, SessTypeOK, Served, Pcs, Request, NoRequest, NoSession,
              Opening, Located, Reply, Goto

LEMMA AskType == ASSUME TypeInv, NEW c \in Clients, Ask(c) PROVE TypeInv'
<1> USE DEF TypeInv, SessTypeOK, Served, Pcs, Request, NoRequest, NoSession,
            Opening, Located, Asks, At, Goto, tables
<1>1. CASE \E login, email \in Names : AskRegister(c, login, email)
  BY <1>1 DEF AskRegister
<1>2. CASE \E login \in Names, ip \in Ips : AskLogin(c, login, ip)
  BY <1>2 DEF AskLogin
<1>3. CASE \E token \in 1 .. lastId, ip \in Ips : AskRefresh(c, token, ip)
  BY <1>3 DEF AskRefresh
<1>4. CASE \E token \in 1 .. lastId, ip \in Ips : AskLogout(c, token, ip)
  BY <1>4 DEF AskLogout
<1> QED BY <1>1, <1>2, <1>3, <1>4 DEF Ask

\* The step of a request that settles by it is ReplyType's; the rest are here.
LEMMA StepType == ASSUME TypeInv, NEW c \in Clients, Step(c) PROVE TypeInv'
<1> USE DEF TypeInv, SessTypeOK, Served, Pcs, Opening, Located, At, Go, Goto, tables
<1>1. CASE FindByEmail(c)
  BY <1>1, ReplyType DEF FindByEmail
<1>2. CASE FindByLogin(c)
  BY <1>2, ReplyType DEF FindByLogin
<1>3. CASE AddUser(c)
  <2> DEFINE u == [id |-> Cardinality(users) + 1,
                   login |-> asked[c].login, email |-> asked[c].email]
  <2>1. u \in User
    BY <1>3, FS_CardinalityType DEF AddUser, User, UserIds
  <2>2. users' \subseteq User /\ IsFiniteSet(users')
    BY <1>3, <2>1, FS_AddElement DEF AddUser
  <2> QED BY <1>3, <2>2 DEF AddUser, Reply, Request, NoRequest, NoSession
<1>4. CASE FindUser(c)
  BY <1>4, ReplyType DEF FindUser, User, UserIds
<1>5. CASE FindByIp(c)
  BY <1>5, ReplyType DEF FindByIp
<1>6. CASE Verify(c)
  BY <1>6, ReplyType DEF Verify
<1>7. ASSUME NEW p \in {"refresh", "logout"}, NEW q, NEW n,
             q = IF p = "refresh" THEN "refreshFind" ELSE "logoutFind",
             n = IF p = "refresh" THEN "refreshDelete" ELSE "logoutDelete",
             FindToken(c, q, n)
      PROVE  TypeInv'
  BY <1>7, ReplyType DEF FindToken
<1>8. CASE RefreshDelete(c)
  <2>1. sessions' \subseteq sessions /\ IsFiniteSet(sessions')
    BY <1>8, FS_Subset DEF RefreshDelete, DeleteToken
  <2>2. CASE Reply(c)
    BY <1>8, <2>1, <2>2, ReplyType DEF RefreshDelete
  <2>3. CASE ~Reply(c)
    BY <1>8, <2>1, <2>3 DEF RefreshDelete, Session, NoSession, UserIds
  <2> QED BY <2>2, <2>3
<1>9. CASE LogoutDelete(c)
  BY <1>9, ReplyType DEF LogoutDelete, DeleteToken
<1>10. CASE CountSessions(c)
  BY <1>10 DEF CountSessions
<1>11. CASE Wipe(c)
  BY <1>11, FS_Subset DEF Wipe
<1>12. CASE InsertSession(c)
  <2>1. CASE UNCHANGED <<sessions, lastId>>
    BY <1>12, <2>1, ReplyType DEF InsertSession
  <2> DEFINE new == [id |-> lastId + 1, userId |-> userOf[c], ip |-> asked[c].ip,
                     heirOf |-> asked[c].token]
  <2>2. CASE sessions' = sessions \cup {new} /\ lastId' = lastId + 1
    <3>1. new \in Session
      BY <1>12 DEF InsertSession, Session, Request
    <3>2. IsFiniteSet(sessions')
      BY <2>2, FS_AddElement
    <3>3. sessions' \subseteq Session /\ \A s \in sessions' : s.id <= lastId'
      BY <2>2, <3>1 DEF Session
    <3>5. expired' \subseteq 1 .. lastId' /\ users' \subseteq User
      BY <1>12, <2>2 DEF InsertSession
    <3>6. /\ pc' \in [Clients -> Pcs] /\ asked' \in [Clients -> Request]
          /\ row' \in [Clients -> Session \cup {NoSession}] /\ userOf' \in [Clients -> Nat]
      BY <1>12 DEF InsertSession, Reply, Request, NoRequest
    <3>4. ASSUME NEW d \in Clients PROVE Served(d)'
      BY <1>12, <2>2 DEF InsertSession, Reply, Request, NoRequest, NoSession, Session
    <3> QED BY <1>12, <2>2, <3>2, <3>3, <3>4, <3>5, <3>6 DEF InsertSession
  <2> QED BY <1>12, <2>1, <2>2 DEF InsertSession
<1> QED BY <1>1, <1>2, <1>3, <1>4, <1>5, <1>6, <1>7, <1>8, <1>9, <1>10, <1>11, <1>12
        DEF Step

LEMMA CrashType == TypeInv /\ Crash => TypeInv'
BY DEF Crash, tables, TypeInv, SessTypeOK, Served, Pcs, Request, NoRequest, NoSession,
       Opening, Located

LEMMA NextType == TypeInv /\ [Next]_vars => TypeInv'
<1> SUFFICES ASSUME TypeInv, [Next]_vars PROVE TypeInv'
  OBVIOUS
<1>1. CASE \E id \in 1 .. lastId : Expire(id)
  BY <1>1 DEF Expire, TypeInv, SessTypeOK, Served
<1>2. CASE UNCHANGED vars
  BY <1>2 DEF vars, TypeInv, SessTypeOK, Served
<1> QED BY <1>1, <1>2, AskType, StepType, CrashType DEF Next

\* Tables and requests keep their types, for any number of each.
THEOREM SessionsTypeCorrect == Spec => []SessTypeOK
<1>1. TypeInv => SessTypeOK
  BY DEF TypeInv
<1> QED BY <1>1, InitType, NextType, PTL DEF Spec

-----------------------------------------------------------------------------
(* The bound of a user's sessions *)

\* Sessions that are there and sessions that are about to be.
Places(u) == Cardinality(SessionsOf(u)) + Cardinality(Waiting(u))
PlacesBound ==
  \A u \in UserIds : Places(u) + 1 <= MaxSessions + Cardinality(Clients)

LEMMA PlacesTypes ==
  ASSUME TypeInv, NEW u
  PROVE  /\ IsFiniteSet(SessionsOf(u)) /\ Cardinality(SessionsOf(u)) \in Nat
         /\ IsFiniteSet(Waiting(u)) /\ Cardinality(Waiting(u)) \in Nat
         /\ Cardinality(Waiting(u)) <= Cardinality(Clients)
         /\ Cardinality(Clients) \in Nat
<1>1. IsFiniteSet(SessionsOf(u))
  BY FS_Subset DEF SessionsOf, TypeInv
<1>2. Waiting(u) \subseteq Clients /\ IsFiniteSet(Clients)
  BY SessionsAssumption DEF Waiting
<1> QED BY <1>1, <1>2, FS_Subset, FS_CardinalityType

\* A user of whom nothing is added keeps the bound.
LEMMA PlacesShrink ==
  ASSUME TypeInv, NEW u \in UserIds,
         Places(u) + 1 <= MaxSessions + Cardinality(Clients),
         SessionsOf(u)' \subseteq SessionsOf(u), Waiting(u)' \subseteq Waiting(u)
  PROVE  (Places(u) + 1 <= MaxSessions + Cardinality(Clients))'
<1>1. /\ Cardinality(SessionsOf(u)') <= Cardinality(SessionsOf(u))
      /\ Cardinality(SessionsOf(u)') \in Nat
  BY PlacesTypes, FS_Subset, FS_CardinalityType
<1>2. /\ Cardinality(Waiting(u)') <= Cardinality(Waiting(u))
      /\ Cardinality(Waiting(u)') \in Nat
  BY PlacesTypes, FS_Subset, FS_CardinalityType
<1> QED BY <1>1, <1>2, PlacesTypes, SessionsAssumption DEF Places

LEMMA InitPlaces == Init => PlacesBound
<1> SUFFICES ASSUME Init, NEW u \in UserIds
             PROVE  Places(u) + 1 <= MaxSessions + Cardinality(Clients)
  BY DEF PlacesBound
<1>1. SessionsOf(u) = {} /\ Waiting(u) = {}
  BY DEF Init, SessionsOf, Waiting
<1> QED BY <1>1, FS_EmptySet, FS_CardinalityType, SessionsAssumption DEF Places

LEMMA NextPlaces == TypeInv /\ PlacesBound /\ [Next]_vars => PlacesBound'
<1> SUFFICES ASSUME TypeInv, PlacesBound, [Next]_vars, TypeInv', NEW u \in UserIds
             PROVE  (Places(u) + 1 <= MaxSessions + Cardinality(Clients))'
  BY NextType DEF PlacesBound
<1>0. Places(u) + 1 <= MaxSessions + Cardinality(Clients)
  BY DEF PlacesBound
<1> DEFINE W == Waiting(u)'
<1>w. Cardinality(W) \in Nat /\ Cardinality(W) <= Cardinality(Clients)
  <2>1. W \subseteq Clients
    BY DEF Waiting
  <2> QED BY <2>1, FS_Subset, FS_CardinalityType, SessionsAssumption
<1> HIDE DEF W
<1>1. CASE SessionsOf(u)' \subseteq SessionsOf(u) /\ Waiting(u)' \subseteq Waiting(u)
  BY <1>0, <1>1, PlacesShrink
<1>2. ASSUME NEW c \in Clients, CountSessions(c), userOf[c] = u, ~AtLimit(u)
      PROVE  (Places(u) + 1 <= MaxSessions + Cardinality(Clients))'
  <2>1. SessionsOf(u)' = SessionsOf(u)
    BY <1>2 DEF CountSessions, tables, SessionsOf
  <2>2. Cardinality(SessionsOf(u)) < MaxSessions
    BY <1>2, PlacesTypes, SessionsAssumption DEF AtLimit
  <2>3. Cardinality(SessionsOf(u)') \in Nat /\ Cardinality(SessionsOf(u)') < MaxSessions
    BY <2>1, <2>2, PlacesTypes
  <2>4. Places(u)' = Cardinality(SessionsOf(u)') + Cardinality(W)
    BY DEF Places, W
  <2> QED BY <2>3, <2>4, <1>w, PlacesTypes, SessionsAssumption
<1>3. ASSUME NEW c \in Clients, Wipe(c), userOf[c] = u
      PROVE  (Places(u) + 1 <= MaxSessions + Cardinality(Clients))'
  <2>1. SessionsOf(u)' = {}
    BY <1>3 DEF Wipe, SessionsOf
  <2>2. Cardinality(SessionsOf(u)') = 0
    BY <2>1, FS_EmptySet
  <2>3. Places(u)' = Cardinality(SessionsOf(u)') + Cardinality(W)
    BY DEF Places, W
  <2> QED BY <2>2, <2>3, <1>w, PlacesTypes, SessionsAssumption
<1>4. ASSUME NEW c \in Clients, InsertSession(c), userOf[c] = u
      PROVE  (Places(u) + 1 <= MaxSessions + Cardinality(Clients))'
  <2>1. c \in Waiting(u) /\ Waiting(u)' = Waiting(u) \ {c}
    BY <1>4 DEF InsertSession, Waiting, At, Reply, Goto, TypeInv, SessTypeOK
  <2>2. CASE sessions' = sessions
    BY <1>0, <2>1, <2>2, PlacesShrink DEF SessionsOf
  <2> DEFINE new == [id |-> lastId + 1, userId |-> u, ip |-> asked[c].ip,
                     heirOf |-> asked[c].token]
  <2>3. CASE sessions' = sessions \cup {new}
    <3>1. SessionsOf(u)' = SessionsOf(u) \cup {new}
      BY <2>3 DEF SessionsOf
    <3>2. Cardinality(SessionsOf(u)') <= Cardinality(SessionsOf(u)) + 1
      <4>1. IsFiniteSet(SessionsOf(u)) /\ Cardinality(SessionsOf(u)) \in Nat
        BY PlacesTypes
      <4>2. \/ Cardinality(SessionsOf(u) \cup {new}) = Cardinality(SessionsOf(u))
            \/ Cardinality(SessionsOf(u) \cup {new}) = Cardinality(SessionsOf(u)) + 1
        BY <4>1, FS_AddElement
      <4> QED BY <3>1, <4>1, <4>2
    <3>3. Cardinality(Waiting(u)') = Cardinality(Waiting(u)) - 1
      BY <2>1, PlacesTypes, FS_RemoveElement
    <3>4. Cardinality(SessionsOf(u)') \in Nat
      BY <3>1, PlacesTypes, FS_AddElement, FS_CardinalityType
    <3> QED BY <1>0, <3>2, <3>3, <3>4, PlacesTypes, SessionsAssumption DEF Places
  <2> QED BY <1>4, <2>2, <2>3 DEF InsertSession
\* What is left adds nothing to u.
<1>5. ASSUME NEW c \in Clients, Ask(c)
      PROVE  SessionsOf(u)' \subseteq SessionsOf(u) /\ Waiting(u)' \subseteq Waiting(u)
  BY <1>5 DEF Ask, AskRegister, AskLogin, AskRefresh, AskLogout, Asks, Goto, tables,
              SessionsOf, Waiting, TypeInv, SessTypeOK
<1>6. ASSUME NEW c \in Clients, Step(c), userOf[c] # u \/ ~(pc[c] \in {"count", "wipe", "insert"})
      PROVE  SessionsOf(u)' \subseteq SessionsOf(u) /\ Waiting(u)' \subseteq Waiting(u)
  BY <1>6 DEF Step, FindByEmail, FindByLogin, AddUser, FindUser, FindByIp, Verify,
              FindToken, RefreshDelete, LogoutDelete, DeleteToken, CountSessions, Wipe,
              InsertSession, At, Go, Goto, Reply, tables, SessionsOf, Waiting, TypeInv,
              SessTypeOK
<1>7. ASSUME NEW c \in Clients, CountSessions(c), AtLimit(userOf[c])
      PROVE  SessionsOf(u)' \subseteq SessionsOf(u) /\ Waiting(u)' \subseteq Waiting(u)
  BY <1>7 DEF CountSessions, At, Go, Goto, tables, SessionsOf, Waiting, TypeInv, SessTypeOK
<1>8. ASSUME NEW c \in Clients, Step(c)
      PROVE  (Places(u) + 1 <= MaxSessions + Cardinality(Clients))'
  <2>1. CASE userOf[c] # u \/ ~(pc[c] \in {"count", "wipe", "insert"})
    BY <1>1, <1>6, <1>8, <2>1
  <2>2. CASE userOf[c] = u /\ pc[c] \in {"count", "wipe", "insert"}
    <3>1. CountSessions(c) \/ Wipe(c) \/ InsertSession(c)
      BY <1>8, <2>2 DEF Step, FindByEmail, FindByLogin, AddUser, FindUser, FindByIp,
                        Verify, FindToken, RefreshDelete, LogoutDelete, At
    <3> QED BY <1>1, <1>2, <1>3, <1>4, <1>7, <2>2, <3>1
  <2> QED BY <2>1, <2>2
<1>9. CASE (\E id \in 1 .. lastId : Expire(id)) \/ UNCHANGED vars \/ Crash
  <2>1. SessionsOf(u)' \subseteq SessionsOf(u) /\ Waiting(u)' \subseteq Waiting(u)
    BY <1>9 DEF Expire, Crash, vars, tables, SessionsOf, Waiting
  <2> QED BY <1>1, <2>1
<1> QED BY <1>1, <1>5, <1>8, <1>9 DEF Next

\* However many requests count before any of them inserts, no user has more
\* sessions than maxSessions and one for each other request.
THEOREM SessionsBounded == Spec => []SessionBound
<1>1. TypeInv /\ PlacesBound => SessionBound
  <2> SUFFICES ASSUME TypeInv, PlacesBound, NEW u \in UserIds
               PROVE  Cardinality(SessionsOf(u)) + 1 <= MaxSessions + Cardinality(Clients)
    BY DEF SessionBound
  <2> QED BY PlacesTypes, SessionsAssumption DEF PlacesBound, Places
<1> QED BY <1>1, InitType, NextType, InitPlaces, NextPlaces, PTL DEF Spec

-----------------------------------------------------------------------------
(* A token has one successor *)

\* Token i is remembered, somewhere, with user u and address a.
Claim(i, u, a) ==
  \/ \E s \in sessions : s.userId = u /\ s.ip = a /\ i \in {s.id, s.heirOf}
  \/ \E c \in Clients : row[c].id = i /\ row[c].userId = u /\ row[c].ip = a
  \/ \E c \in Clients :
       pc[c] \in Opening /\ asked[c].token = i /\ userOf[c] = u /\ asked[c].ip = a

OneHolder ==
  \A i \in Nat \ {0}, u, v \in UserIds, a, b \in Ips :
    Claim(i, u, a) /\ Claim(i, v, b) => u = v /\ a = b

OnePerAddress ==
  \A s, t \in sessions : s.userId = t.userId /\ s.ip = t.ip => s = t

HeirsFollow == \A s \in sessions : s.heirOf <= lastId

HeirInv == OneHolder /\ OnePerAddress /\ HeirsFollow

LEMMA InitHeir == Init => HeirInv
BY DEF Init, HeirInv, OneHolder, OnePerAddress, HeirsFollow, Claim, Opening, NoSession

\* Nothing is claimed of a token that was not handed out.
LEMMA ClaimsAreOld ==
  ASSUME TypeInv, HeirsFollow, NEW i \in Nat, NEW u, NEW a, Claim(i, u, a)
  PROVE  i <= lastId
BY DEF TypeInv, SessTypeOK, Served, HeirsFollow, Claim

\* A step that lets go of rows and claims nothing new.
LEMMA NothingClaimed ==
  ASSUME HeirInv, lastId' = lastId, sessions' \subseteq sessions,
         \A i \in Nat \ {0}, u \in UserIds, a \in Ips : Claim(i, u, a)' => Claim(i, u, a)
  PROVE  HeirInv'
BY DEF HeirInv, OneHolder, OnePerAddress, HeirsFollow

LEMMA NextHeir == TypeInv /\ HeirInv /\ [Next]_vars => HeirInv'
<1> SUFFICES ASSUME TypeInv, HeirInv, [Next]_vars, TypeInv' PROVE HeirInv'
  BY NextType
<1>1. ASSUME NEW c \in Clients, Ask(c) PROVE HeirInv'
  <2>1. \A i \in Nat \ {0}, u \in UserIds, a \in Ips : Claim(i, u, a)' => Claim(i, u, a)
    BY <1>1 DEF Ask, AskRegister, AskLogin, AskRefresh, AskLogout, Asks, Goto, tables,
                Claim, Opening, TypeInv, SessTypeOK
  <2> QED BY <1>1, <2>1, NothingClaimed
          DEF Ask, AskRegister, AskLogin, AskRefresh, AskLogout, Asks, tables
<1>2. ASSUME NEW c \in Clients,
             \/ FindByEmail(c) \/ FindByLogin(c) \/ AddUser(c) \/ FindUser(c)
             \/ FindByIp(c) \/ LogoutDelete(c) \/ CountSessions(c) \/ Wipe(c)
      PROVE  HeirInv'
  <2>1. \A i \in Nat \ {0}, u \in UserIds, a \in Ips : Claim(i, u, a)' => Claim(i, u, a)
    BY <1>2 DEF FindByEmail, FindByLogin, AddUser, FindUser, FindByIp, LogoutDelete,
                DeleteToken, CountSessions, Wipe, At, Go, Goto, Reply, tables,
                Claim, Opening, TypeInv, SessTypeOK, NoSession
  <2> QED BY <1>2, <2>1, NothingClaimed
          DEF FindByEmail, FindByLogin, AddUser, FindUser, FindByIp, LogoutDelete,
              DeleteToken, CountSessions, Wipe, tables
\* A login opens a session for token 0, which is nobody's.
<1>3. ASSUME NEW c \in Clients, Verify(c) PROVE HeirInv'
  <2>1. asked[c].token = 0
    BY <1>3 DEF Verify, At, TypeInv, Served
  <2>2. \A i \in Nat \ {0}, u \in UserIds, a \in Ips : Claim(i, u, a)' => Claim(i, u, a)
    BY <1>3, <2>1 DEF Verify, At, Go, Goto, Reply, tables, Claim, Opening, TypeInv,
                      SessTypeOK, NoSession, NoRequest
  <2> QED BY <1>3, <2>2, NothingClaimed DEF Verify, tables
\* The row that is read is in the table.
<1>4. ASSUME NEW c \in Clients,
             \/ FindToken(c, "refreshFind", "refreshDelete")
             \/ FindToken(c, "logoutFind", "logoutDelete")
      PROVE  HeirInv'
  <2>1. \A i \in Nat \ {0}, u \in UserIds, a \in Ips : Claim(i, u, a)' => Claim(i, u, a)
    BY <1>4 DEF FindToken, At, Goto, Reply, tables, Claim, Opening, TypeInv, SessTypeOK,
                NoSession
  <2> QED BY <1>4, <2>1, NothingClaimed DEF FindToken, tables
\* The request takes over the user of the row, and its address is the row's.
<1>5. ASSUME NEW c \in Clients, RefreshDelete(c) PROVE HeirInv'
  <2>1. asked[c].token = row[c].id
    BY <1>5 DEF RefreshDelete, At, TypeInv, Served
  <2>2. \A i \in Nat \ {0}, u \in UserIds, a \in Ips : Claim(i, u, a)' => Claim(i, u, a)
    <3>1. CASE Reply(c)
      BY <1>5, <3>1 DEF RefreshDelete, DeleteToken, Goto, Reply, Claim, Opening, TypeInv,
                        SessTypeOK, NoSession
    <3>2. CASE MayExchange(c)
      BY <1>5, <2>1, <3>2 DEF RefreshDelete, DeleteToken, MayExchange, Goto, Claim,
                              Opening, TypeInv, SessTypeOK, NoSession
    <3> QED BY <1>5, <3>1, <3>2 DEF RefreshDelete
  <2> QED BY <1>5, <2>2, NothingClaimed DEF RefreshDelete, DeleteToken
<1>6. ASSUME NEW c \in Clients, InsertSession(c) PROVE HeirInv'
  <2> DEFINE new == [id |-> lastId + 1, userId |-> userOf[c], ip |-> asked[c].ip,
                     heirOf |-> asked[c].token]
  <2>1. CASE UNCHANGED <<sessions, lastId>>
    <3>1. \A i \in Nat \ {0}, u \in UserIds, a \in Ips : Claim(i, u, a)' => Claim(i, u, a)
      BY <1>6, <2>1 DEF InsertSession, Goto, Reply, Claim, Opening, TypeInv, SessTypeOK,
                        NoSession
    <3> QED BY <2>1, <3>1, NothingClaimed
  <2>2. ASSUME \A s \in SessionsOf(userOf[c]) : s.ip # asked[c].ip,
               lastId' = lastId + 1, sessions' = sessions \cup {new}
        PROVE  HeirInv'
    <3>1. \A i \in Nat \ {0}, u \in UserIds, a \in Ips :
            Claim(i, u, a)' => \/ Claim(i, u, a)
                               \/ i = lastId + 1 /\ u = userOf[c] /\ a = asked[c].ip
      BY <1>6, <2>2 DEF InsertSession, Goto, Reply, Claim, Opening, TypeInv, SessTypeOK,
                        NoSession, At
    <3>2. \A i \in Nat \ {0}, u \in UserIds, a \in Ips : Claim(i, u, a) => i # lastId + 1
      BY ClaimsAreOld DEF HeirInv, TypeInv, SessTypeOK
    <3>3. OneHolder'
      BY <3>1, <3>2 DEF HeirInv, OneHolder
    <3>4. OnePerAddress'
      BY <2>2 DEF HeirInv, OnePerAddress, SessionsOf
    <3>5. asked[c].token \in Nat /\ asked[c].token <= lastId
      BY DEF TypeInv, SessTypeOK, Served, Request
    <3>6. HeirsFollow'
      BY <2>2, <3>5 DEF HeirInv, HeirsFollow, TypeInv, SessTypeOK, Session
    <3> QED BY <3>3, <3>4, <3>6 DEF HeirInv
  <2> QED BY <1>6, <2>1, <2>2 DEF InsertSession
<1>7. CASE (\E id \in 1 .. lastId : Expire(id)) \/ UNCHANGED vars \/ Crash
  <2>1. \A i \in Nat \ {0}, u \in UserIds, a \in Ips : Claim(i, u, a)' => Claim(i, u, a)
    BY <1>7 DEF Expire, Crash, vars, tables, Claim, Opening, NoSession
  <2> QED BY <1>7, <2>1, NothingClaimed DEF Expire, Crash, vars, tables
<1>8. ASSUME NEW c \in Clients, Step(c) PROVE HeirInv'
  BY <1>2, <1>3, <1>4, <1>5, <1>6, <1>8 DEF Step
<1> QED BY <1>1, <1>7, <1>8 DEF Next

\* Though a token may be exchanged more than once, it never has two successors
\* that are valid at once.
THEOREM SessionsOneHeir == Spec => []OneHeir
<1>1. TypeInv /\ HeirInv => OneHeir
  <2> SUFFICES ASSUME TypeInv, HeirInv, NEW s \in sessions, NEW t \in sessions,
                      s.heirOf = t.heirOf, s.heirOf # 0
               PROVE  s = t
    BY DEF OneHeir
  <2>1. /\ s.heirOf \in Nat \ {0} /\ s.userId \in UserIds /\ t.userId \in UserIds
        /\ s.ip \in Ips /\ t.ip \in Ips
    BY DEF TypeInv, SessTypeOK, Session
  <2>2. Claim(s.heirOf, s.userId, s.ip) /\ Claim(s.heirOf, t.userId, t.ip)
    BY DEF Claim
  <2>3. s.userId = t.userId /\ s.ip = t.ip
    BY <2>1, <2>2 DEF HeirInv, OneHolder
  <2> QED BY <2>3 DEF HeirInv, OnePerAddress
<1> QED BY <1>1, InitType, NextType, InitHeir, NextHeir, PTL DEF Spec
=============================================================================
