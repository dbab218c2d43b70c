------------------------------- MODULE Sessions -------------------------------
(***************************************************************************)
(* AuthenticationService (src/plugins/authentication): users register, log *)
(* in, exchange their refresh token for a new one, and log out.  A token   *)
(* is the refresh session it opens, a row of refresh_sessions; a user has  *)
(* one at each address, and a limited number in all.                       *)
(*                                                                         *)
(* Every query is awaited, and so are the hashing of a password and the    *)
(* signing of an access token: between any two steps of a request those of *)
(* other requests run, of the same user and of the same token among them.  *)
(* No lock is taken; the tables' unique keys are all that orders them.  A  *)
(* crash loses the requests under way and keeps the tables.                *)
(***************************************************************************)
EXTENDS Naturals, FiniteSets

CONSTANTS Clients,       \* requests that may be under way at once
          Ips,           \* addresses they come from (request.ip)
          Names,         \* what is typed as a login or as an email
          NoName, NoIp,
          MaxSessions,   \* auth config `maxSessions`
          MaxSessionId   \* bound: ids that AUTOINCREMENT hands out

ASSUME SessionsAssumption ==
  /\ IsFiniteSet(Clients)
  /\ NoName \notin Names /\ NoIp \notin Ips
  /\ MaxSessions \in Nat \ {0}
  /\ MaxSessionId \in Nat

VARIABLES users,      \* rows of table users; none is ever deleted
          sessions,   \* rows of table refresh_sessions
          lastId,     \* sqlite_sequence: the last id given to a session
          expired,    \* sessions whose createdAt + expiresIn has passed
          pc,         \* per client: the query or computation it awaits
          asked,      \* per client: what the request carries
          row,        \* per client: the session it has read
          userOf      \* per client: the user it opens a session for

vars == <<users, sessions, lastId, expired, pc, asked, row, userOf>>
tables == <<users, sessions, lastId, expired>>

UserIds == Nat \ {0}
User == [id : UserIds, login : Names, email : Names]

\* A UUID is drawn once, so the id stands for the token too.  `heirOf` is no
\* column: it remembers the token the session was exchanged for, 0 at a login.
Session == [id : Nat \ {0}, userId : UserIds, ip : Ips, heirOf : Nat]
NoSession == [id |-> 0, userId |-> 0, ip |-> NoIp, heirOf |-> 0]

Pcs == {"idle", "findByEmail", "findByLogin", "addUser",
        "findUser", "findByIp", "verify",
        "refreshFind", "refreshDelete", "logoutFind", "logoutDelete",
        "count", "wipe", "insert"}

\* The body of a request and its address; its token is 0 when it has none.
Request == [login : Names \cup {NoName}, email : Names \cup {NoName},
            ip : Ips \cup {NoIp}, token : Nat]
NoRequest == [login |-> NoName, email |-> NoName, ip |-> NoIp, token |-> 0]

SessionsOf(u) == {s \in sessions : s.userId = u}

Init ==
  /\ users = {}
  /\ sessions = {}
  /\ lastId = 0
  /\ expired = {}
  /\ pc = [c \in Clients |-> "idle"]
  /\ asked = [c \in Clients |-> NoRequest]
  /\ row = [c \in Clients |-> NoSession]
  /\ userOf = [c \in Clients |-> 0]

At(c, p) == pc[c] = p
Goto(c, p) == pc' = [pc EXCEPT ![c] = p]
Go(c, p) == Goto(c, p) /\ UNCHANGED <<asked, row, userOf>>
\* The handler settles; what it answers is nobody's state.
Reply(c) ==
  /\ Goto(c, "idle")
  /\ asked' = [asked EXCEPT ![c] = NoRequest]
  /\ row' = [row EXCEPT ![c] = NoSession]
  /\ userOf' = [userOf EXCEPT ![c] = 0]

-----------------------------------------------------------------------------
\* The routes.  A refresh token is one that was handed out; others are found
\* nowhere, as one is that was deleted.
Asks(c, p, request) ==
  /\ At(c, "idle")
  /\ Goto(c, p)
  /\ asked' = [asked EXCEPT ![c] = request]
  /\ UNCHANGED <<row, userOf, tables>>

AskRegister(c, login, email) ==
  Asks(c, "findByEmail",
       [login |-> login, email |-> email, ip |-> NoIp, token |-> 0])

AskLogin(c, login, ip) ==
  Asks(c, "findUser", [login |-> login, email |-> NoName, ip |-> ip, token |-> 0])

AskRefresh(c, token, ip) ==
  Asks(c, "refreshFind",
       [login |-> NoName, email |-> NoName, ip |-> ip, token |-> token])

AskLogout(c, token, ip) ==
  Asks(c, "logoutFind",
       [login |-> NoName, email |-> NoName, ip |-> ip, token |-> token])

-----------------------------------------------------------------------------
\* register: the two lookups, then the insert behind the hashing, which the
\* unique keys of login and email may refuse.
FindByEmail(c) ==
  /\ At(c, "findByEmail")
  /\ IF \E u \in users : u.email = asked[c].email THEN Reply(c) ELSE Go(c, "findByLogin")
  /\ UNCHANGED tables

FindByLogin(c) ==
  /\ At(c, "findByLogin")
  /\ IF \E u \in users : u.login = asked[c].login THEN Reply(c) ELSE Go(c, "addUser")
  /\ UNCHANGED tables

UserKeysFree(login, email) ==
  \A u \in users : u.login # login /\ u.email # email

AddUser(c) ==
  /\ At(c, "addUser")
  /\ LET r == asked[c]
     IN  users' = IF UserKeysFree(r.login, r.email)
                    THEN users \cup {[id |-> Cardinality(users) + 1,
                                      login |-> r.login, email |-> r.email]}
                    ELSE users
  /\ Reply(c)
  /\ UNCHANGED <<sessions, lastId, expired>>

-----------------------------------------------------------------------------
\* login: findByEmailOrLogin takes the first row of either kind, in no order
\* that the query names.
FindUser(c) ==
  /\ At(c, "findUser")
  /\ LET found == {u \in users : asked[c].login \in {u.login, u.email}}
     IN  \/ found = {} /\ Reply(c)
         \/ \E u \in found :
              /\ Goto(c, "findByIp")
              /\ userOf' = [userOf EXCEPT ![c] = u.id]
              /\ UNCHANGED <<asked, row>>
  /\ UNCHANGED tables

\* "Already logged in", whether or not the session found has expired.
FindByIp(c) ==
  /\ At(c, "findByIp")
  /\ IF \E s \in SessionsOf(userOf[c]) : s.ip = asked[c].ip
       THEN Reply(c) ELSE Go(c, "verify")
  /\ UNCHANGED tables

\* The password is right or wrong.
Verify(c) ==
  /\ At(c, "verify")
  /\ Go(c, "count") \/ Reply(c)
  /\ UNCHANGED tables

-----------------------------------------------------------------------------
\* deleteByTokenAndGet, its select: it goes on to `next` with the row.
FindToken(c, p, next) ==
  /\ At(c, p)
  /\ LET found == {s \in sessions : s.id = asked[c].token}
     IN  \/ found = {} /\ Reply(c)
         \/ \E s \in found :
              /\ Goto(c, next)
              /\ row' = [row EXCEPT ![c] = s]
              /\ UNCHANGED <<asked, userOf>>
  /\ UNCHANGED tables

\* deleteByTokenAndGet, its delete, by the id that was read.
DeleteToken(c) == sessions' = {s \in sessions : s.id # row[c].id}

\* Mutant of MayExchange: the address is not compared.
MayExchangeAnywhere(c) == row[c].id \notin expired

\* What refreshTokens asks of the row, after it has deleted it.
MayExchange(c) ==
  /\ row[c].ip = asked[c].ip
  /\ row[c].id \notin expired

\* Mutant of RefreshDelete: the user of the row is not taken over.
RefreshDeleteUserless(c) ==
  /\ At(c, "refreshDelete")
  /\ DeleteToken(c)
  /\ IF MayExchange(c) THEN Go(c, "count") ELSE Reply(c)
  /\ UNCHANGED <<users, lastId, expired>>

RefreshDelete(c) ==
  /\ At(c, "refreshDelete")
  /\ DeleteToken(c)
  /\ IF MayExchange(c)
       THEN /\ Goto(c, "count")
            /\ userOf' = [userOf EXCEPT ![c] = row[c].userId]
            /\ row' = [row EXCEPT ![c] = NoSession]
            /\ UNCHANGED asked
       ELSE Reply(c)
  /\ UNCHANGED <<users, lastId, expired>>

LogoutDelete(c) ==
  /\ At(c, "logoutDelete")
  /\ DeleteToken(c)
  /\ Reply(c)
  /\ UNCHANGED <<users, lastId, expired>>

-----------------------------------------------------------------------------
\* Mutant of AtLimit: one session too many counts as below the limit.
AtLimitStrict(u) == Cardinality(SessionsOf(u)) > MaxSessions

AtLimit(u) == Cardinality(SessionsOf(u)) >= MaxSessions

\* addRefreshSession: count the user's sessions, behind the signing of the
\* access token.
CountSessions(c) ==
  /\ At(c, "count")
  /\ Go(c, IF AtLimit(userOf[c]) THEN "wipe" ELSE "insert")
  /\ UNCHANGED tables

\* deleteByUser: all of them go, not the oldest one.
Wipe(c) ==
  /\ At(c, "wipe")
  /\ sessions' = sessions \ SessionsOf(userOf[c])
  /\ Go(c, "insert")
  /\ UNCHANGED <<users, lastId, expired>>

\* The insert, which the unique key of user and address may refuse.
InsertSession(c) ==
  /\ At(c, "insert")
  /\ LET u == userOf[c]
         ip == asked[c].ip
     IN  \/ /\ \E s \in SessionsOf(u) : s.ip = ip
            /\ UNCHANGED <<sessions, lastId>>
         \/ /\ \A s \in SessionsOf(u) : s.ip # ip
            /\ lastId < MaxSessionId
            /\ lastId' = lastId + 1
            /\ sessions' = sessions \cup {[id |-> lastId + 1, userId |-> u, ip |-> ip,
                                           heirOf |-> asked[c].token]}
  /\ Reply(c)
  /\ UNCHANGED <<users, expired>>

-----------------------------------------------------------------------------
\* Time passes for a session that is in the table or that a request has read.
Expire(id) ==
  /\ id \notin expired
  /\ \/ \E s \in sessions : s.id = id
     \/ \E c \in Clients : row[c].id = id
  /\ expired' = expired \cup {id}
  /\ UNCHANGED <<users, sessions, lastId, pc, asked, row, userOf>>

\* The process dies and starts again.
Crash ==
  /\ pc' = [c \in Clients |-> "idle"]
  /\ asked' = [c \in Clients |-> NoRequest]
  /\ row' = [c \in Clients |-> NoSession]
  /\ userOf' = [c \in Clients |-> 0]
  /\ UNCHANGED tables

Ask(c) ==
  \/ \E login, email \in Names : AskRegister(c, login, email)
  \/ \E login \in Names, ip \in Ips : AskLogin(c, login, ip)
  \/ \E token \in 1 .. lastId, ip \in Ips :
       AskRefresh(c, token, ip) \/ AskLogout(c, token, ip)

Step(c) ==
  \/ FindByEmail(c) \/ FindByLogin(c) \/ AddUser(c)
  \/ FindUser(c) \/ FindByIp(c) \/ Verify(c)
  \/ FindToken(c, "refreshFind", "refreshDelete") \/ RefreshDelete(c)
  \/ FindToken(c, "logoutFind", "logoutDelete") \/ LogoutDelete(c)
  \/ CountSessions(c) \/ Wipe(c) \/ InsertSession(c)

Next ==
  \/ \E c \in Clients : Ask(c) \/ Step(c)
  \/ \E id \in 1 .. lastId : Expire(id)
  \/ Crash

Spec == Init /\ [][Next]_vars

-----------------------------------------------------------------------------
\* Type invariant of the tables and of the requests.
SessTypeOK ==
  /\ users \subseteq User
  /\ sessions \subseteq Session
  /\ lastId \in Nat
  /\ \A s \in sessions : s.id <= lastId
  /\ expired \subseteq 1 .. lastId
  /\ pc \in [Clients -> Pcs]
  /\ asked \in [Clients -> Request]
  /\ row \in [Clients -> Session \cup {NoSession}]
  /\ userOf \in [Clients -> Nat]

\* addRefreshSession counts and inserts in two queries: `maxSessions` may be
\* exceeded, but only by the requests that counted before the others' inserts.
SessionBound ==
  \A u \in UserIds \cap {s.userId : s \in sessions} :
    Cardinality(SessionsOf(u)) + 1 <= MaxSessions + Cardinality(Clients)

\* Two requests may exchange the same token, for both read its row before
\* either deletes it; yet it never has two successors that are both valid
\* (refreshTokens compares the address, and a user has one row at an address).
OneHeir ==
  \A s, t \in sessions : s.heirOf = t.heirOf /\ s.heirOf # 0 => s = t
=============================================================================
