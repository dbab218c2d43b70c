--------------------------- MODULE MembershipProofs ---------------------------
(***************************************************************************)
(* What holds of groups, members and roles for every number of requests,   *)
(* users, groups and roles.                                                *)
(*                                                                         *)
(* A handler acts on what it read some queries ago.  What makes that safe  *)
(* is that ids are never handed out twice and an owner never changes:      *)
(* whatever was read of an owner is true of the group for as long as it    *)
(* exists (Known).  Rows of a member, which do come and go, are counted    *)
(* with the requests that are about to add one (Adding).                   *)
(***************************************************************************)
EXTENDS Membership, FiniteSetTheorems, TLAPS

\* Queries of the handler of each operation.
Creating == {"findName", "createGroup", "addOwner"}
AddingUser == {"findUser", "checkMember", "addMember"}
UserFound == {"checkMember", "addMember"}
RemovingUser == {"removeFindGroup", "removeRoles", "deleteMember"}
AddingRole == {"readRoles", "addFindGroup", "addFindMember", "insertRole"}
DroppingRole == {"dropFindGroup", "dropFindMember", "deleteRole"}

\* A request names whom and what its route needs, and its handler is its own.
Served(c) ==
  LET r == asked[c]
  IN  /\ r.op # "none" => r.actor \in Users
      /\ r.op \in {"removeUser", "addRole", "removeRole"} => r.user \in Users
      /\ r.op \in {"addRole", "removeRole"} => r.role \in RoleNames
      /\ r.op = "createGroup" => r.name \in Names
      /\ pc[c] # "idle" => r.op # "none"
      /\ pc[c] \in Creating => r.op = "createGroup"
      /\ pc[c] \in AddingUser => r.op = "addUser"
      /\ pc[c] \in UserFound => r.user \in Users
      /\ pc[c] \in RemovingUser => r.op = "removeUser"
      /\ pc[c] \in AddingRole => r.op = "addRole"
      /\ pc[c] \in DroppingRole => r.op = "removeRole"

\* Ids are those of sqlite_sequence, each of one row.
IdsFresh ==
  /\ \A g \in groups : g.id <= lastGroup
  /\ \A g, h \in groups : g.id = h.id => g = h
  /\ \A m \in members : m.id <= lastMember
  /\ \A m, n \in members : m.id = n.id => m = n
  /\ \A i \in told : i <= lastGroup

TypeInv ==
  /\ MembTypeOK /\ IdsFresh
  /\ IsFiniteSet(members)
  /\ \A c \in Clients : Served(c)

\* The locals alone.
LocalsOK ==
  /\ pc \in [Clients -> Pcs] /\ asked \in [Clients -> Request]
  /\ found \in [Clients -> Nat]
  /\ has \in [Clients -> BOOLEAN]
  /\ \A c \in Clients : Served(c)

TablesOK ==
  /\ groups \subseteq Group /\ members \subseteq Member /\ roles \subseteq UserRole
  /\ lastGroup \in Nat /\ lastMember \in Nat
  /\ told \subseteq Ids
  /\ \A m \in members : m.group \in GroupIds
  /\ \A r \in roles : \E m \in members : m.id = r.member
  /\ IdsFresh
  /\ IsFiniteSet(members)

LEMMA TypeParts == ASSUME TablesOK', LocalsOK' PROVE TypeInv'
BY DEF TypeInv, TablesOK, LocalsOK, MembTypeOK

LEMMA InitType == Init => TypeInv
BY FS_EmptySet DEF Init, TypeInv, MembTypeOK, IdsFresh, Served, Pcs, Request, NoRequest,
       AnyUser, AnyRole, GroupIds, Creating, AddingUser, UserFound, RemovingUser, AddingRole,
       DroppingRole

LEMMA MenuTypes ==
  ASSUME NEW m \in Menu
  PROVE  /\ m[1] \in Ops /\ m[2] \in Users /\ m[3] \in AnyUser /\ m[4] \in AnyRole
         /\ m[1] \in {"removeUser", "addRole", "removeRole"} => m[3] \in Users
         /\ m[1] \in {"addRole", "removeRole"} => m[4] \in RoleNames
BY MembershipAssumption

LEMMA RequestTypes ==
  ASSUME NEW r \in Requests, lastGroup \in Nat
  PROVE  /\ r \in Request /\ r.op # "none" /\ r.actor \in Users
         /\ r.op \in {"removeUser", "addRole", "removeRole"} => r.user \in Users
         /\ r.op \in {"addRole", "removeRole"} => r.role \in RoleNames
         /\ r.op = "createGroup" => r.name \in Names
         /\ r.group <= lastGroup
<1> DEFINE R(m, i, name) == [op |-> m[1], actor |-> m[2], group |-> i, user |-> m[3],
                             role |-> m[4], name |-> name]
<1>0. ASSUME NEW m \in Menu, NEW i \in 0 .. lastGroup, NEW name \in Names \cup {NoName},
             r = R(m, i, name), m[1] = "createGroup" => name \in Names
      PROVE  /\ r \in Request /\ r.op # "none" /\ r.actor \in Users
             /\ r.op \in {"removeUser", "addRole", "removeRole"}
                  => r.user \in Users
             /\ r.op \in {"addRole", "removeRole"} => r.role \in RoleNames
             /\ r.op = "createGroup" => r.name \in Names
             /\ r.group <= lastGroup
  <2>1. /\ r.op = m[1] /\ r.actor = m[2] /\ r.group = i /\ r.user = m[3]
        /\ r.role = m[4] /\ r.name = name
    BY <1>0
  <2>2. /\ m[1] \in Ops /\ m[2] \in Users /\ m[3] \in AnyUser /\ m[4] \in AnyRole
        /\ m[1] \in {"removeUser", "addRole", "removeRole"} => m[3] \in Users
        /\ m[1] \in {"addRole", "removeRole"} => m[4] \in RoleNames
    BY MenuTypes
  <2>3. i \in Nat /\ i <= lastGroup /\ m[1] # "none" /\ m[2] \in AnyUser
        /\ m[1] \in Ops \cup {"none"}
    BY <2>2 DEF Ops, AnyUser
  <2>4. r \in Request
    BY <1>0, <2>2, <2>3 DEF Request
  <2> QED BY <1>0, <2>1, <2>2, <2>3, <2>4
<1>1. CASE \E m \in Menu, n \in Names : m[1] = "createGroup" /\ r = R(m, 0, n)
  BY <1>0, <1>1
<1>2. CASE \E m \in Menu, i \in 1 .. lastGroup :
             m[1] # "createGroup" /\ r = R(m, i, NoName)
  BY <1>0, <1>2
<1> QED BY <1>1, <1>2 DEF Requests

-----------------------------------------------------------------------------
(* Locals *)

LEMMA SettleLocals ==
  ASSUME TypeInv, NEW c \in Clients, Settle(c)
  PROVE  LocalsOK'
BY DEF TypeInv, MembTypeOK, LocalsOK, Served, Settle, Goto, Pcs, Request, NoRequest,
       AnyUser, AnyRole, Creating, AddingUser, UserFound, RemovingUser, AddingRole, DroppingRole

LEMMA ReplyLocals == ASSUME TypeInv, NEW c \in Clients, Reply(c) \/ Throw(c) PROVE LocalsOK'
BY SettleLocals DEF Reply, Throw

\* A query of the handler follows another, or the hooks.
LEMMA GotoLocals ==
  ASSUME TypeInv, NEW c \in Clients, NEW p \in Pcs \ {"idle"}, Goto(c, p), asked' = asked,
         found' \in [Clients -> Nat], has' \in [Clients -> BOOLEAN],
         pc[c] # "idle",
         p \in Creating => asked[c].op = "createGroup",
         p \in AddingUser => asked[c].op = "addUser",
         p \in UserFound => asked[c].user \in Users,
         p \in RemovingUser => asked[c].op = "removeUser",
         p \in AddingRole => asked[c].op = "addRole",
         p \in DroppingRole => asked[c].op = "removeRole"
  PROVE  LocalsOK'
BY DEF TypeInv, MembTypeOK, LocalsOK, Served, Goto

LEMMA AskLocals ==
  ASSUME TypeInv, NEW c \in Clients, NEW r \in Requests, Ask(c, r)
  PROVE  LocalsOK'
<1>1. lastGroup \in Nat
  BY DEF TypeInv, MembTypeOK
<1> QED BY <1>1, RequestTypes DEF TypeInv, MembTypeOK, LocalsOK, Served, Ask, At, Goto,
        tables, Pcs, Creating, AddingUser, UserFound, RemovingUser, AddingRole, DroppingRole

LEMMA HookLocals ==
  ASSUME TypeInv, NEW c \in Clients, HookGroup(c) \/ HookRoles(c)
  PROVE  LocalsOK'
<1>1. CASE Reply(c)
  BY <1>1, ReplyLocals
<1>2. CASE Go(c, "hookRoles") /\ pc[c] # "idle"
  BY <1>2, GotoLocals DEF Go, TypeInv, MembTypeOK, Pcs, Creating, AddingUser, UserFound,
        RemovingUser, AddingRole, DroppingRole
<1>3. CASE Go(c, Handler(asked[c].op)) /\ pc[c] # "idle"
  <2> DEFINE p == Handler(asked[c].op)
  <2>1. /\ p \in Pcs \ {"idle"}
        /\ p \notin Creating
        /\ p \in AddingUser => asked[c].op = "addUser"
        /\ p \notin UserFound
        /\ p \in RemovingUser => asked[c].op = "removeUser"
        /\ p \in AddingRole => asked[c].op = "addRole"
        /\ p \in DroppingRole => asked[c].op = "removeRole"
    BY DEF Handler, Pcs, Creating, AddingUser, UserFound, RemovingUser, AddingRole, DroppingRole
  <2> HIDE DEF p
  <2> QED BY <1>3, <2>1, GotoLocals DEF Go, p, TypeInv, MembTypeOK
<1> QED BY <1>1, <1>2, <1>3 DEF HookGroup, HookRoles, At

LEMMA StepLocals == ASSUME TypeInv, NEW c \in Clients, Step(c) PROVE LocalsOK'
<1> USE DEF Creating, AddingUser, UserFound, RemovingUser, AddingRole, DroppingRole
<1>1. CASE HookGroup(c) \/ HookRoles(c)
  BY <1>1, HookLocals
<1>2. CASE Reply(c) \/ Throw(c)
  BY <1>2, ReplyLocals
<1> DEFINE Query(p, q) == At(c, p) /\ Go(c, q)
<1>3. ASSUME NEW p, NEW q, Query(p, q),
             \/ p = "findName" /\ q = "createGroup"
             \/ p = "findUser" /\ q = "checkMember" /\ asked[c].user \in Users
             \/ p = "checkMember" /\ q = "addMember"
             \/ p = "removeFindGroup" /\ q \in {"deleteMember", "removeRoles"}
             \/ p = "addFindGroup" /\ q = "addFindMember"
             \/ p = "dropFindGroup" /\ q = "dropFindMember"
      PROVE  LocalsOK'
  <2>1. asked[c].op = CASE p = "findName" -> "createGroup"
                        [] p \in {"findUser", "checkMember"} -> "addUser"
                        [] p = "removeFindGroup" -> "removeUser"
                        [] p = "addFindGroup" -> "addRole"
                        [] p = "dropFindGroup" -> "removeRole"
    BY <1>3 DEF At, TypeInv, Served
  <2>2. q \in UserFound => asked[c].user \in Users
    BY <1>3 DEF At, TypeInv, Served
  <2> QED BY <1>3, <2>1, <2>2, GotoLocals DEF At, Go, TypeInv, MembTypeOK, Pcs
<1>4. CASE CreateGroup(c) /\ ~Throw(c)
  BY <1>4, GotoLocals DEF CreateGroup, At, TypeInv, MembTypeOK, Served, Pcs
<1>5. CASE ReadRoles(c) /\ ~Reply(c)
  <2> DEFINE known == asked[c].role \in RolesOf(asked[c].group, asked[c].user)
  <2>1. /\ pc[c] = "readRoles" /\ Goto(c, "addFindGroup")
        /\ has' = [has EXCEPT ![c] = known]
        /\ UNCHANGED <<asked, found>>
    BY <1>5 DEF ReadRoles, At
  <2>2. known \in BOOLEAN
    OBVIOUS
  <2> HIDE DEF known
  <2>3. has' \in [Clients -> BOOLEAN]
    BY <2>1, <2>2 DEF TypeInv, MembTypeOK
  <2> QED BY <2>1, <2>3, GotoLocals DEF TypeInv, MembTypeOK, Served, Pcs
<1>6. ASSUME NEW p, NEW q, FindMember(c, p, q), ~Throw(c),
             \/ p = "addFindMember" /\ q = "insertRole"
             \/ p = "dropFindMember" /\ q = "deleteRole"
      PROVE  LocalsOK'
  <2>1. PICK m \in Rows(asked[c].group, asked[c].user) :
          Goto(c, q) /\ found' = [found EXCEPT ![c] = m.id]
                     /\ UNCHANGED <<asked, has>>
    BY <1>6 DEF FindMember
  <2>2. m.id \in Nat
    BY DEF Rows, TypeInv, MembTypeOK, Member, Ids
  <2>3. pc[c] = p /\ asked[c].op = IF p = "addFindMember" THEN "addRole" ELSE "removeRole"
    BY <1>6 DEF FindMember, At, TypeInv, Served
  <2> QED BY <1>6, <2>1, <2>2, <2>3, GotoLocals DEF TypeInv, MembTypeOK, Pcs
<1> QED BY <1>1, <1>2, <1>3, <1>4, <1>5, <1>6
        DEF Step, TaskHandler, FindName, CreateGroup, AddOwner, DeleteGroup, FindUser, CheckMember,
            AddMember, RemoveFindGroup, RemoveRoles, DeleteMember, ReadRoles,
            AddFindGroup, FindMember, InsertRole, DropFindGroup, DeleteRole

-----------------------------------------------------------------------------
(* Tables *)

\* Nothing but rows of roles changes, or nothing at all.
LEMMA FewerRoles ==
  ASSUME TypeInv, roles' \subseteq roles,
         UNCHANGED <<groups, members, lastGroup, lastMember, told>>
  PROVE  TablesOK'
BY DEF TypeInv, MembTypeOK, TablesOK, IdsFresh, GroupIds

LEMMA CreateTables == ASSUME TypeInv, NEW c \in Clients, CreateGroup(c) PROVE TablesOK'
<1>1. CASE UNCHANGED <<groups, lastGroup>>
  BY <1>1, FewerRoles DEF CreateGroup
<1> DEFINE g == [id |-> lastGroup + 1, name |-> asked[c].name, owner |-> asked[c].actor]
<1>2. CASE lastGroup' = lastGroup + 1 /\ groups' = groups \cup {g}
  <2>1. g \in Group
    BY <1>2 DEF CreateGroup, At, TypeInv, MembTypeOK, Served, Creating, Group, Ids
  <2> QED BY <1>2, <2>1 DEF CreateGroup, TypeInv, MembTypeOK, TablesOK, IdsFresh,
                            GroupIds, Group, Ids
<1> QED BY <1>1, <1>2 DEF CreateGroup

LEMMA InsertTables ==
  ASSUME TypeInv, NEW i \in GroupIds, NEW u \in Users, InsertMember(i, u),
         told' \subseteq told \cup {i}, UNCHANGED <<groups, roles, lastGroup>>
  PROVE  TablesOK'
<1> DEFINE m == [id |-> lastMember + 1, group |-> i, user |-> u]
<1>1. i \in Ids /\ i <= lastGroup
  BY DEF GroupIds, TypeInv, MembTypeOK, IdsFresh, Group
<1>2. m \in Member
  BY <1>1 DEF TypeInv, MembTypeOK, Member, Ids
<1>3. members' = members \cup {m} /\ lastMember' = lastMember + 1
  BY DEF InsertMember
<1>4. IsFiniteSet(members')
  BY <1>3, FS_AddElement DEF TypeInv
<1>5. /\ groups' \subseteq Group /\ members' \subseteq Member /\ roles' \subseteq UserRole
      /\ lastGroup' \in Nat /\ lastMember' \in Nat /\ told' \subseteq Ids
  BY <1>1, <1>2, <1>3 DEF TypeInv, MembTypeOK
<1>6. /\ \A x \in members' : x.group \in GroupIds'
      /\ \A r \in roles' : \E x \in members' : x.id = r.member
  BY <1>3 DEF TypeInv, MembTypeOK, GroupIds
<1>7. IdsFresh'
  BY <1>1, <1>3 DEF TypeInv, MembTypeOK, IdsFresh, Member, Ids
<1> QED BY <1>4, <1>5, <1>6, <1>7 DEF TablesOK

\* Whatever refers to a row that goes, goes with it.
LEMMA CascadeTables ==
  ASSUME TypeInv, NEW gone \in SUBSET members, members' = members \ gone,
         roles' = RolesWithout(gone), groups' \subseteq groups,
         \A m \in members' : m.group \in GroupIds',
         UNCHANGED <<lastGroup, lastMember, told>>
  PROVE  TablesOK'
<1>1. IsFiniteSet(members')
  BY FS_Subset DEF TypeInv
<1>2. \A r \in roles' : \E m \in members' : m.id = r.member
  BY DEF RolesWithout, TypeInv, MembTypeOK
<1>3. IdsFresh'
  BY DEF TypeInv, IdsFresh
<1> QED BY <1>1, <1>2, <1>3 DEF TypeInv, MembTypeOK, TablesOK, RolesWithout

LEMMA DeleteTables ==
  ASSUME TypeInv, NEW c \in Clients, DeleteGroup(c) \/ DeleteMember(c)
  PROVE  TablesOK'
<1>1. CASE UNCHANGED <<groups, members, roles>> /\ UNCHANGED <<lastGroup, lastMember, told>>
  BY <1>1, FewerRoles
<1>2. CASE DeleteGroup(c) /\ ~UNCHANGED <<groups, members, roles>>
  <2> DEFINE i == asked[c].group
             gone == {m \in members : m.group = i}
  <2>1. /\ groups' = {g \in groups : g.id # i} /\ members' = members \ gone
        /\ roles' = RolesWithout(gone) /\ UNCHANGED <<lastGroup, lastMember, told>>
    BY <1>2 DEF DeleteGroup
  <2>2. \A m \in members' : m.group \in GroupIds'
    BY <2>1 DEF TypeInv, MembTypeOK, GroupIds
  <2> QED BY <2>1, <2>2, CascadeTables
<1>3. CASE DeleteMember(c)
  <2> DEFINE gone == Rows(asked[c].group, asked[c].user)
  <2>1. /\ members' = members \ gone /\ roles' = RolesWithout(gone)
        /\ UNCHANGED <<groups, lastGroup, lastMember, told>> /\ gone \in SUBSET members
    BY <1>3 DEF DeleteMember, Rows
  <2>2. \A m \in members' : m.group \in GroupIds'
    BY <2>1 DEF TypeInv, MembTypeOK, GroupIds
  <2> QED BY <2>1, <2>2, CascadeTables
<1> QED BY <1>1, <1>2, <1>3 DEF DeleteGroup

LEMMA StepTables == ASSUME TypeInv, NEW c \in Clients, Step(c) PROVE TablesOK'
<1>1. CASE UNCHANGED tables
  BY <1>1, FewerRoles DEF tables
<1>2. CASE CreateGroup(c)
  BY <1>2, CreateTables
<1>3. CASE AddOwner(c) /\ ~UNCHANGED tables
  <2>1. asked[c].actor \in Users
    BY <1>3 DEF AddOwner, At, TypeInv, Served, Creating
  <2> QED BY <1>3, <2>1, InsertTables DEF AddOwner, tables
<1>4. CASE AddMember(c) /\ ~UNCHANGED tables
  <2>1. asked[c].user \in Users
    BY <1>4 DEF AddMember, At, TypeInv, Served, UserFound
  <2> QED BY <1>4, <2>1, InsertTables DEF AddMember, tables
<1>5. CASE DeleteGroup(c) \/ DeleteMember(c)
  BY <1>5, DeleteTables
<1>6. CASE InsertRole(c) /\ ~UNCHANGED tables
  <2> DEFINE r == [member |-> found[c], role |-> asked[c].role]
  <2>1. /\ roles' = roles \cup {r} /\ \E m \in members : m.id = found[c]
        /\ UNCHANGED <<groups, members, lastGroup, lastMember, told>>
    BY <1>6 DEF InsertRole, tables
  <2>2. r \in UserRole
    BY <1>6, <2>1 DEF InsertRole, At, TypeInv, MembTypeOK, Served, AddingRole, UserRole,
                      Member
  <2> QED BY <2>1, <2>2 DEF TypeInv, MembTypeOK, TablesOK, IdsFresh, GroupIds
<1>7. CASE DeleteRole(c)
  BY <1>7, FewerRoles DEF DeleteRole
<1> QED BY <1>1, <1>2, <1>3, <1>4, <1>5, <1>6, <1>7
        DEF Step, HookGroup, HookRoles, TaskHandler, FindName, FindUser, CheckMember,
            RemoveFindGroup, RemoveRoles, ReadRoles, AddFindGroup, FindMember,
            DropFindGroup, AddOwner, AddMember, InsertRole, tables

LEMMA NextType == TypeInv /\ [Next]_vars => TypeInv'
<1> SUFFICES ASSUME TypeInv, [Next]_vars PROVE TypeInv'
  OBVIOUS
<1>1. ASSUME NEW c \in Clients, NEW r \in Requests, Ask(c, r) PROVE TypeInv'
  BY <1>1, AskLocals, FewerRoles, TypeParts DEF Ask, tables
<1>2. ASSUME NEW c \in Clients, Step(c) PROVE TypeInv'
  BY <1>2, StepLocals, StepTables, TypeParts
<1>3. CASE Crash
  <2>1. TablesOK'
    BY <1>3, FewerRoles DEF Crash, tables
  <2>2. LocalsOK'
    BY <1>3 DEF Crash, LocalsOK, Served, Pcs, Request, NoRequest, AnyUser, AnyRole,
                Creating, AddingUser, UserFound, RemovingUser, AddingRole, DroppingRole
  <2> QED BY <2>1, <2>2, TypeParts
<1>4. CASE UNCHANGED vars
  BY <1>4 DEF vars, tables, locals, TypeInv, MembTypeOK, IdsFresh, GroupIds, Served
<1> QED BY <1>1, <1>2, <1>3, <1>4 DEF Next

\* Tables and requests keep their types, and every row refers to a row that is
\* there, for any number of each.
THEOREM MembershipTypeCorrect == Spec => []MembTypeOK
<1>1. TypeInv => MembTypeOK
  BY DEF TypeInv
<1> QED BY <1>1, InitType, NextType, PTL DEF Spec

-----------------------------------------------------------------------------
(* What was read of an owner stays true *)

\* Request c goes on knowing that its user owns its group, which was there.
OwnsAsked(c) ==
  /\ asked[c].group <= lastGroup
  /\ \A g \in groups : g.id = asked[c].group => g.owner = asked[c].actor

Known(c) ==
  /\ pc[c] \in {"deleteGroup", "deleteMember", "addFindMember", "insertRole"} => OwnsAsked(c)
  /\ pc[c] = "hookRoles" => asked[c].op # "deleteGroup"
  /\ pc[c] = "deleteMember" => asked[c].user # asked[c].actor
  /\ pc[c] \in {"dropFindMember", "deleteRole"} /\ asked[c].role \in ROLES => OwnsAsked(c)
  /\ pc[c] = "addOwner" =>
       /\ found[c] <= lastGroup
       /\ \A g \in groups : g.id = found[c] => g.owner = asked[c].actor
  /\ pc[c] \in {"insertRole", "deleteRole"} =>
       /\ found[c] <= lastMember
       /\ \A m \in members : m.id = found[c] => m.group = asked[c].group

OwnerInv == OwnerIsMember /\ \A c \in Clients : Known(c)

LEMMA InitOwner == Init => OwnerInv
BY DEF Init, OwnerInv, OwnerIsMember, Known

\* A request that does nothing goes on knowing what it knew.
LEMMA KnownStays ==
  ASSUME TypeInv, TypeInv', NEW d \in Clients, Known(d),
         pc'[d] = pc[d], asked'[d] = asked[d], found'[d] = found[d],
         lastGroup <= lastGroup', lastMember <= lastMember',
         \A g \in groups' : g \in groups \/ g.id > lastGroup,
         \A m \in members' : m \in members \/ m.id > lastMember
  PROVE  Known(d)'
<1>1. /\ asked[d].group \in Nat /\ found[d] \in Nat
      /\ lastGroup \in Nat /\ lastMember \in Nat /\ lastGroup' \in Nat /\ lastMember' \in Nat
      /\ \A g \in groups' : g.id \in Nat
      /\ \A m \in members' : m.id \in Nat
  BY DEF TypeInv, MembTypeOK, Request, Group, Member, Ids
<1> QED BY <1>1 DEF Known, OwnsAsked

\* How the tables may grow in one step.
LEMMA RowsAreNew ==
  ASSUME TypeInv, [Next]_vars
  PROVE  /\ lastGroup <= lastGroup' /\ lastMember <= lastMember'
         /\ \A g \in groups' : g \in groups \/ g.id > lastGroup
         /\ \A m \in members' : m \in members \/ m.id > lastMember
<1>0. lastGroup \in Nat /\ lastMember \in Nat
  BY DEF TypeInv, MembTypeOK
<1>1. CASE UNCHANGED <<groups, members, lastGroup, lastMember>>
  BY <1>0, <1>1
<1>2. ASSUME NEW c \in Clients, Step(c) PROVE
         /\ lastGroup <= lastGroup' /\ lastMember <= lastMember'
         /\ \A g \in groups' : g \in groups \/ g.id > lastGroup
         /\ \A m \in members' : m \in members \/ m.id > lastMember
  BY <1>0, <1>1, <1>2 DEF Step, HookGroup, HookRoles, TaskHandler, FindName, CreateGroup,
     AddOwner, DeleteGroup, FindUser, CheckMember, AddMember, RemoveFindGroup, RemoveRoles,
     DeleteMember, ReadRoles, AddFindGroup, FindMember, InsertRole, DropFindGroup,
     DeleteRole, InsertMember, tables
<1> QED BY <1>1, <1>2 DEF Next, Ask, Crash, vars, tables

\* The requests that a step of c does not touch.
LEMMA OthersWait ==
  ASSUME TypeInv, NEW c \in Clients, (\E r \in Requests : Ask(c, r)) \/ Step(c),
         NEW d \in Clients, d # c
  PROVE  pc'[d] = pc[d] /\ asked'[d] = asked[d] /\ found'[d] = found[d]
BY DEF Ask, Step, HookGroup, HookRoles, TaskHandler, FindName, CreateGroup,
     AddOwner, DeleteGroup, FindUser, CheckMember, AddMember, RemoveFindGroup, RemoveRoles,
     DeleteMember, ReadRoles, AddFindGroup, FindMember, InsertRole, DropFindGroup,
     DeleteRole, At, Go, Goto, Reply, Throw, Settle, TypeInv, MembTypeOK

LEMMA SettledKnows ==
  ASSUME TypeInv, NEW c \in Clients, Reply(c) \/ Throw(c)
  PROVE  Known(c)'
BY DEF Reply, Throw, Settle, Goto, Known, TypeInv, MembTypeOK

LEMMA NextKnown ==
  ASSUME TypeInv, TypeInv', NEW c \in Clients, Known(c), Step(c)
  PROVE  Known(c)'
<1> USE DEF TypeInv, MembTypeOK, At, Go, Goto
<1>1. CASE Reply(c) \/ Throw(c)
  BY <1>1, SettledKnows
<1>2. CASE HookGroup(c)
  <2>1. CASE Go(c, Handler(asked[c].op)) /\ Owns(asked[c].actor, asked[c].group)
    <3>1. OwnsAsked(c) /\ UNCHANGED <<groups, members, asked, lastGroup>>
      BY <1>2, <2>1 DEF HookGroup, Owns, OwnsAsked, IdsFresh, tables
    <3>2. pc'[c] \in {"deleteGroup", "findUser", "removeFindGroup", "readRoles",
                      "dropFindGroup", "task"}
      BY <2>1 DEF Handler
    <3> QED BY <3>1, <3>2 DEF Known, OwnsAsked
  <2>2. CASE Go(c, "hookRoles") /\ asked[c].op # "deleteGroup"
    BY <2>2 DEF Known
  <2> QED BY <1>1, <1>2, <2>1, <2>2 DEF HookGroup
<1>3. CASE HookRoles(c)
  <2>1. asked[c].op # "deleteGroup"
    BY <1>3 DEF HookRoles, Known
  <2>2. CASE Go(c, Handler(asked[c].op))
    BY <2>1, <2>2 DEF Handler, Known
  <2> QED BY <1>1, <1>3, <2>2 DEF HookRoles
<1>4. CASE CreateGroup(c) /\ ~Throw(c)
  BY <1>4 DEF CreateGroup, Known, OwnsAsked, IdsFresh, Group, Ids
<1>5. CASE RemoveFindGroup(c)
  <2>1. CASE /\ ~IsSelf(c) /\ Owns(asked[c].actor, asked[c].group)
             /\ Go(c, "deleteMember") /\ UNCHANGED tables
    BY <2>1 DEF IsSelf, Owns, Known, OwnsAsked, IdsFresh, tables
  <2>2. CASE Go(c, "removeRoles")
    BY <2>2 DEF Known
  <2> QED BY <1>1, <1>5, <2>1, <2>2 DEF RemoveFindGroup
<1>6. CASE AddFindGroup(c) /\ ~Reply(c) /\ ~Throw(c)
  BY <1>6 DEF AddFindGroup, Owns, Known, OwnsAsked, IdsFresh, tables
<1>7. CASE DropFindGroup(c) /\ ~Reply(c) /\ ~Throw(c)
  <2>1. /\ Go(c, "dropFindMember") /\ MayDrop(c) /\ UNCHANGED tables
    BY <1>7 DEF DropFindGroup
  <2> QED BY <2>1 DEF MayDrop, Owns, Known, OwnsAsked, IdsFresh, tables
<1>8. ASSUME NEW p, NEW q, FindMember(c, p, q), ~Throw(c),
             \/ p = "addFindMember" /\ q = "insertRole"
             \/ p = "dropFindMember" /\ q = "deleteRole"
      PROVE  Known(c)'
  <2>1. PICK m \in Rows(asked[c].group, asked[c].user) :
          Goto(c, q) /\ found' = [found EXCEPT ![c] = m.id] /\ UNCHANGED asked
    BY <1>8 DEF FindMember
  <2>2. m \in members /\ m.group = asked[c].group
    BY DEF Rows
  <2>3. pc[c] = p /\ UNCHANGED tables
    BY <1>8 DEF FindMember
  <2>4. found'[c] <= lastMember /\ \A n \in members : n.id = found'[c] => n.group = asked[c].group
    BY <2>1, <2>2 DEF IdsFresh
  <2> QED BY <1>8, <2>1, <2>3, <2>4 DEF Known, OwnsAsked, tables
<1>9. ASSUME NEW q \in {"createGroup", "checkMember", "addMember", "addFindGroup"}, Goto(c, q)
      PROVE  Known(c)'
  BY <1>9 DEF Known
<1> QED BY <1>1, <1>2, <1>3, <1>4, <1>5, <1>6, <1>7, <1>8, <1>9
        DEF Step, TaskHandler, FindName, AddOwner, DeleteGroup, FindUser, CheckMember, AddMember,
            RemoveRoles, DeleteMember, ReadRoles, InsertRole, DeleteRole, FindMember

\* The step that takes a row of the owner takes the group too.
LEMMA StepOwner ==
  ASSUME TypeInv, OwnerInv, NEW c \in Clients, Step(c)
  PROVE  OwnerIsMember'
<1> USE DEF OwnerInv, OwnerIsMember, Rows
<1>1. CASE UNCHANGED <<groups, members, told>>
  BY <1>1
<1>2. CASE CreateGroup(c) /\ groups' # groups
  <2>1. /\ \A g \in groups' : g \in groups \/ g.id = lastGroup + 1
        /\ UNCHANGED <<members, told>>
    BY <1>2 DEF CreateGroup
  <2>2. lastGroup \in Nat /\ \A i \in told : i \in Nat /\ i <= lastGroup
    BY DEF TypeInv, MembTypeOK, IdsFresh, Ids
  <2> QED BY <2>1, <2>2
<1>3. ASSUME NEW i, NEW u, InsertMember(i, u), UNCHANGED groups,
             told' = told \/ (told' = told \cup {i} /\ \A g \in groups : g.id = i => g.owner = u)
      PROVE  OwnerIsMember'
  <2> DEFINE m == [id |-> lastMember + 1, group |-> i, user |-> u]
  <2>1. members' = members \cup {m}
    BY <1>3 DEF InsertMember
  <2>2. m.group = i /\ m.user = u
    OBVIOUS
  <2> HIDE DEF m
  <2>3. SUFFICES ASSUME NEW g \in groups, g.id \in told' PROVE Rows(g.id, g.owner)' # {}
    BY <1>3
  <2>4. CASE g.id \in told
    BY <2>1, <2>4
  <2>5. CASE g.id = i /\ g.owner = u
    BY <2>1, <2>2, <2>5
  <2> QED BY <1>3, <2>3, <2>4, <2>5
<1>4. CASE AddOwner(c) /\ ~UNCHANGED <<groups, members, told>>
  <2>1. \A g \in groups : g.id = found[c] => g.owner = asked[c].actor
    BY <1>4 DEF AddOwner, At, Known
  <2> QED BY <1>3, <1>4, <2>1 DEF AddOwner
<1>5. CASE AddMember(c) /\ ~UNCHANGED <<groups, members, told>>
  BY <1>3, <1>5 DEF AddMember
<1>6. CASE DeleteGroup(c) /\ ~UNCHANGED <<groups, members, told>>
  BY <1>6 DEF DeleteGroup
<1>7. CASE DeleteMember(c)
  <2>1. /\ asked[c].user # asked[c].actor
        /\ \A g \in groups : g.id = asked[c].group => g.owner = asked[c].actor
    BY <1>7 DEF DeleteMember, At, Known, OwnsAsked
  <2> QED BY <1>7, <2>1 DEF DeleteMember
<1> QED BY <1>1, <1>2, <1>4, <1>5, <1>6, <1>7
        DEF Step, HookGroup, HookRoles, TaskHandler, FindName, CreateGroup, FindUser, CheckMember,
            RemoveFindGroup, RemoveRoles, ReadRoles, AddFindGroup, FindMember,
            InsertRole, DropFindGroup, DeleteRole, tables

LEMMA NextOwner == TypeInv /\ OwnerInv /\ [Next]_vars => OwnerInv'
<1> SUFFICES ASSUME TypeInv, OwnerInv, [Next]_vars, TypeInv' PROVE OwnerInv'
  BY NextType
<1>1. CASE Crash \/ UNCHANGED vars
  BY <1>1 DEF Crash, vars, tables, locals, OwnerInv, OwnerIsMember, Rows, Known, OwnsAsked
<1>2. ASSUME NEW c \in Clients, NEW r \in Requests, Ask(c, r) PROVE OwnerInv'
  <2>1. OwnerIsMember'
    BY <1>2 DEF Ask, tables, OwnerInv, OwnerIsMember, Rows
  <2>2. Known(c)'
    BY <1>2 DEF Ask, Goto, Known, TypeInv, MembTypeOK
  <2>3. ASSUME NEW d \in Clients, d # c PROVE Known(d)'
    BY <1>2, <2>3, OthersWait, KnownStays, RowsAreNew DEF OwnerInv
  <2> QED BY <2>1, <2>2, <2>3 DEF OwnerInv
<1>3. ASSUME NEW c \in Clients, Step(c) PROVE OwnerInv'
  <2>1. Known(c)'
    BY <1>3, NextKnown DEF OwnerInv
  <2>2. ASSUME NEW d \in Clients, d # c PROVE Known(d)'
    BY <1>3, <2>2, OthersWait, KnownStays, RowsAreNew DEF OwnerInv
  <2> QED BY <1>3, <2>1, <2>2, StepOwner DEF OwnerInv
<1> QED BY <1>1, <1>2, <1>3 DEF Next

\* No request of anybody, in any order, takes the membership of the owner of a
\* group that was created to its end.
THEOREM OwnerStaysMember == Spec => []OwnerIsMember
<1>1. OwnerInv => OwnerIsMember
  BY DEF OwnerInv
<1> QED BY <1>1, InitType, NextType, InitOwner, NextOwner, PTL DEF Spec

-----------------------------------------------------------------------------
(* How often a user is a member *)

\* Requests past their check: the next query adds user u to group i.
Adding(i, u) ==
  {c \in Clients : \/ pc[c] = "addMember" /\ asked[c].group = i /\ asked[c].user = u
                   \/ pc[c] = "addOwner" /\ found[c] = i /\ asked[c].actor = u}

\* Rows that are there and rows that are about to be.
Places(i, u) == Cardinality(Rows(i, u)) + Cardinality(Adding(i, u))
PlacesBound == \A i \in Nat, u \in Users : Places(i, u) <= Cardinality(Clients)

LEMMA PlacesTypes ==
  ASSUME TypeInv, NEW i, NEW u
  PROVE  /\ IsFiniteSet(Rows(i, u)) /\ Cardinality(Rows(i, u)) \in Nat
         /\ IsFiniteSet(Adding(i, u)) /\ Cardinality(Adding(i, u)) \in Nat
         /\ Cardinality(Adding(i, u)) <= Cardinality(Clients)
         /\ Cardinality(Clients) \in Nat
<1>1. Rows(i, u) \subseteq members /\ IsFiniteSet(members)
  BY DEF Rows, TypeInv
<1>2. Adding(i, u) \subseteq Clients /\ IsFiniteSet(Clients)
  BY MembershipAssumption DEF Adding
<1> QED BY <1>1, <1>2, FS_Subset, FS_CardinalityType

\* A user to whom nothing is added keeps the bound.
LEMMA PlacesShrink ==
  ASSUME TypeInv, NEW i \in Nat, NEW u \in Users, Places(i, u) <= Cardinality(Clients),
         Rows(i, u)' \subseteq Rows(i, u), Adding(i, u)' \subseteq Adding(i, u)
  PROVE  (Places(i, u) <= Cardinality(Clients))'
<1>1. /\ Cardinality(Rows(i, u)') <= Cardinality(Rows(i, u))
      /\ Cardinality(Rows(i, u)') \in Nat
  BY PlacesTypes, FS_Subset, FS_CardinalityType
<1>2. /\ Cardinality(Adding(i, u)') <= Cardinality(Adding(i, u))
      /\ Cardinality(Adding(i, u)') \in Nat
  BY PlacesTypes, FS_Subset, FS_CardinalityType
<1> QED BY <1>1, <1>2, PlacesTypes DEF Places

\* A user with no row may be promised one by every request at most.
LEMMA PlacesEmpty ==
  ASSUME TypeInv, NEW i \in Nat, NEW u \in Users, Rows(i, u)' = {}
  PROVE  (Places(i, u) <= Cardinality(Clients))'
<1> DEFINE A == Adding(i, u)'
<1>1. A \subseteq Clients /\ IsFiniteSet(Clients)
  BY MembershipAssumption DEF Adding
<1>2. Cardinality(A) \in Nat /\ Cardinality(A) <= Cardinality(Clients)
  BY <1>1, FS_Subset, FS_CardinalityType
<1>3. Cardinality(Rows(i, u)') = 0
  BY FS_EmptySet
<1>4. Places(i, u)' = Cardinality(Rows(i, u)') + Cardinality(A)
  BY DEF Places
<1> HIDE DEF A
<1> QED BY <1>2, <1>3, <1>4

LEMMA InitPlaces == Init => PlacesBound
<1> SUFFICES ASSUME Init, NEW i \in Nat, NEW u \in Users
             PROVE  Places(i, u) <= Cardinality(Clients)
  BY DEF PlacesBound
<1>1. Rows(i, u) = {} /\ Adding(i, u) = {}
  BY DEF Init, Rows, Adding
<1> QED BY <1>1, FS_EmptySet, FS_CardinalityType, MembershipAssumption DEF Places

\* The insert of a request takes the place that its check promised.
LEMMA InsertPlaces ==
  ASSUME TypeInv, NEW i \in Nat, NEW u \in Users, Places(i, u) <= Cardinality(Clients),
         InsertMember(i, u), NEW c \in Adding(i, u), Adding(i, u)' = Adding(i, u) \ {c}
  PROVE  (Places(i, u) <= Cardinality(Clients))'
<1> DEFINE m == [id |-> lastMember + 1, group |-> i, user |-> u]
<1>1. Rows(i, u)' = Rows(i, u) \cup {m}
  BY DEF InsertMember, Rows
<1>2. /\ Cardinality(Rows(i, u)') <= Cardinality(Rows(i, u)) + 1
      /\ Cardinality(Rows(i, u)') \in Nat
  <2>1. IsFiniteSet(Rows(i, u)) /\ Cardinality(Rows(i, u)) \in Nat
    BY PlacesTypes
  <2>2. \/ Cardinality(Rows(i, u) \cup {m}) = Cardinality(Rows(i, u))
        \/ Cardinality(Rows(i, u) \cup {m}) = Cardinality(Rows(i, u)) + 1
    BY <2>1, FS_AddElement
  <2> QED BY <1>1, <2>1, <2>2
<1>3. Cardinality(Adding(i, u)') = Cardinality(Adding(i, u)) - 1
  BY PlacesTypes, FS_RemoveElement
<1> QED BY <1>2, <1>3, PlacesTypes DEF Places

LEMMA StepPlaces ==
  ASSUME TypeInv, PlacesBound, NEW c \in Clients, Step(c), NEW i \in Nat, NEW u \in Users
  PROVE  (Places(i, u) <= Cardinality(Clients))'
<1> USE DEF TypeInv, MembTypeOK, At, Go, Goto, Reply, Throw, Settle
<1>0. Places(i, u) <= Cardinality(Clients)
  BY DEF PlacesBound
<1>1. CASE Rows(i, u)' \subseteq Rows(i, u) /\ Adding(i, u)' \subseteq Adding(i, u)
  BY <1>0, <1>1, PlacesShrink
\* A group is new, and nobody is a member of it yet.
<1>2. CASE CreateGroup(c)
  <2>1. CASE i = lastGroup + 1
    <3>1. Rows(i, u)' = {}
      BY <1>2, <2>1 DEF CreateGroup, Rows, IdsFresh, GroupIds, Member, Group, Ids
    <3> QED BY <3>1, PlacesEmpty
  <2>2. CASE i # lastGroup + 1
    <3>1. Rows(i, u)' = Rows(i, u) /\ Adding(i, u)' \subseteq Adding(i, u)
      BY <1>2, <2>2 DEF CreateGroup, Rows, Adding
    <3> QED BY <1>1, <3>1
  <2> QED BY <2>1, <2>2
\* Nobody whom the check finds is promised another row.
<1>3. CASE CheckMember(c)
  <2>1. CASE asked[c].group = i /\ asked[c].user = u /\ Rows(i, u) = {}
    <3>1. Rows(i, u)' = {}
      BY <1>3, <2>1 DEF CheckMember, tables, Rows
    <3> QED BY <3>1, PlacesEmpty
  <2>2. CASE ~(asked[c].group = i /\ asked[c].user = u /\ Rows(i, u) = {})
    <3>1. Rows(i, u)' = Rows(i, u) /\ Adding(i, u)' \subseteq Adding(i, u)
      BY <1>3, <2>2 DEF CheckMember, tables, Rows, Adding
    <3> QED BY <1>1, <3>1
  <2> QED BY <2>1, <2>2
<1>4. CASE AddMember(c) \/ AddOwner(c)
  <2> DEFINE owner == pc[c] = "addOwner"
             j == IF owner THEN found[c] ELSE asked[c].group
             v == IF owner THEN asked[c].actor ELSE asked[c].user
  <2>1. Adding(i, u)' = IF i = j /\ u = v THEN Adding(i, u) \ {c} ELSE Adding(i, u)
    BY <1>4 DEF AddMember, AddOwner, Adding
  <2>2. i = j /\ u = v => c \in Adding(i, u)
    BY <1>4 DEF AddMember, AddOwner, Adding
  <2>3. InsertMember(j, v) \/ members' = members
    BY <1>4 DEF AddMember, AddOwner
  <2> HIDE DEF j, v
  <2>4. CASE i = j /\ u = v /\ InsertMember(j, v)
    BY <1>0, <2>1, <2>2, <2>4, InsertPlaces
  <2>5. CASE ~(i = j /\ u = v) /\ InsertMember(j, v)
    <3>1. Rows(i, u)' = Rows(i, u)
      BY <2>5 DEF InsertMember, Rows
    <3> QED BY <1>1, <2>1, <2>5, <3>1
  <2>6. CASE members' = members
    BY <1>1, <2>1, <2>6 DEF Rows
  <2> QED BY <2>3, <2>4, <2>5, <2>6
<1>5. ASSUME \/ HookGroup(c) \/ HookRoles(c) \/ TaskHandler(c) \/ FindName(c) \/ FindUser(c)
             \/ RemoveFindGroup(c) \/ RemoveRoles(c) \/ ReadRoles(c) \/ AddFindGroup(c)
             \/ DropFindGroup(c) \/ FindMember(c, "addFindMember", "insertRole")
             \/ FindMember(c, "dropFindMember", "deleteRole")
      PROVE  Rows(i, u)' \subseteq Rows(i, u) /\ Adding(i, u)' \subseteq Adding(i, u)
  <2>1. Rows(i, u)' = Rows(i, u)
    BY <1>5 DEF HookGroup, HookRoles, TaskHandler, FindName, FindUser, RemoveFindGroup, RemoveRoles,
       ReadRoles, AddFindGroup, DropFindGroup, FindMember, tables, Rows
  <2>2. CASE Reply(c) \/ Throw(c)
    BY <2>1, <2>2 DEF Adding
  <2>3. CASE HookGroup(c) \/ HookRoles(c)
    <3>1. pc'[c] \notin {"addMember", "addOwner"}
      BY <2>3 DEF HookGroup, HookRoles, Handler
    <3>2. \A d \in Clients : d # c => pc'[d] = pc[d] /\ asked'[d] = asked[d] /\ found'[d] = found[d]
      BY <2>3 DEF HookGroup, HookRoles
    <3> QED BY <2>1, <3>1, <3>2 DEF Adding
  <2>4. CASE ~(Reply(c) \/ Throw(c)) /\ ~(HookGroup(c) \/ HookRoles(c))
    <3>1. pc'[c] \notin {"addMember", "addOwner"}
      BY <1>5, <2>4 DEF TaskHandler, FindName, FindUser, RemoveFindGroup, RemoveRoles, ReadRoles,
                        AddFindGroup, DropFindGroup, FindMember
    <3>2. \A d \in Clients : d # c => pc'[d] = pc[d] /\ asked'[d] = asked[d] /\ found'[d] = found[d]
      BY <1>5, <2>4 DEF TaskHandler, FindName, FindUser, RemoveFindGroup, RemoveRoles, ReadRoles,
                        AddFindGroup, DropFindGroup, FindMember
    <3> QED BY <2>1, <3>1, <3>2 DEF Adding
  <2> QED BY <2>2, <2>3, <2>4
<1>6. ASSUME DeleteGroup(c) \/ DeleteMember(c) \/ InsertRole(c) \/ DeleteRole(c)
      PROVE  Rows(i, u)' \subseteq Rows(i, u) /\ Adding(i, u)' \subseteq Adding(i, u)
  <2>1. members' \subseteq members /\ (Reply(c) \/ Throw(c))
    BY <1>6 DEF DeleteGroup, DeleteMember, InsertRole, DeleteRole
  <2> QED BY <2>1 DEF Rows, Adding
<1> QED BY <1>1, <1>2, <1>3, <1>4, <1>5, <1>6 DEF Step

LEMMA NextPlaces == TypeInv /\ PlacesBound /\ [Next]_vars => PlacesBound'
<1> SUFFICES ASSUME TypeInv, PlacesBound, [Next]_vars, NEW i \in Nat, NEW u \in Users
             PROVE  (Places(i, u) <= Cardinality(Clients))'
  BY DEF PlacesBound
<1>1. ASSUME NEW c \in Clients, Step(c)
      PROVE  (Places(i, u) <= Cardinality(Clients))'
  BY <1>1, StepPlaces
<1>2. ASSUME ~ \E c \in Clients : Step(c)
      PROVE  Rows(i, u)' \subseteq Rows(i, u) /\ Adding(i, u)' \subseteq Adding(i, u)
  BY <1>2 DEF Next, Ask, Crash, Goto, vars, tables, locals, Rows, Adding, TypeInv, MembTypeOK
<1> QED BY <1>1, <1>2, PlacesShrink DEF PlacesBound

\* However many requests find that a user is no member before any of them adds
\* it, the user has a row for each of them at most.
THEOREM MembershipsBounded == Spec => []MembershipBound
<1>1. TypeInv /\ PlacesBound => MembershipBound
  <2> SUFFICES ASSUME TypeInv, PlacesBound, NEW i \in GroupIds, NEW u \in Users
               PROVE  Cardinality(Rows(i, u)) <= Cardinality(Clients)
    BY DEF MembershipBound
  <2>1. i \in Nat
    BY DEF GroupIds, TypeInv, MembTypeOK, Group, Ids
  <2> QED BY <2>1, PlacesTypes DEF PlacesBound, Places
<1> QED BY <1>1, InitType, NextType, InitPlaces, NextPlaces, PTL DEF Spec

-----------------------------------------------------------------------------
(* Whose requests change managers *)

\* A role of ROLES that comes or goes in this step.
Changed(r) == r \in (roles \ roles') \cup (roles' \ roles) /\ r.role \in ROLES
ByOwner(r) ==
  \E m \in members : m.id = r.member /\ \E u \in Users : Owns(u, m.group) /\ By(u)

\* A request that knows to be the owner's settles by the change it makes.
LEMMA OwnersChange ==
  ASSUME TypeInv, NEW c \in Clients, OwnsAsked(c), pc[c] # "idle", Reply(c),
         NEW m \in members, m.group = asked[c].group
  PROVE  \E u \in Users : Owns(u, m.group) /\ By(u)
<1>1. asked[c].actor \in Users
  BY DEF TypeInv, Served
<1>2. Owns(asked[c].actor, m.group)
  BY DEF Owns, OwnsAsked, TypeInv, MembTypeOK, GroupIds
<1>3. By(asked[c].actor)
  BY DEF By, Reply, Settle, Goto, TypeInv, MembTypeOK
<1> QED BY <1>1, <1>2, <1>3

LEMMA StepManagers ==
  ASSUME TypeInv, OwnerInv, NEW c \in Clients, Step(c), NEW r, Changed(r)
  PROVE  ByOwner(r)
<1>0. roles \subseteq UserRole /\ \A x \in roles : \E m \in members : m.id = x.member
  BY DEF TypeInv, MembTypeOK
<1>1. \/ DeleteGroup(c) \/ DeleteMember(c) \/ InsertRole(c) \/ DeleteRole(c)
  BY DEF Step, HookGroup, HookRoles, TaskHandler, FindName, CreateGroup, AddOwner,
         FindUser, CheckMember, AddMember, RemoveFindGroup, RemoveRoles, ReadRoles, AddFindGroup,
         FindMember, DropFindGroup, tables, Changed
<1>2. CASE DeleteGroup(c) \/ DeleteMember(c)
  <2> DEFINE gone == IF DeleteGroup(c) THEN {m \in members : m.group = asked[c].group}
                                       ELSE Rows(asked[c].group, asked[c].user)
  <2>1. roles' = RolesWithout(gone) /\ Reply(c)
    BY <1>2 DEF DeleteGroup, DeleteMember, Changed
  <2>2. PICK m \in gone : m.id = r.member
    BY <2>1 DEF RolesWithout, Changed
  <2>3. m \in members /\ m.group = asked[c].group
    BY <2>2 DEF Rows
  <2>4. OwnsAsked(c) /\ pc[c] # "idle"
    BY <1>2 DEF DeleteGroup, DeleteMember, At, OwnerInv, Known
  <2> QED BY <2>1, <2>2, <2>3, <2>4, OwnersChange DEF ByOwner
<1>3. CASE InsertRole(c) \/ DeleteRole(c)
  <2>1. r = [member |-> found[c], role |-> asked[c].role] /\ Reply(c)
    BY <1>3 DEF InsertRole, DeleteRole, Changed
  <2>2. PICK m \in members : m.id = found[c]
    BY <1>0, <1>3, <2>1 DEF InsertRole, DeleteRole, Changed
  <2>3. asked[c].role \in ROLES /\ r.member = found[c]
    BY <2>1 DEF Changed
  <2>4. m.group = asked[c].group /\ OwnsAsked(c) /\ pc[c] # "idle"
    BY <1>3, <2>2, <2>3 DEF InsertRole, DeleteRole, At, OwnerInv, Known
  <2> QED BY <2>1, <2>2, <2>3, <2>4, OwnersChange DEF ByOwner
<1> QED BY <1>1, <1>2, <1>3

\* In no order of requests does anybody but the owner of a group make or unmake
\* its managers.
THEOREM ManagersByOwners == Spec => ManagersAreTheOwners
<1> DEFINE A == \A r \in (roles \ roles') \cup (roles' \ roles) :
                  r.role \in ROLES =>
                    \E m \in members :
                      m.id = r.member /\ \E u \in Users : Owns(u, m.group) /\ By(u)
<1>1. TypeInv /\ OwnerInv /\ [Next]_vars => [A]_vars
  <2> SUFFICES ASSUME TypeInv, OwnerInv, [Next]_vars, NEW r, Changed(r)
               PROVE  ByOwner(r)
    BY DEF Changed, ByOwner
  <2>1. PICK c \in Clients : Step(c)
    BY DEF Next, Ask, Crash, vars, tables, Changed
  <2> QED BY <2>1, StepManagers
<1>2. ManagersAreTheOwners <=> [][A]_vars
  BY DEF ManagersAreTheOwners
<1> HIDE DEF A
<1> QED BY <1>1, <1>2, InitType, NextType, InitOwner, NextOwner, PTL DEF Spec
=============================================================================
