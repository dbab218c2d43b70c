------------------------------ MODULE Membership ------------------------------
(***************************************************************************)
(* AuthorizationService, its hooks and its daos                            *)
(* (src/plugins/authorization): groups, their members, and the roles of a  *)
(* member in a group.                                                      *)
(*                                                                         *)
(* A request is let in by a hook, which reads the group and then the roles *)
(* of the asking user; its handler reads again and writes.  Every query is *)
(* awaited, so anything that was read may have changed at the next query.  *)
(* Foreign keys cascade from groups to user_groups to user_roles and       *)
(* refuse rows that refer to nothing; user_groups has no unique key, so a  *)
(* user may be a member twice.                                             *)
(***************************************************************************)
EXTENDS Naturals, FiniteSets

CONSTANTS Clients,      \* requests that may be under way at once
          Users,        \* ids of users; none is ever deleted
          Names,        \* names of groups
          RoleNames,    \* rows of table roles
          NoUser,       \* nobody: an id that table users has not
          NoName, NoRole,
          Menu,         \* bound: who asks what of whom, as <<op, actor, user, role>>
          MaxGroupId,   \* bound: ids that AUTOINCREMENT hands out to groups
          MaxMemberId   \* bound: ... and to user_groups


VARIABLES groups,       \* rows of table groups
          members,      \* rows of table user_groups
          roles,        \* rows of table user_roles, with the role's name
          lastGroup, lastMember,   \* sqlite_sequence
          told,         \* groups whose creator was told of them
          pc,           \* per client: the query it awaits
          asked,        \* per client: the request
          found,        \* per client: the id it has read, of a group or a member
          has           \* per client: whether the user had the role when read

tables == <<groups, members, roles, lastGroup, lastMember, told>>
locals == <<pc, asked, found, has>>
vars == <<tables, locals>>

Ids == Nat \ {0}
Group == [id : Ids, name : Names, owner : Users]
Member == [id : Ids, group : Ids, user : Users]
UserRole == [member : Ids, role : RoleNames]

Ops == {"createGroup", "deleteGroup", "addUser", "removeUser", "addRole",
        "removeRole", "manageTask", "viewTask", "viewMetrics"}
AnyUser == Users \cup {NoUser}
AnyRole == RoleNames \cup {NoRole}
Request == [op : Ops \cup {"none"}, actor : AnyUser, group : Nat, user : AnyUser, role : AnyRole,
            name : Names \cup {NoName}]
ASSUME MembershipAssumption ==
  /\ IsFiniteSet(Clients)
  /\ NoUser \notin Users /\ NoName \notin Names /\ NoRole \notin RoleNames
  /\ MaxGroupId \in Nat /\ MaxMemberId \in Nat
  /\ Menu \subseteq Ops \X Users \X AnyUser \X AnyRole
  \* The routes' schemas: a role is named, and so is who gets or loses it.
  /\ \A m \in Menu :
       /\ m[1] \in {"removeUser", "addRole", "removeRole"} => m[3] \in Users
       /\ m[1] \in {"addRole", "removeRole"} => m[4] \in RoleNames

NoRequest == [op |-> "none", actor |-> NoUser, group |-> 0, user |-> NoUser,
              role |-> NoRole, name |-> NoName]

Pcs == {"idle", "hookGroup", "hookRoles", "findName", "createGroup", "addOwner",
        "deleteGroup", "findUser", "checkMember", "addMember", "removeFindGroup", "removeRoles",
        "deleteMember", "readRoles", "addFindGroup", "addFindMember", "insertRole",
        "dropFindGroup", "dropFindMember", "deleteRole", "task"}

\* The roles that only the owner of a group gives and takes.
ROLES == {"group_manager", "role_manager"}

GroupIds == {g.id : g \in groups}
Owns(u, i) == \E g \in groups : g.id = i /\ g.owner = u
Rows(i, u) == {m \in members : m.group = i /\ m.user = u}

\* findByGroupAndUser: over all rows of the user in the group.
RolesOf(i, u) == {r.role : r \in {x \in roles : \E m \in Rows(i, u) : m.id = x.member}}

\* role_permissions, as the migration fills it, for the routes of tasks.
TaskPermits(role, op) ==
  op \in CASE role = "task_manager" -> {"manageTask", "viewTask"}
           [] role = "task_viewer" -> {"viewTask"}
           [] role = "metric_viewer" -> {"viewMetrics"}
           [] OTHER -> {}

Init ==
  /\ groups = {} /\ members = {} /\ roles = {} /\ told = {}
  /\ lastGroup = 0 /\ lastMember = 0
  /\ pc = [c \in Clients |-> "idle"]
  /\ asked = [c \in Clients |-> NoRequest]
  /\ found = [c \in Clients |-> 0]
  /\ has = [c \in Clients |-> FALSE]

-----------------------------------------------------------------------------
At(c, p) == pc[c] = p
Goto(c, p) == pc' = [pc EXCEPT ![c] = p]
Go(c, p) == Goto(c, p) /\ UNCHANGED <<asked, found, has>>

Settle(c) ==
  /\ Goto(c, "idle")
  /\ asked' = [asked EXCEPT ![c] = NoRequest]
  /\ found' = [found EXCEPT ![c] = 0]
  /\ has' = [has EXCEPT ![c] = FALSE]
\* A reply of 200 to 409: done, denied, not found, in conflict.
Reply(c) == Settle(c)
\* An exception that no handler expects: 500.
Throw(c) == Settle(c)

\* The routes; the token of a request names its user.
Ask(c, request) ==
  /\ At(c, "idle")
  /\ Goto(c, IF request.op = "createGroup" THEN "findName" ELSE "hookGroup")
  /\ asked' = [asked EXCEPT ![c] = request]
  /\ UNCHANGED <<tables, found, has>>

-----------------------------------------------------------------------------
(* Hooks *)

\* Where the handler that a hook lets in begins.
Handler(op) ==
  CASE op = "deleteGroup" -> "deleteGroup"
    [] op = "addUser" -> "findUser"
    [] op = "removeUser" -> "removeFindGroup"
    [] op = "addRole" -> "readRoles"
    [] op = "removeRole" -> "dropFindGroup"
    [] OTHER -> "task"

\* isGroupOwnerThrowable; groupOwnerHook looks no further.
HookGroup(c) ==
  /\ At(c, "hookGroup")
  /\ LET r == asked[c]
     IN  \/ r.group \notin GroupIds /\ Reply(c)
         \/ Owns(r.actor, r.group) /\ Go(c, Handler(r.op))
         \/ /\ r.group \in GroupIds /\ ~Owns(r.actor, r.group)
            /\ IF r.op = "deleteGroup" THEN Reply(c) ELSE Go(c, "hookRoles")
  /\ UNCHANGED tables

\* roleHook for members and roles, permissionHook for tasks.
LetIn(op, rs) ==
  CASE op \in {"addUser", "removeUser"} -> "group_manager" \in rs
    [] op \in {"addRole", "removeRole"} -> "role_manager" \in rs
    [] OTHER -> \E role \in rs : TaskPermits(role, op)

HookRoles(c) ==
  /\ At(c, "hookRoles")
  /\ LET r == asked[c]
     IN  IF LetIn(r.op, RolesOf(r.group, r.actor)) THEN Go(c, Handler(r.op)) ELSE Reply(c)
  /\ UNCHANGED tables

\* The handlers of tasks are in TaskLifecycle.
TaskHandler(c) == At(c, "task") /\ Reply(c) /\ UNCHANGED tables

-----------------------------------------------------------------------------
(* createGroup, deleteGroup *)

FindName(c) ==
  /\ At(c, "findName")
  /\ IF \E g \in groups : g.name = asked[c].name THEN Reply(c) ELSE Go(c, "createGroup")
  /\ UNCHANGED tables

\* The insert, which the unique key of the name may refuse.
CreateGroup(c) ==
  /\ At(c, "createGroup")
  /\ \/ /\ \E g \in groups : g.name = asked[c].name
        /\ Throw(c)
        /\ UNCHANGED <<groups, lastGroup>>
     \/ /\ \A g \in groups : g.name # asked[c].name
        /\ lastGroup < MaxGroupId
        /\ lastGroup' = lastGroup + 1
        /\ groups' = groups \cup {[id |-> lastGroup + 1, name |-> asked[c].name,
                                   owner |-> asked[c].actor]}
        /\ Goto(c, "addOwner")
        /\ found' = [found EXCEPT ![c] = lastGroup + 1]
        /\ UNCHANGED <<asked, has>>
  /\ UNCHANGED <<members, roles, lastMember, told>>

\* dao.addUser: a row is made while its group exists.
InsertMember(i, u) ==
  /\ lastMember < MaxMemberId
  /\ lastMember' = lastMember + 1
  /\ members' = members \cup {[id |-> lastMember + 1, group |-> i, user |-> u]}

\* The second insert of createGroup: nothing joins it with the first one.
AddOwner(c) ==
  /\ At(c, "addOwner")
  /\ \/ /\ found[c] \in GroupIds
        /\ InsertMember(found[c], asked[c].actor)
        /\ told' = told \cup {found[c]}
        /\ Reply(c)
     \/ /\ found[c] \notin GroupIds
        /\ Throw(c)
        /\ UNCHANGED <<members, lastMember, told>>
  /\ UNCHANGED <<groups, roles, lastGroup>>

\* Mutant of RolesWithout: the key of user_roles does not cascade.
RolesKept(gone) == roles

\* The rows that are left when those of a set of members go.
RolesWithout(gone) == {r \in roles : \A m \in gone : m.id # r.member}

\* The delete and its cascades; tasks of the group refuse it.
DeleteGroup(c) ==
  /\ At(c, "deleteGroup")
  /\ LET i == asked[c].group
         gone == {m \in members : m.group = i}
     IN  \/ /\ groups' = {g \in groups : g.id # i}
            /\ members' = members \ gone
            /\ roles' = RolesWithout(gone)
            /\ Reply(c)
         \/ i \in GroupIds /\ Throw(c) /\ UNCHANGED <<groups, members, roles>>
  /\ UNCHANGED <<lastGroup, lastMember, told>>

-----------------------------------------------------------------------------
(* addUserToGroup *)

\* userService.findById: who is added exists, or the reply is 404.
FindUser(c) ==
  /\ At(c, "findUser")
  /\ IF asked[c].user \in Users THEN Go(c, "checkMember") ELSE Reply(c)
  /\ UNCHANGED tables

\* Mutant of CheckMember: addUserToGroup asks nothing before it adds.
CheckMemberNot(c) ==
  At(c, "checkMember") /\ Go(c, "addMember") /\ UNCHANGED tables

\* checkUserInGroup.
CheckMember(c) ==
  /\ At(c, "checkMember")
  /\ IF Rows(asked[c].group, asked[c].user) # {} THEN Reply(c) ELSE Go(c, "addMember")
  /\ UNCHANGED tables

AddMember(c) ==
  /\ At(c, "addMember")
  /\ \/ /\ asked[c].group \in GroupIds
        /\ InsertMember(asked[c].group, asked[c].user)
        /\ Reply(c)
     \/ /\ asked[c].group \notin GroupIds
        /\ Throw(c)
        /\ UNCHANGED <<members, lastMember>>
  /\ UNCHANGED <<groups, roles, lastGroup, told>>

-----------------------------------------------------------------------------
(* deleteUserFromGroup *)

\* Mutant of IsSelf: managerId is not compared with userId.
IsSelfNever(c) == FALSE

\* managerId === userId
IsSelf(c) == asked[c].actor = asked[c].user

\* The comparison, then findById; a group that is gone has no ownerId to read.
RemoveFindGroup(c) ==
  /\ At(c, "removeFindGroup")
  /\ LET r == asked[c]
     IN  \/ IsSelf(c) /\ Reply(c)
         \/ ~IsSelf(c) /\ r.group \notin GroupIds /\ Throw(c)
         \/ /\ ~IsSelf(c) /\ r.group \in GroupIds
            /\ Go(c, IF Owns(r.actor, r.group) THEN "deleteMember" ELSE "removeRoles")
  /\ UNCHANGED tables

\* findByGroupAndUser, then ROLES.some(roles.includes): `includes` is called
\* without its array and throws a TypeError, whatever the roles are.
RemoveRoles(c) == At(c, "removeRoles") /\ Throw(c) /\ UNCHANGED tables

\* The delete of all rows of the user in the group, and its cascade.
DeleteMember(c) ==
  /\ At(c, "deleteMember")
  /\ LET gone == Rows(asked[c].group, asked[c].user)
     IN  members' = members \ gone /\ roles' = RolesWithout(gone)
  /\ Reply(c)
  /\ UNCHANGED <<groups, lastGroup, lastMember, told>>

-----------------------------------------------------------------------------
(* addUserRole *)

\* The comparison, then findByGroupAndUser.
ReadRoles(c) ==
  /\ At(c, "readRoles")
  /\ LET r == asked[c]
     IN  \/ IsSelf(c) /\ Reply(c)
         \/ /\ ~IsSelf(c)
            /\ Goto(c, "addFindGroup")
            /\ has' = [has EXCEPT ![c] = r.role \in RolesOf(r.group, r.user)]
            /\ UNCHANGED <<asked, found>>
  /\ UNCHANGED tables

\* findById; for anyone but the owner ROLES.some throws as above.
AddFindGroup(c) ==
  /\ At(c, "addFindGroup")
  /\ \/ ~Owns(asked[c].actor, asked[c].group) /\ Throw(c)
     \/ Owns(asked[c].actor, asked[c].group) /\ has[c] /\ Reply(c)
     \/ Owns(asked[c].actor, asked[c].group) /\ ~has[c] /\ Go(c, "addFindMember")
  /\ UNCHANGED tables

\* findUserGroup: any one row of the user in the group, which may be none.
FindMember(c, p, next) ==
  /\ At(c, p)
  /\ LET rows == Rows(asked[c].group, asked[c].user)
     IN  \/ rows = {} /\ Throw(c)
         \/ \E m \in rows :
              /\ Goto(c, next)
              /\ found' = [found EXCEPT ![c] = m.id]
              /\ UNCHANGED <<asked, has>>
  /\ UNCHANGED tables

\* dao.add: a row is made while its member exists.
InsertRole(c) ==
  /\ At(c, "insertRole")
  /\ IF \E m \in members : m.id = found[c]
       THEN /\ roles' = roles \cup {[member |-> found[c], role |-> asked[c].role]}
            /\ Reply(c)
       ELSE Throw(c) /\ UNCHANGED roles
  /\ UNCHANGED <<groups, members, lastGroup, lastMember, told>>

-----------------------------------------------------------------------------
(* deleteUserRole *)

\* Mutant of MayDrop: every role is anybody's who may manage roles.
MayDropAny(c) == TRUE

MayDrop(c) ==
  Owns(asked[c].actor, asked[c].group) \/ asked[c].role \notin ROLES

\* The comparison, then findById.
DropFindGroup(c) ==
  /\ At(c, "dropFindGroup")
  /\ \/ IsSelf(c) /\ Reply(c)
     \/ ~IsSelf(c) /\ asked[c].group \notin GroupIds /\ Throw(c)
     \/ /\ ~IsSelf(c) /\ asked[c].group \in GroupIds
        /\ IF MayDrop(c) THEN Go(c, "dropFindMember") ELSE Reply(c)
  /\ UNCHANGED tables

DeleteRole(c) ==
  /\ At(c, "deleteRole")
  /\ roles' = roles \ {[member |-> found[c], role |-> asked[c].role]}
  /\ Reply(c)
  /\ UNCHANGED <<groups, members, lastGroup, lastMember, told>>

-----------------------------------------------------------------------------
\* The process dies and starts again; the tables stay.
Crash ==
  /\ pc' = [c \in Clients |-> "idle"]
  /\ asked' = [c \in Clients |-> NoRequest]
  /\ found' = [c \in Clients |-> 0]
  /\ has' = [c \in Clients |-> FALSE]
  /\ UNCHANGED tables

\* What a route can be asked with, as far as the menu offers it.
Requests ==
  LET R(m, i, name) == [op |-> m[1], actor |-> m[2], group |-> i, user |-> m[3],
                        role |-> m[4], name |-> name]
      Creates == {m \in Menu : m[1] = "createGroup"}
  IN  {R(m, 0, n) : m \in Creates, n \in Names}
      \cup {R(m, i, NoName) : m \in Menu \ Creates, i \in 1 .. lastGroup}

Step(c) ==
  \/ HookGroup(c) \/ HookRoles(c) \/ TaskHandler(c)
  \/ FindName(c) \/ CreateGroup(c) \/ AddOwner(c) \/ DeleteGroup(c)
  \/ FindUser(c) \/ CheckMember(c) \/ AddMember(c)
  \/ RemoveFindGroup(c) \/ RemoveRoles(c) \/ DeleteMember(c)
  \/ ReadRoles(c) \/ AddFindGroup(c) \/ FindMember(c, "addFindMember", "insertRole")
  \/ InsertRole(c)
  \/ DropFindGroup(c) \/ FindMember(c, "dropFindMember", "deleteRole") \/ DeleteRole(c)

Next ==
  \/ \E c \in Clients : (\E request \in Requests : Ask(c, request)) \/ Step(c)
  \/ Crash

Spec == Init /\ [][Next]_vars

-----------------------------------------------------------------------------
\* Type invariant of the tables, with their foreign keys, and of the requests.
MembTypeOK ==
  /\ groups \subseteq Group /\ members \subseteq Member /\ roles \subseteq UserRole
  /\ lastGroup \in Nat /\ lastMember \in Nat
  /\ told \subseteq Ids
  /\ \A m \in members : m.group \in GroupIds
  /\ \A r \in roles : \E m \in members : m.id = r.member
  /\ pc \in [Clients -> Pcs] /\ asked \in [Clients -> Request]
  /\ found \in [Clients -> Nat]
  /\ has \in [Clients -> BOOLEAN]

\* Once its creator knows a group, the owner is a member of it for as long as
\* it exists: no manager's request and no other order of requests removes the
\* owner (createGroup; the tests of deleteUserFromGroup).
OwnerIsMember ==
  \A g \in groups : g.id \in told => Rows(g.id, g.owner) # {}

\* A user may become a member more than once, since checkUserInGroup and the
\* insert are two queries, but once per request at most.
MembershipBound ==
  \A i \in GroupIds, u \in Users : Cardinality(Rows(i, u)) <= Cardinality(Clients)

\* Whose request changes the roles in this step.
By(u) == \E c \in Clients : pc[c] # "idle" /\ pc'[c] = "idle" /\ asked[c].actor = u

\* A role that only the owner gives and takes ("User must be an owner to add /
\* remove this role") comes and goes by a request of the owner, the removal of
\* its member included; the checks are queries before the change.
ManagersAreTheOwners ==
  [][\A r \in (roles \ roles') \cup (roles' \ roles) :
       r.role \in ROLES =>
         \E m \in members : m.id = r.member /\ \E u \in Users : Owns(u, m.group) /\ By(u)]_vars
=============================================================================
