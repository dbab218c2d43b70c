SPECIFICATION Spec
CONSTANTS
  Clients = {c1, c2}
  Users = {u1, u2, u3}
  Names = {n}
  RoleNames = {"group_manager", "role_manager"}
  u1 = u1
  u2 = u2
  u3 = u3
  Menu <- MCMenu
  NoUser = NoUser
  NoName = NoName
  NoRole = NoRole
  MaxGroupId = 1
  MaxMemberId = 3
SYMMETRY Sym
INVARIANTS
  MembTypeOK
  OwnerIsMember
  MembershipBound
PROPERTIES
  ManagersAreTheOwners
