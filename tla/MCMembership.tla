---------------------------- MODULE MCMembership ----------------------------
(* Model values, symmetry and the requests of the runs of Membership.      *)
EXTENDS Membership, TLC

CONSTANTS u1, u2, u3

Sym == Permutations(Clients)

\* u1 creates the group; u2 comes to manage members and roles, u3 is managed.
MCMenu ==
  {<<"createGroup", u1, NoUser, NoRole>>, <<"deleteGroup", u1, NoUser, NoRole>>,
   <<"deleteGroup", u2, NoUser, NoRole>>,
   <<"manageTask", u1, NoUser, NoRole>>, <<"viewTask", u2, NoUser, NoRole>>,
   <<"addUser", u1, u2, NoRole>>, <<"addUser", u1, u3, NoRole>>,
   <<"addUser", u2, u3, NoRole>>, <<"addUser", u1, NoUser, NoRole>>,
   <<"removeUser", u1, u1, NoRole>>, <<"removeUser", u1, u2, NoRole>>,
   <<"removeUser", u2, u1, NoRole>>, <<"removeUser", u2, u3, NoRole>>,
   <<"addRole", u1, u2, "group_manager">>, <<"addRole", u1, u2, "role_manager">>,
   <<"addRole", u1, u3, "group_manager">>, <<"addRole", u2, u2, "group_manager">>,
   <<"addRole", u2, u3, "group_manager">>,
   <<"removeRole", u1, u2, "role_manager">>, <<"removeRole", u2, u3, "group_manager">>}
=============================================================================
