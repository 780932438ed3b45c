------------------------------ MODULE AccountDb ------------------------------
EXTENDS Naturals

(***************************************************************************)
(* The account tables of the console server.  The server process keeps two *)
(* copies (the configuration DB and the operation DB) and each handler     *)
(* process keeps one.  The three Python classes repeat the same methods;   *)
(* here one set of operators serves all of them.                           *)
(*                                                                         *)
(* A table is a record with at least these fields:                         *)
(*   users   the keys of _user_dict                                        *)
(*   groups  the keys of _group_dict                                       *)
(*   member  the pairs <<user, group>> with group in the user's group_list *)
(*   ports   the pairs <<port, group>> with group in the port's group_list *)
(* A group_list never holds a name twice and nothing depends on its order  *)
(* except which of two errors is met first, so a set of pairs stands for   *)
(* all of them.  An operation that returns an error leaves the table       *)
(* alone: CanX is its SUCCESS condition and X its effect.                  *)
(***************************************************************************)

CanCreateGroup(db, g) == g \notin db.groups

CreateGroupIn(db, g) == [db EXCEPT !.groups = @ \cup {g}]

CanDestroyGroup(db, g) == g \in db.groups

(* Nothing but the key goes: a group_list that still names g keeps it. *)
DestroyGroupIn(db, g) == [db EXCEPT !.groups = @ \ {g}]

CanAddUser(db, u, g) == u \notin db.users /\ g \in db.groups

(* Wrong on purpose: the two arguments of the membership swapped. *)
AddUserSwapped(db, u, g) ==
    [db EXCEPT !.users = @ \cup {u}, !.member = @ \cup {<<g, u>>}]

AddUserIn(db, u, g) ==
    [db EXCEPT !.users = @ \cup {u}, !.member = @ \cup {<<u, g>>}]

CanDelUser(db, u) == u \in db.users

DelUserIn(db, u) ==
    [db EXCEPT !.users = @ \ {u}, !.member = {m \in @ : m[1] # u}]

(* Joining does not ask whether the group exists. *)
CanJoin(db, u, g) == u \in db.users /\ <<u, g>> \notin db.member

JoinIn(db, u, g) == [db EXCEPT !.member = @ \cup {<<u, g>>}]

CanLeave(db, u, g) == u \in db.users /\ <<u, g>> \in db.member

LeaveIn(db, u, g) == [db EXCEPT !.member = @ \ {<<u, g>>}]

CanPortJoin(db, p, g) == <<p, g>> \notin db.ports

PortJoinIn(db, p, g) == [db EXCEPT !.ports = @ \cup {<<p, g>>}]

(* "The group still has the user" / "The group still has the serial port" *)
InUse(db, g) ==
    \/ \E m \in db.member : m[2] = g
    \/ \E m \in db.ports : m[2] = g

-----------------------------------------------------------------------------
(* Messages of the server, applied by a handler. *)

(* What a handler's function for a message does to its table. *)
Succeeds(db, m) ==
    \/ m.kind = "create_group"  /\ CanCreateGroup(db, m.group)
    \/ m.kind = "destroy_group" /\ ~InUse(db, m.group) /\ CanDestroyGroup(db, m.group)
    \/ m.kind = "add_user"      /\ CanAddUser(db, m.user, m.group)
    \/ m.kind = "del_user"      /\ CanDelUser(db, m.user)
    \/ m.kind = "user_join"     /\ CanJoin(db, m.user, m.group)
    \/ m.kind = "user_leave"    /\ CanLeave(db, m.user, m.group)
    \/ m.kind = "port_join"     /\ CanPortJoin(db, m.port, m.group)

(* Wrong on purpose: the leave calls the join, as                          *)
(* _process_port_leave_group does for ports.                               *)
EffectLeaveJoins(db, m) ==
    CASE m.kind = "create_group"  -> CreateGroupIn(db, m.group)
      [] m.kind = "destroy_group" -> DestroyGroupIn(db, m.group)
      [] m.kind = "add_user"      -> AddUserIn(db, m.user, m.group)
      [] m.kind = "del_user"      -> DelUserIn(db, m.user)
      [] m.kind \in {"user_join", "user_leave"} -> JoinIn(db, m.user, m.group)
      [] m.kind = "port_join"     -> PortJoinIn(db, m.port, m.group)

Effect(db, m) ==
    CASE m.kind = "create_group"  -> CreateGroupIn(db, m.group)
      [] m.kind = "destroy_group" -> DestroyGroupIn(db, m.group)
      [] m.kind = "add_user"      -> AddUserIn(db, m.user, m.group)
      [] m.kind = "del_user"      -> DelUserIn(db, m.user)
      [] m.kind = "user_join"     -> JoinIn(db, m.user, m.group)
      [] m.kind = "user_leave"    -> LeaveIn(db, m.user, m.group)
      [] m.kind = "port_join"     -> PortJoinIn(db, m.port, m.group)

-----------------------------------------------------------------------------
(***************************************************************************)
(* Roles.  "other" stands for every string that names no role: only        *)
(* modify_group stores one, since it does not validate its argument.       *)
(***************************************************************************)
NoRole == ""

ValidRoles == {"admin", "operator", "console_user"}

RoleNames == ValidRoles \cup {"invalid_role", "other", NoRole}

(* UserRolePriorityDict: looking up a name outside its domain raises. *)
Priority == [admin |-> 0, operator |-> 1, console_user |-> 2, invalid_role |-> 3]

GroupsOf(db, u) == {g \in {m[2] : m \in db.member} : <<u, g>> \in db.member}

(***************************************************************************)
(* _sync_user_role: an explicit role wins, otherwise the strongest role of *)
(* the user's groups.  It fails on a missing user, a missing group or when *)
(* no group gives a valid role, and raises on a group whose role is not a  *)
(* key of the priority dictionary; when a list holds both kinds of group   *)
(* the first one met decides.                                              *)
(***************************************************************************)
SyncOutcomes(db, u) ==
    LET gs      == GroupsOf(db, u)
        missing == gs \ db.groups
        unknown == {g \in gs \cap db.groups : db.groupRole[g] \notin DOMAIN Priority}
        usable  == {g \in gs \cap db.groups : db.groupRole[g] \in ValidRoles}
    IN  IF u \notin db.users THEN {"fail"}
        ELSE IF db.role[u] # NoRole THEN {"ok"}
        ELSE IF missing # {} \/ unknown # {}
             THEN (IF missing # {} THEN {"fail"} ELSE {})
                  \cup (IF unknown # {} THEN {"raise"} ELSE {})
        ELSE IF usable = {} THEN {"fail"} ELSE {"ok"}

(* Wrong on purpose: the comparison of the priorities reversed. *)
SyncedRoleWeakest(db, u) ==
    LET roles == {db.groupRole[g] : g \in GroupsOf(db, u)}
    IN  IF db.role[u] # NoRole THEN db.role[u]
        ELSE CHOOSE r \in roles : \A s \in roles : Priority[r] >= Priority[s]

SyncedRole(db, u) ==
    LET roles == {db.groupRole[g] : g \in GroupsOf(db, u)}
    IN  IF db.role[u] # NoRole THEN db.role[u]
        ELSE CHOOSE r \in roles : \A s \in roles : Priority[r] <= Priority[s]

=============================================================================
