------------------------- MODULE ConsoleServerProofs -------------------------
(***************************************************************************)
(* Proofs about ConsoleServer for any number of handlers, users, groups,   *)
(* ports, descriptors and requests.                                        *)
(***************************************************************************)
EXTENDS ConsoleServerProperties, TLAPS

-----------------------------------------------------------------------------
(* The account operations keep the type of a table. *)

(* Each operation of the handler's tables returns a table. *)
LEMMA TableOperations ==
    ASSUME NEW db \in Tables
    PROVE  /\ \A g \in Groups : CreateGroupIn(db, g) \in Tables
           /\ \A g \in Groups : DestroyGroupIn(db, g) \in Tables
           /\ \A u \in Users, g \in Groups : AddUserIn(db, u, g) \in Tables
           /\ \A u \in Users : DelUserIn(db, u) \in Tables
           /\ \A u \in Users, g \in Groups : JoinIn(db, u, g) \in Tables
           /\ \A u \in Users, g \in Groups : LeaveIn(db, u, g) \in Tables
           /\ \A p \in Ports, g \in Groups : PortJoinIn(db, p, g) \in Tables
<1>1. ASSUME NEW g \in Groups PROVE CreateGroupIn(db, g) \in Tables
  BY <1>1 DEF Tables, CreateGroupIn
<1>2. ASSUME NEW g \in Groups PROVE DestroyGroupIn(db, g) \in Tables
  BY <1>2 DEF Tables, DestroyGroupIn
<1>3. ASSUME NEW u \in Users, NEW g \in Groups PROVE AddUserIn(db, u, g) \in Tables
  <2> DEFINE withUser == [db EXCEPT !.users = @ \cup {u}]
  <2>1. withUser \in Tables
    BY <1>3 DEF Tables
  <2>2. AddUserIn(db, u, g) = [withUser EXCEPT !.member = @ \cup {<<u, g>>}]
    BY DEF Tables, AddUserIn
  <2>3. \A d \in Tables : [d EXCEPT !.member = @ \cup {<<u, g>>}] \in Tables
    BY <1>3 DEF Tables
  <2> HIDE DEF withUser
  <2> QED BY <2>1, <2>2, <2>3
<1>4. ASSUME NEW u \in Users PROVE DelUserIn(db, u) \in Tables
  BY <1>4 DEF Tables, DelUserIn
<1>5. ASSUME NEW u \in Users, NEW g \in Groups PROVE JoinIn(db, u, g) \in Tables
  BY <1>5 DEF Tables, JoinIn
<1>6. ASSUME NEW u \in Users, NEW g \in Groups PROVE LeaveIn(db, u, g) \in Tables
  BY <1>6 DEF Tables, LeaveIn
<1>7. ASSUME NEW p \in Ports, NEW g \in Groups PROVE PortJoinIn(db, p, g) \in Tables
  BY <1>7 DEF Tables, PortJoinIn
<1> QED BY <1>1, <1>2, <1>3, <1>4, <1>5, <1>6, <1>7

(* The same for the server's tables. *)
LEMMA RoleTableOperations ==
    ASSUME NEW db \in RoleTables
    PROVE  /\ \A g \in Groups : CreateGroupIn(db, g) \in RoleTables
           /\ \A g \in Groups : DestroyGroupIn(db, g) \in RoleTables
           /\ \A u \in Users, g \in Groups : AddUserIn(db, u, g) \in RoleTables
           /\ \A u \in Users : DelUserIn(db, u) \in RoleTables
           /\ \A u \in Users, g \in Groups : JoinIn(db, u, g) \in RoleTables
           /\ \A u \in Users, g \in Groups : LeaveIn(db, u, g) \in RoleTables
           /\ \A p \in Ports, g \in Groups : PortJoinIn(db, p, g) \in RoleTables
           /\ \A u \in Users, r \in RoleNames : [db EXCEPT !.role[u] = r] \in RoleTables
           /\ \A g \in Groups, r \in RoleNames : [db EXCEPT !.groupRole[g] = r] \in RoleTables
<1>1. ASSUME NEW g \in Groups PROVE CreateGroupIn(db, g) \in RoleTables
  BY <1>1 DEF RoleTables, CreateGroupIn
<1>2. ASSUME NEW g \in Groups PROVE DestroyGroupIn(db, g) \in RoleTables
  BY <1>2 DEF RoleTables, DestroyGroupIn
<1>3. ASSUME NEW u \in Users, NEW g \in Groups PROVE AddUserIn(db, u, g) \in RoleTables
  <2> DEFINE withUser == [db EXCEPT !.users = @ \cup {u}]
  <2>1. withUser \in RoleTables
    BY <1>3 DEF RoleTables
  <2>2. AddUserIn(db, u, g) = [withUser EXCEPT !.member = @ \cup {<<u, g>>}]
    BY DEF RoleTables, AddUserIn
  <2>3. \A d \in RoleTables : [d EXCEPT !.member = @ \cup {<<u, g>>}] \in RoleTables
    BY <1>3 DEF RoleTables
  <2> HIDE DEF withUser
  <2> QED BY <2>1, <2>2, <2>3
<1>4. ASSUME NEW u \in Users PROVE DelUserIn(db, u) \in RoleTables
  BY <1>4 DEF RoleTables, DelUserIn
<1>5. ASSUME NEW u \in Users, NEW g \in Groups PROVE JoinIn(db, u, g) \in RoleTables
  BY <1>5 DEF RoleTables, JoinIn
<1>6. ASSUME NEW u \in Users, NEW g \in Groups PROVE LeaveIn(db, u, g) \in RoleTables
  BY <1>6 DEF RoleTables, LeaveIn
<1>7. ASSUME NEW p \in Ports, NEW g \in Groups PROVE PortJoinIn(db, p, g) \in RoleTables
  BY <1>7 DEF RoleTables, PortJoinIn
<1>8. ASSUME NEW u \in Users, NEW r \in RoleNames PROVE [db EXCEPT !.role[u] = r] \in RoleTables
  BY <1>8 DEF RoleTables
<1>9. ASSUME NEW g \in Groups, NEW r \in RoleNames PROVE [db EXCEPT !.groupRole[g] = r] \in RoleTables
  BY <1>9 DEF RoleTables
<1> QED BY <1>1, <1>2, <1>3, <1>4, <1>5, <1>6, <1>7, <1>8, <1>9

(* The synchronised role is the explicit one, or the strongest there is.   *)
LEMMA SyncedRoleType ==
    ASSUME NEW db \in RoleTables, NEW u \in Users, "ok" \in SyncOutcomes(db, u)
    PROVE  /\ SyncedRole(db, u) \in RoleNames
           /\ db.role[u] # NoRole => SyncedRole(db, u) = db.role[u]
           /\ db.role[u] = NoRole =>
                /\ \E g \in GroupsOf(db, u) : SyncedRole(db, u) = db.groupRole[g]
                /\ \A g \in GroupsOf(db, u) :
                      Priority[SyncedRole(db, u)] <= Priority[db.groupRole[g]]
<1> DEFINE roles == {db.groupRole[g] : g \in GroupsOf(db, u)}
<1>1. GroupsOf(db, u) \subseteq Groups
  BY DEF GroupsOf, RoleTables
<1>2. roles \subseteq RoleNames
  BY <1>1 DEF RoleTables
<1>3. CASE db.role[u] # NoRole
  BY <1>3 DEF SyncedRole, RoleTables
<1>4. CASE db.role[u] = NoRole
  <2>1. roles # {} /\ roles \subseteq DOMAIN Priority
    BY <1>1, <1>4 DEF SyncOutcomes
  <2>2. DOMAIN Priority = {"admin", "operator", "console_user", "invalid_role"}
    BY DEF Priority
  <2>3. /\ Priority["admin"] = 0 /\ Priority["operator"] = 1
        /\ Priority["console_user"] = 2 /\ Priority["invalid_role"] = 3
    BY DEF Priority
  <2>4. \E r \in roles : \A s \in roles : Priority[r] <= Priority[s]
    BY <2>1, <2>2, <2>3
  <2>5. /\ SyncedRole(db, u) \in roles
        /\ \A s \in roles : Priority[SyncedRole(db, u)] <= Priority[s]
    BY <2>4, <1>4 DEF SyncedRole
  <2> QED BY <2>5, <1>2, <1>4
<1> QED BY <1>3, <1>4

-----------------------------------------------------------------------------
(***************************************************************************)
(* What a request may do, whichever it is: at most one message leaves, and *)
(* the users and groups of the configuration DB change only together with  *)
(* a message that says so to every handler.  So do the memberships, but    *)
(* for the joins that fail on the role.                                    *)
(***************************************************************************)
AccountsKept == config'.users = config.users /\ config'.groups = config.groups

AccountChange(m) ==
    \/ /\ m.kind = "create_group" /\ m.group \in Groups \ config.groups
       /\ config'.users = config.users
       /\ config'.groups = config.groups \cup {m.group}
    \/ /\ m.kind = "destroy_group" /\ m.group \in config.groups \ {DefaultGroup}
       /\ config'.users = config.users
       /\ config'.groups = config.groups \ {m.group}
    \/ /\ m.kind = "add_user" /\ m.user \in Users \ config.users
       /\ m.group \in config.groups
       /\ config'.users = config.users \cup {m.user}
       /\ config'.groups = config.groups
    \/ /\ m.kind = "del_user" /\ m.user \in config.users \ {Admin}
       /\ config'.users = config.users \ {m.user}
       /\ config'.groups = config.groups

(* The messages that make u a user (g is None) or a member of the group g, *)
(* and those that end it.                                                  *)
Brings(m, u, g) ==
    /\ m.user = u
    /\ \/ m.kind = "add_user" /\ g \in {None, m.group}
       \/ m.kind = "user_join" /\ g = m.group

Takes(m, u, g) ==
    /\ m.user = u
    /\ \/ m.kind = "del_user"
       \/ m.kind = "user_leave" /\ g = m.group

MemberChange(m) ==
    \A u \in Users, g \in Groups :
        <<u, g>> \in config'.member
          <=> Brings(m, u, g) \/ (<<u, g>> \in config.member /\ ~Takes(m, u, g))

Passed(fd, m) ==
    /\ m \in Message /\ m.id = sent + 1 /\ m.fd = fd
    /\ MemberChange(m)
    /\ \/ /\ m.kind \in {"user_join", "user_leave"} /\ m.user \in config.users
          /\ AccountsKept /\ FanOut(m)
       \/ m.kind \in PortKinds /\ AccountsKept /\ ToHandler(m)
       \/ AccountChange(m) /\ FanOut(m)

RequestOutcome(fd) ==
    /\ sent < MaxRequests /\ sent' = sent + 1
    /\ UNCHANGED <<hdb, replies, alive, conns>>
    /\ config' \in RoleTables /\ op' \in RoleTables
    /\ op'.users = op.users /\ op'.groups = op.groups /\ op'.member = op.member
    /\ \/ /\ AccountsKept /\ config.member \subseteq config'.member
          /\ Answered \/ Unanswered(fd)
       \/ \E m : Passed(fd, m)

(* What _all_process_dispatcher and _single_process_dispatcher send is a message. *)
LEMMA MessageType ==
    ASSUME TypeOK, sent < MaxRequests,
           NEW k \in FanOutKinds \cup PortKinds, NEW fd \in Fds,
           NEW u \in Users \cup {None}, NEW g \in Groups \cup {None},
           NEW r \in RoleNames, NEW p \in Ports \cup {None},
           k \in UserKinds => u \in Users, k \in GroupKinds => g \in Groups,
           k \in PortKinds <=> p # None
    PROVE  Msg(k, fd, u, g, r, p) \in Message
  BY ConstantsAssumption DEF TypeOK, Msg, Message, Fields

(* _process_create_group only does what RequestOutcome allows. *)
LEMMA CreateGroupOutcome ==
    ASSUME TypeOK, NEW fd \in Fds, NEW x \in Users, NEW g \in Groups,
           NEW r \in RoleChoices, CreateGroup(fd, x, g, r)
    PROVE  RequestOutcome(fd)
<1> DEFINE m == Msg("create_group", fd, None, g, r, None)
<1>1. r \in RoleNames /\ NoRole \in RoleNames
  BY ConstantsAssumption DEF RoleNames
<1>2. sent < MaxRequests /\ sent' = sent + 1 /\ UNCHANGED <<hdb, replies, alive, conns>>
  BY DEF CreateGroup, Request, ReadRequest
<1>3. config \in RoleTables /\ op \in RoleTables /\ op' = op
  BY DEF TypeOK, CreateGroup
<1>4. CASE r \in ValidRoles /\ CanCreateGroup(config, g)
  <2>1. m \in Message /\ m.id = sent + 1 /\ m.fd = fd /\ m.kind = "create_group" /\ m.group = g
    <3>1. "create_group" \in FanOutKinds \cup PortKinds
      BY DEF FanOutKinds
    <3>2. m \in Message
      BY MessageType, ConstantsAssumption, <1>1, <1>2, <3>1
        DEF FanOutKinds, PortKinds, UserKinds, GroupKinds
    <3> QED BY <3>2 DEF Msg
  <2>2. config' = [CreateGroupIn(config, g) EXCEPT !.groupRole[g] = r] /\ FanOut(m)
    BY <1>4 DEF CreateGroup
  <2>3. CreateGroupIn(config, g) \in RoleTables
    BY RoleTableOperations, <1>3
  <2>4. config' \in RoleTables
    BY <2>2, <2>3, <1>1 DEF RoleTables
  <2>5. config'.users = config.users /\ config'.groups = config.groups \cup {g}
    BY <2>2, <1>3 DEF RoleTables, CreateGroupIn
  <2>6. AccountChange(m)
    BY <2>1, <2>5, <1>4 DEF AccountChange, CanCreateGroup
  <2>7. MemberChange(m)
    BY <1>3, <2>1, <2>2 DEF MemberChange, Brings, Takes, RoleTables, CreateGroupIn
  <2> QED BY <1>2, <1>3, <2>1, <2>2, <2>4, <2>6, <2>7 DEF RequestOutcome, Passed
<1>5. CASE ~(r \in ValidRoles /\ CanCreateGroup(config, g))
  BY <1>2, <1>3, <1>5 DEF CreateGroup, RequestOutcome, AccountsKept
<1> QED BY <1>4, <1>5

(* _process_destroy_group only does what RequestOutcome allows. *)
LEMMA DestroyGroupOutcome ==
    ASSUME TypeOK, NEW fd \in Fds, NEW x \in Users, NEW g \in Groups,
           DestroyGroup(fd, x, g)
    PROVE  RequestOutcome(fd)
<1> DEFINE m == Msg("destroy_group", fd, None, g, NoRole, None)
<1>1. NoRole \in RoleNames
  BY ConstantsAssumption DEF RoleNames, TypeOK, RoleTables
<1>2. sent < MaxRequests /\ sent' = sent + 1 /\ UNCHANGED <<hdb, replies, alive, conns>>
  BY DEF DestroyGroup, Request, ReadRequest
<1>3. config \in RoleTables /\ op \in RoleTables /\ op' = op
  BY DEF TypeOK, DestroyGroup
<1>4. CASE g # DefaultGroup /\ ~InUse(op, g) /\ CanDestroyGroup(config, g)
  <2>1. m \in Message /\ m.id = sent + 1 /\ m.fd = fd /\ m.kind = "destroy_group" /\ m.group = g
    <3>1. "destroy_group" \in FanOutKinds \cup PortKinds
      BY DEF FanOutKinds, PortKinds
    <3>2. m \in Message
      BY MessageType, ConstantsAssumption, <1>1, <1>2, <3>1
        DEF FanOutKinds, PortKinds, UserKinds, GroupKinds
    <3> QED BY <3>2 DEF Msg
  <2>2. config' = [DestroyGroupIn(config, g) EXCEPT !.groupRole[g] = NoRole] /\ FanOut(m)
    BY <1>4 DEF DestroyGroup
  <2>3. DestroyGroupIn(config, g) \in RoleTables
    BY RoleTableOperations, <1>3
  <2>4. config' \in RoleTables
    BY <2>2, <2>3, <1>1 DEF RoleTables
  <2>5. config'.users = config.users /\ config'.groups = config.groups \ {g}
    BY <2>2, <1>3 DEF RoleTables, DestroyGroupIn
  <2>6. AccountChange(m)
    BY <2>1, <2>5, <1>4 DEF AccountChange, CanDestroyGroup
  <2>7. MemberChange(m)
    BY <1>3, <2>1, <2>2 DEF MemberChange, Brings, Takes, RoleTables, DestroyGroupIn
  <2> QED BY <1>2, <1>3, <2>1, <2>2, <2>4, <2>6, <2>7 DEF RequestOutcome, Passed
<1>5. CASE ~(g # DefaultGroup /\ ~InUse(op, g) /\ CanDestroyGroup(config, g))
  BY <1>2, <1>3, <1>5 DEF DestroyGroup, RequestOutcome, AccountsKept
<1> QED BY <1>4, <1>5

(* _process_add_user_account only does what RequestOutcome allows. *)
LEMMA AddUserOutcome ==
    ASSUME TypeOK, NEW fd \in Fds, NEW x \in Users, NEW u \in Users, NEW r \in RoleChoices,
           NEW g \in Groups,
           AddUser(fd, x, u, r, g)
    PROVE  RequestOutcome(fd)
<1> DEFINE m == Msg("add_user", fd, u, g, IF r = NoRole THEN config.groupRole[g] ELSE r, None)
<1>1. NoRole \in RoleNames /\ r \in RoleNames /\ config.groupRole[g] \in RoleNames
  BY ConstantsAssumption DEF RoleNames, TypeOK, RoleTables
<1>2. sent < MaxRequests /\ sent' = sent + 1 /\ UNCHANGED <<hdb, replies, alive, conns>>
  BY DEF AddUser, Request, ReadRequest
<1>3. config \in RoleTables /\ op \in RoleTables /\ op' = op
  BY DEF TypeOK, AddUser
<1>4. CASE r \in ValidRoles \cup {NoRole} /\ CanAddUser(config, u, g)
  <2>1. m \in Message /\ m.id = sent + 1 /\ m.fd = fd /\ m.kind = "add_user" /\ m.user = u /\ m.group = g
    <3>1. "add_user" \in FanOutKinds \cup PortKinds
      BY DEF FanOutKinds, PortKinds
    <3>2. m \in Message
      BY MessageType, ConstantsAssumption, <1>1, <1>2, <3>1
        DEF FanOutKinds, PortKinds, UserKinds, GroupKinds
    <3> QED BY <3>2 DEF Msg
  <2>2. config' = [AddUserIn(config, u, g) EXCEPT !.role[u] = r] /\ FanOut(m)
    BY <1>4 DEF AddUser
  <2>3. AddUserIn(config, u, g) \in RoleTables
    BY RoleTableOperations, <1>3
  <2>4. config' \in RoleTables
    BY <2>2, <2>3, <1>1 DEF RoleTables
  <2>5. config'.users = config.users \cup {u} /\ config'.groups = config.groups
    BY <2>2, <1>3 DEF RoleTables, AddUserIn
  <2>6. AccountChange(m)
    BY <2>1, <2>5, <1>4 DEF AccountChange, CanAddUser
  <2>7. MemberChange(m)
    <3>1. config'.member = config.member \cup {<<u, g>>}
      BY <1>3, <2>2 DEF RoleTables, AddUserIn
    <3>2. None \notin Groups
      BY ConstantsAssumption
    <3> HIDE DEF m
    <3> QED BY <2>1, <3>1, <3>2 DEF MemberChange, Brings, Takes
  <2> QED BY <1>2, <1>3, <2>1, <2>2, <2>4, <2>6, <2>7 DEF RequestOutcome, Passed
<1>5. CASE ~(r \in ValidRoles \cup {NoRole} /\ CanAddUser(config, u, g))
  BY <1>2, <1>3, <1>5 DEF AddUser, RequestOutcome, AccountsKept
<1> QED BY <1>4, <1>5

(* _process_del_user_account only does what RequestOutcome allows. *)
LEMMA DelUserOutcome ==
    ASSUME TypeOK, NEW fd \in Fds, NEW x \in Users, NEW u \in Users,
           DelUser(fd, x, u)
    PROVE  RequestOutcome(fd)
<1> DEFINE m == Msg("del_user", fd, u, None, NoRole, None)
<1>1. NoRole \in RoleNames
  BY ConstantsAssumption DEF RoleNames, TypeOK, RoleTables
<1>2. sent < MaxRequests /\ sent' = sent + 1 /\ UNCHANGED <<hdb, replies, alive, conns>>
  BY DEF DelUser, Request, ReadRequest
<1>3. config \in RoleTables /\ op \in RoleTables /\ op' = op
  BY DEF TypeOK, DelUser
<1>4. CASE u # Admin /\ CanDelUser(config, u)
  <2>1. m \in Message /\ m.id = sent + 1 /\ m.fd = fd /\ m.kind = "del_user" /\ m.user = u
    <3>1. "del_user" \in FanOutKinds \cup PortKinds
      BY DEF FanOutKinds, PortKinds
    <3>2. m \in Message
      BY MessageType, ConstantsAssumption, <1>1, <1>2, <3>1
        DEF FanOutKinds, PortKinds, UserKinds, GroupKinds
    <3> QED BY <3>2 DEF Msg
  <2>2. config' = [DelUserIn(config, u) EXCEPT !.role[u] = NoRole] /\ FanOut(m)
    BY <1>4 DEF DelUser
  <2>3. DelUserIn(config, u) \in RoleTables
    BY RoleTableOperations, <1>3
  <2>4. config' \in RoleTables
    BY <2>2, <2>3, <1>1 DEF RoleTables
  <2>5. config'.users = config.users \ {u} /\ config'.groups = config.groups
    BY <2>2, <1>3 DEF RoleTables, DelUserIn
  <2>6. AccountChange(m)
    BY <2>1, <2>5, <1>4 DEF AccountChange, CanDelUser
  <2>7. MemberChange(m)
    BY <1>3, <2>1, <2>2 DEF MemberChange, Brings, Takes, RoleTables, DelUserIn
  <2> QED BY <1>2, <1>3, <2>1, <2>2, <2>4, <2>6, <2>7 DEF RequestOutcome, Passed
<1>5. CASE ~(u # Admin /\ CanDelUser(config, u))
  BY <1>2, <1>3, <1>5 DEF DelUser, RequestOutcome, AccountsKept
<1> QED BY <1>4, <1>5

(* _process_user_account_leave_group only does what RequestOutcome allows. *)
LEMMA UserLeaveOutcome ==
    ASSUME TypeOK, NEW fd \in Fds, NEW x \in Users, NEW u \in Users, NEW g \in Groups,
           UserLeave(fd, x, u, g)
    PROVE  RequestOutcome(fd)
<1> DEFINE m == Msg("user_leave", fd, u, g, NoRole, None)
<1>1. NoRole \in RoleNames
  BY ConstantsAssumption DEF RoleNames, TypeOK, RoleTables
<1>2. sent < MaxRequests /\ sent' = sent + 1 /\ UNCHANGED <<hdb, replies, alive, conns>>
  BY DEF UserLeave, Request, ReadRequest
<1>3. config \in RoleTables /\ op \in RoleTables /\ op' = op
  BY DEF TypeOK, UserLeave
<1>4. CASE CanLeave(config, u, g)
  <2>1. /\ m \in Message /\ m.id = sent + 1 /\ m.fd = fd /\ m.kind = "user_leave"
        /\ m.user = u /\ m.group = g /\ u \in config.users
    <3>1. "user_leave" \in FanOutKinds \cup PortKinds
      BY DEF FanOutKinds, PortKinds
    <3>2. m \in Message
      BY MessageType, ConstantsAssumption, <1>1, <1>2, <3>1
        DEF FanOutKinds, PortKinds, UserKinds, GroupKinds
    <3> QED BY <1>4, <3>2 DEF Msg, CanLeave
  <2>2. config' = LeaveIn(config, u, g) /\ FanOut(m)
    BY <1>4 DEF UserLeave
  <2>3. LeaveIn(config, u, g) \in RoleTables
    BY RoleTableOperations, <1>3
  <2>4. config' \in RoleTables
    BY <2>2, <2>3, <1>1 DEF RoleTables
  <2>5. config'.users = config.users /\ config'.groups = config.groups
    BY <2>2, <1>3 DEF RoleTables, LeaveIn
  <2>6. MemberChange(m)
    BY <1>3, <2>1, <2>2 DEF MemberChange, Brings, Takes, RoleTables, LeaveIn
  <2> QED BY <1>2, <1>3, <2>1, <2>2, <2>4, <2>5, <2>6 DEF RequestOutcome, Passed, AccountsKept
<1>5. CASE ~(CanLeave(config, u, g))
  BY <1>2, <1>3, <1>5 DEF UserLeave, RequestOutcome, AccountsKept
<1> QED BY <1>4, <1>5

(* _process_port_join_group only does what RequestOutcome allows. *)
LEMMA PortJoinOutcome ==
    ASSUME TypeOK, NEW fd \in Fds, NEW x \in Users, NEW p \in Ports, NEW g \in Groups,
           PortJoin(fd, x, p, g)
    PROVE  RequestOutcome(fd)
<1> DEFINE m == Msg("port_join", fd, None, g, NoRole, p)
<1>1. NoRole \in RoleNames
  BY ConstantsAssumption DEF RoleNames, TypeOK, RoleTables
<1>2. sent < MaxRequests /\ sent' = sent + 1 /\ UNCHANGED <<hdb, replies, alive, conns>>
  BY DEF PortJoin, Request, ReadRequest
<1>3. config \in RoleTables /\ op \in RoleTables /\ op' = op
  BY DEF TypeOK, PortJoin
<1>4. CASE CanPortJoin(config, p, g)
  <2>1. m \in Message /\ m.id = sent + 1 /\ m.fd = fd /\ m.kind = "port_join"
    <3>1. "port_join" \in FanOutKinds \cup PortKinds
      BY DEF FanOutKinds, PortKinds
    <3>2. m \in Message
      BY MessageType, ConstantsAssumption, <1>1, <1>2, <3>1
        DEF FanOutKinds, PortKinds, UserKinds, GroupKinds
    <3> QED BY <3>2 DEF Msg
  <2>2. config' = PortJoinIn(config, p, g) /\ ToHandler(m)
    BY <1>4 DEF PortJoin
  <2>3. PortJoinIn(config, p, g) \in RoleTables
    BY RoleTableOperations, <1>3
  <2>4. config' \in RoleTables
    BY <2>2, <2>3, <1>1 DEF RoleTables
  <2>5. config'.users = config.users /\ config'.groups = config.groups
    BY <2>2, <1>3 DEF RoleTables, PortJoinIn
  <2>6. MemberChange(m)
    BY <1>3, <2>1, <2>2 DEF MemberChange, Brings, Takes, RoleTables, PortKinds, PortJoinIn
  <2> QED BY <1>2, <1>3, <2>1, <2>2, <2>4, <2>5, <2>6 DEF RequestOutcome, Passed, AccountsKept, PortKinds
<1>5. CASE ~(CanPortJoin(config, p, g))
  BY <1>2, <1>3, <1>5 DEF PortJoin, RequestOutcome, AccountsKept
<1> QED BY <1>4, <1>5

(* _process_port_leave_group only does what RequestOutcome allows. *)
LEMMA PortLeaveOutcome ==
    ASSUME TypeOK, NEW fd \in Fds, NEW x \in Users, NEW p \in Ports, NEW g \in Groups,
           PortLeave(fd, x, p, g)
    PROVE  RequestOutcome(fd)
  BY DEF PortLeave, Request, ReadRequest, TypeOK, RequestOutcome, AccountsKept

(* _process_set_port_config only does what RequestOutcome allows. *)
LEMMA SetBaudRateOutcome ==
    ASSUME TypeOK, NEW fd \in Fds, NEW x \in Users, NEW p \in Ports,
           NEW supported \in BOOLEAN, SetBaudRate(fd, x, p, supported)
    PROVE  RequestOutcome(fd)
<1> DEFINE m == Msg("set_baud_rate", fd, None, None, NoRole, p)
<1>2. sent < MaxRequests /\ sent' = sent + 1 /\ UNCHANGED <<hdb, replies, alive, conns, config, op>>
  BY DEF SetBaudRate, Request, ReadRequest
<1>3. config \in RoleTables /\ op \in RoleTables
  BY DEF TypeOK
<1>4. CASE supported
  <2>1. m \in Message /\ m.id = sent + 1 /\ m.fd = fd /\ m.kind \in PortKinds
    <3>1. "set_baud_rate" \in PortKinds /\ NoRole \in RoleNames
      BY DEF PortKinds, RoleNames
    <3>2. m \in Message
      BY MessageType, ConstantsAssumption, <1>2, <3>1
        DEF FanOutKinds, PortKinds, UserKinds, GroupKinds
    <3> QED BY <3>1, <3>2 DEF Msg
  <2>2. ToHandler(m)
    BY <1>4 DEF SetBaudRate
  <2>3. MemberChange(m)
    BY <1>2, <2>1 DEF MemberChange, Brings, Takes, PortKinds
  <2> QED BY <1>2, <1>3, <2>1, <2>2, <2>3 DEF RequestOutcome, Passed, AccountsKept
<1>5. CASE ~supported
  BY <1>2, <1>3, <1>5 DEF SetBaudRate, RequestOutcome, AccountsKept
<1> QED BY <1>4, <1>5

(* A request refused for the role of its user changes nothing. *)
LEMMA DeniedOutcome ==
    ASSUME TypeOK, NEW fd \in Fds, NEW x \in Users, NEW kind \in Kinds, Denied(fd, x, kind)
    PROVE  RequestOutcome(fd)
  BY DEF Denied, ReadRequest, TypeOK, RequestOutcome, AccountsKept

(* _process_user_account_join_group only does what RequestOutcome allows. *)
LEMMA UserJoinOutcome ==
    ASSUME TypeOK, NEW fd \in Fds, NEW x \in Users, NEW u \in Users, NEW g \in Groups,
           UserJoin(fd, x, u, g)
    PROVE  RequestOutcome(fd)
<1> DEFINE m   == Msg("user_join", fd, u, g, NoRole, None)
           new == JoinIn(config, u, g)
<1>2. sent < MaxRequests /\ sent' = sent + 1 /\ UNCHANGED <<hdb, replies, alive, conns>>
  BY DEF UserJoin, Request, ReadRequest
<1>3. config \in RoleTables /\ op \in RoleTables
  BY DEF TypeOK
<1>4. CASE <<u, g>> = <<Admin, DefaultGroup>> \/ ~CanJoin(config, u, g)
  BY <1>2, <1>3, <1>4 DEF UserJoin, RequestOutcome, AccountsKept
<1>5. CASE ~(<<u, g>> = <<Admin, DefaultGroup>> \/ ~CanJoin(config, u, g))
  <2>1. config' = new /\ new \in RoleTables
    BY <1>3, <1>5, RoleTableOperations DEF UserJoin
  <2>2. /\ AccountsKept
        /\ config'.member = config.member \cup {<<u, g>>}
    BY <1>3, <2>1 DEF AccountsKept, JoinIn, RoleTables
  <2>3. PICK outcome \in SyncOutcomes(new, u) :
          IF outcome = "ok" /\ u \in op.users
          THEN /\ op' = [op EXCEPT !.role[u] = SyncedRole(new, u)]
               /\ FanOut(m)
          ELSE /\ IF outcome = "raise" THEN Unanswered(fd) ELSE Answered
               /\ UNCHANGED op
    BY <1>5 DEF UserJoin
  <2>4. CASE outcome = "ok" /\ u \in op.users
    <3>1. SyncedRole(new, u) \in RoleNames
      BY <2>1, <2>3, <2>4, SyncedRoleType
    <3>2. op' = [op EXCEPT !.role[u] = SyncedRole(new, u)] /\ FanOut(m)
      BY <2>3, <2>4
    <3> HIDE DEF new
    <3>3. op' \in RoleTables
      BY <3>1, <3>2, <1>3, RoleTableOperations
    <3>4. op'.users = op.users /\ op'.groups = op.groups /\ op'.member = op.member
      BY <3>2, <1>3 DEF RoleTables
    <3>5. /\ m \in Message /\ m.id = sent + 1 /\ m.fd = fd /\ m.kind = "user_join"
          /\ m.user = u /\ m.group = g /\ u \in config.users
      <4>1. "user_join" \in FanOutKinds \cup PortKinds /\ NoRole \in RoleNames
        BY DEF FanOutKinds, RoleNames
      <4>2. m \in Message
        BY MessageType, ConstantsAssumption, <1>2, <4>1
          DEF FanOutKinds, PortKinds, UserKinds, GroupKinds
      <4> QED BY <1>5, <4>2 DEF Msg, CanJoin
    <3>6. MemberChange(m)
      BY <2>2, <3>5 DEF MemberChange, Brings, Takes
    <3> QED BY <1>2, <2>1, <2>2, <3>2, <3>3, <3>4, <3>5, <3>6 DEF RequestOutcome, Passed
  <2>5. CASE ~(outcome = "ok" /\ u \in op.users)
    BY <1>2, <1>3, <2>1, <2>2, <2>3, <2>5 DEF RequestOutcome
  <2> QED BY <2>4, <2>5
<1> QED BY <1>4, <1>5

(* _process_modify_user_role only does what RequestOutcome allows. *)
LEMMA ModifyUserRoleOutcome ==
    ASSUME TypeOK, NEW fd \in Fds, NEW x \in Users, NEW u \in Users, NEW r \in RoleChoices,
           ModifyUserRole(fd, x, u, r)
    PROVE  RequestOutcome(fd)
<1> DEFINE new == [config EXCEPT !.role[u] = r]
<1>1. r \in RoleNames
  BY ConstantsAssumption
<1>2. sent < MaxRequests /\ sent' = sent + 1 /\ UNCHANGED <<hdb, replies, alive, conns>>
  BY DEF ModifyUserRole, Request, ReadRequest
<1>3. config \in RoleTables /\ op \in RoleTables
  BY DEF TypeOK
<1>4. CASE r \notin ValidRoles \cup {NoRole} \/ u \notin config.users
  BY <1>2, <1>3, <1>4 DEF ModifyUserRole, RequestOutcome, AccountsKept
<1>5. CASE ~(r \notin ValidRoles \cup {NoRole} \/ u \notin config.users)
  <2>1. config' = new /\ new \in RoleTables
    BY <1>1, <1>3, <1>5, RoleTableOperations DEF ModifyUserRole
  <2>2. AccountsKept /\ config.member \subseteq config'.member
    BY <1>3, <2>1 DEF AccountsKept, RoleTables
  <2>3. PICK outcome \in SyncOutcomes(new, u) :
          /\ op' = IF outcome = "ok" /\ u \in op.users
                   THEN [op EXCEPT !.role[u] = SyncedRole(new, u)]
                   ELSE op
          /\ IF outcome = "raise" THEN Unanswered(fd) ELSE Answered
    BY <1>5 DEF ModifyUserRole
  <2>4. outcome = "ok" => SyncedRole(new, u) \in RoleNames
    BY <2>1, SyncedRoleType
  <2> HIDE DEF new
  <2>5. op' \in RoleTables
    BY <2>3, <2>4, <1>3, RoleTableOperations
  <2>6. op'.users = op.users /\ op'.groups = op.groups /\ op'.member = op.member
    BY <2>3, <1>3 DEF RoleTables
  <2> QED BY <1>2, <2>1, <2>2, <2>3, <2>5, <2>6 DEF RequestOutcome
<1> QED BY <1>4, <1>5

(* _process_modify_group only does what RequestOutcome allows. *)
LEMMA ModifyGroupOutcome ==
    ASSUME TypeOK, NEW fd \in Fds, NEW x \in Users, NEW g \in Groups, NEW r \in RoleChoices,
           ModifyGroup(fd, x, g, r)
    PROVE  RequestOutcome(fd)
<1> DEFINE new      == [config EXCEPT !.groupRole[g] = r]
           affected == {u \in op.users : <<u, g>> \in op.member}
           good     == {u \in affected : "ok" \in SyncOutcomes(new, u)}
           synced(S) == [u \in Users |-> IF u \in S THEN SyncedRole(new, u) ELSE op.role[u]]
<1>1. r \in RoleNames
  BY ConstantsAssumption
<1>2. sent < MaxRequests /\ sent' = sent + 1 /\ UNCHANGED <<hdb, replies, alive, conns>>
  BY DEF ModifyGroup, Request, ReadRequest
<1>3. config \in RoleTables /\ op \in RoleTables
  BY DEF TypeOK
<1>4. CASE g = DefaultGroup \/ g \notin config.groups
  BY <1>2, <1>3, <1>4 DEF ModifyGroup, RequestOutcome, AccountsKept
<1>5. CASE ~(g = DefaultGroup \/ g \notin config.groups)
  <2>1. config' = new /\ new \in RoleTables
    BY <1>1, <1>3, <1>5, RoleTableOperations DEF ModifyGroup
  <2>2. AccountsKept /\ config.member \subseteq config'.member
    BY <1>3, <2>1 DEF AccountsKept, RoleTables
  <2>3. ASSUME NEW S \in SUBSET good PROVE synced(S) \in [Users -> RoleNames]
    <3>1. ASSUME NEW u \in S, u \in Users PROVE SyncedRole(new, u) \in RoleNames
      BY <2>1, <2>3, <3>1, SyncedRoleType
    <3> HIDE DEF new, good
    <3> QED BY <3>1, <1>3 DEF RoleTables
  <2>4. \/ /\ op' = [op EXCEPT !.role = synced(good),
                               !.groupRole[g] = IF g \in op.groups THEN r ELSE @]
           /\ Answered
        \/ \E done \in SUBSET good :
             /\ op' = [op EXCEPT !.role = synced(done)]
             /\ Answered \/ Unanswered(fd)
    BY <1>5 DEF ModifyGroup
  <2>5. \A S \in SUBSET good : synced(S) \in [Users -> RoleNames]
    BY <2>3
  <2>6. good \in SUBSET good
    OBVIOUS
  <2> HIDE DEF new, good, synced
  <2>7. /\ op' \in RoleTables
        /\ op'.users = op.users /\ op'.groups = op.groups /\ op'.member = op.member
        /\ Answered \/ Unanswered(fd)
    <3>1. CASE /\ op' = [op EXCEPT !.role = synced(good),
                                  !.groupRole[g] = IF g \in op.groups THEN r ELSE @]
               /\ Answered
      <4>1. synced(good) \in [Users -> RoleNames]
        BY <2>5, <2>6
      <4>2. [op.groupRole EXCEPT ![g] = IF g \in op.groups THEN r ELSE @] \in [Groups -> RoleNames]
        BY <1>1, <1>3 DEF RoleTables
      <4> QED BY <3>1, <4>1, <4>2, <1>3 DEF RoleTables
    <3>2. CASE \E done \in SUBSET good :
                 /\ op' = [op EXCEPT !.role = synced(done)]
                 /\ Answered \/ Unanswered(fd)
      BY <3>2, <2>5, <1>3 DEF RoleTables
    <3> QED BY <2>4, <3>1, <3>2
  <2> QED BY <1>2, <2>1, <2>2, <2>7 DEF RequestOutcome
<1> QED BY <1>4, <1>5

(* Every request, then. *)
LEMMA ClientRequestOutcome ==
    ASSUME TypeOK, NEW fd \in Fds, ClientRequest(fd)
    PROVE  RequestOutcome(fd)
  BY CreateGroupOutcome, DestroyGroupOutcome, AddUserOutcome, DelUserOutcome,
     UserJoinOutcome, UserLeaveOutcome, ModifyUserRoleOutcome, ModifyGroupOutcome,
     PortJoinOutcome, PortLeaveOutcome, SetBaudRateOutcome, DeniedOutcome
  DEF ClientRequest

-----------------------------------------------------------------------------
(* Type correctness *)

(* A request just put with its socket has the type of stored requests. *)
LEMMA StoredRequestType ==
    ASSUME NEW m \in Message, NEW tracked \in BOOLEAN
    PROVE  StoredRequest(m, tracked) \in StoredRequests
  BY ConstantsAssumption DEF StoredRequest, StoredRequests, Message, Fields

(* A ready mark keeps the type, and is the id of the reply that set it. *)
LEMMA RecordedType ==
    ASSUME TypeOK, NEW h \in Handlers, NEW r \in Reply, CanRecord(r)
    PROVE  /\ Recorded(h, r) \in StoredRequests
           /\ Recorded(h, r).ready = [stored[r.msg.fd].ready EXCEPT ![h] = r.msg.id]
           /\ stored[r.msg.fd] \in StoredRequests
<1>1. stored[r.msg.fd] \in StoredRequests
  BY DEF TypeOK, CanRecord, Reply, Message, Fields
<1>2. r.msg.id \in 0..MaxRequests /\ r.ok \in BOOLEAN
  BY ConstantsAssumption DEF Reply, Message, Fields
<1> QED BY <1>1, <1>2 DEF Recorded, StoredRequests

(* What a handler makes of a message keeps its table a table. *)
LEMMA EffectType ==
    ASSUME NEW db \in Tables, NEW m \in Message, m.kind # "set_baud_rate"
    PROVE  Effect(db, m) \in Tables
<1>1. m.kind \in UserKinds => m.user \in Users
  BY DEF Message, Fields
<1>2. m.kind \in GroupKinds => m.group \in Groups
  BY DEF Message, Fields
<1>3. m.kind \in PortKinds => m.port \in Ports
  BY DEF Message, Fields
<1>4. m.kind \in FanOutKinds \cup {"port_join"}
  BY DEF Message, Fields, PortKinds
<1> QED
  BY <1>1, <1>2, <1>3, <1>4, TableOperations
  DEF Effect, FanOutKinds, UserKinds, GroupKinds, PortKinds

(* The operation DB stays a table when a completed request is applied. *)
LEMMA AppliedType ==
    ASSUME NEW db \in RoleTables, NEW m \in Message, m.kind \in FanOutKinds
    PROVE  Applied(db, m) \in RoleTables
<1>1. m.kind \in UserKinds => m.user \in Users
  BY DEF Message, Fields
<1>2. m.kind \in GroupKinds => m.group \in Groups
  BY DEF Message, Fields
<1>3. m.role \in RoleNames /\ NoRole \in RoleNames
  BY DEF Message, Fields, RoleNames
<1>4. CASE m.kind = "create_group"
  BY <1>2, <1>3, <1>4, RoleTableOperations DEF Applied, GroupKinds, FanOutKinds
<1>5. CASE m.kind = "destroy_group"
  BY <1>2, <1>3, <1>5, RoleTableOperations DEF Applied, GroupKinds, FanOutKinds
<1>6. CASE m.kind = "add_user"
  BY <1>1, <1>2, <1>3, <1>6, RoleTableOperations DEF Applied, UserKinds, GroupKinds, FanOutKinds
<1>7. CASE m.kind = "del_user"
  BY <1>1, <1>3, <1>7, RoleTableOperations DEF Applied, UserKinds
<1>8. CASE m.kind \in {"user_join", "user_leave"}
  BY <1>1, <1>2, <1>8, RoleTableOperations DEF Applied, UserKinds, GroupKinds, FanOutKinds
<1> QED BY <1>4, <1>5, <1>6, <1>7, <1>8 DEF FanOutKinds

(* The state after the initialisation has the types. *)
LEMMA InitType == Init => TypeOK
<1> SUFFICES ASSUME Init PROVE TypeOK
  OBVIOUS
<1>1. \A h \in Handlers : InitialTable({p \in Ports : HandlerOf(p) = h}) \in Tables
  BY ConstantsAssumption DEF InitialTable, Tables
<1>2. config \in RoleTables /\ op \in RoleTables
  BY ConstantsAssumption DEF Init, WithRoles, InitialTable, RoleTables, RoleNames, ValidRoles
<1>3. /\ queue \in [Handlers -> Seq(Message)]
      /\ replies \in [Handlers -> Seq(Reply)]
      /\ alive \in [Handlers -> BOOLEAN]
      /\ client \in [Fds -> {"free", "idle", "waiting", "hup"}]
      /\ stored \in [Fds -> StoredRequests \cup {NoRequest}]
      /\ sent \in 0..MaxRequests /\ conns \in 0..MaxConns
  BY ConstantsAssumption DEF Init
<1> QED BY <1>1, <1>2, <1>3 DEF Init, TypeOK

(* A request of a client keeps the types. *)
LEMMA RequestType ==
    ASSUME TypeOK, NEW fd \in Fds, RequestOutcome(fd)
    PROVE  TypeOK'
<1>1. /\ sent' \in 0..MaxRequests
      /\ config' \in RoleTables /\ op' \in RoleTables
      /\ hdb' = hdb /\ replies' = replies /\ alive' = alive /\ conns' = conns
  BY ConstantsAssumption DEF RequestOutcome, TypeOK
<1>2. CASE Answered \/ Unanswered(fd)
  BY <1>1, <1>2 DEF Answered, Unanswered, TypeOK
<1>3. CASE \E m : Passed(fd, m)
  <2>1. PICK m : Passed(fd, m)
    BY <1>3
  <2>2. m \in Message /\ m.fd = fd
    BY <2>1 DEF Passed
  <2>3. StoredRequest(m, TRUE) \in StoredRequests /\ StoredRequest(m, FALSE) \in StoredRequests
    BY <2>2, StoredRequestType
  <2>4. FanOut(m) \/ ToHandler(m)
    BY <2>1 DEF Passed
  <2>5. queue' \in [Handlers -> Seq(Message)]
    <3>1. CASE FanOut(m)
      <4>1. queue' = [h \in Handlers |-> Append(queue[h], m)]
        BY <3>1 DEF FanOut
      <4>2. \A h \in Handlers : Append(queue[h], m) \in Seq(Message)
        BY <2>2 DEF TypeOK
      <4> QED BY <4>1, <4>2
    <3>2. CASE ToHandler(m)
      <4>1. queue' = [queue EXCEPT ![HandlerOf(m.port)] = Append(@, m)]
        BY <3>2 DEF ToHandler
      <4>2. \A h \in Handlers : Append(queue[h], m) \in Seq(Message)
        BY <2>2 DEF TypeOK
      <4>3. queue \in [Handlers -> Seq(Message)]
        BY DEF TypeOK
      <4> QED BY <4>1, <4>2, <4>3
    <3> QED BY <2>4, <3>1, <3>2
  <2>6. /\ stored' \in [Fds -> StoredRequests \cup {NoRequest}]
        /\ client' \in [Fds -> {"free", "idle", "waiting", "hup"}]
    <3>1. \E s \in StoredRequests : stored' = [stored EXCEPT ![m.fd] = s]
      BY <2>3, <2>4 DEF FanOut, ToHandler
    <3>2. client' = [client EXCEPT ![m.fd] = "waiting"]
      BY <2>4 DEF FanOut, ToHandler
    <3> QED BY <2>2, <3>1, <3>2 DEF TypeOK
  <2> QED BY <1>1, <2>5, <2>6 DEF TypeOK
<1> QED BY <1>2, <1>3 DEF RequestOutcome

(* A handler that serves a message, or dies of it, keeps the types. *)
LEMMA HandlerStepType ==
    ASSUME TypeOK, NEW h \in Handlers, HandlerStep(h)
    PROVE  TypeOK'
<1>1. CASE HandlerServes(h)
  <2> DEFINE m == Head(queue[h])
  <2>1. queue[h] \in Seq(Message) /\ queue[h] # <<>> /\ m.kind # "set_baud_rate"
    BY <1>1 DEF HandlerServes, TypeOK
  <2>2. m \in Message /\ Tail(queue[h]) \in Seq(Message)
    BY <2>1
  <2>3. hdb[h] \in Tables
    BY DEF TypeOK
  <2>4. Effect(hdb[h], m) \in Tables
    BY <2>1, <2>2, <2>3, EffectType
  <2>5. ReplyTo(hdb[h], m) \in Reply
    <3>1. Succeeds(hdb[h], m) \in BOOLEAN
      BY DEF Succeeds
    <3> HIDE DEF m
    <3> QED BY <3>1, <2>2 DEF ReplyTo, Reply
  <2>6. hdb' \in [Handlers -> Tables]
    BY <1>1, <2>3, <2>4 DEF HandlerServes, TypeOK
  <2>7. replies' \in [Handlers -> Seq(Reply)]
    BY <1>1, <2>5 DEF HandlerServes, TypeOK
  <2>8. queue' \in [Handlers -> Seq(Message)]
    BY <1>1, <2>2 DEF HandlerServes, TypeOK
  <2> QED BY <1>1, <2>6, <2>7, <2>8 DEF HandlerServes, TypeOK
<1>2. CASE HandlerCrashes(h)
  <2>1. Tail(queue[h]) \in Seq(Message)
    BY <1>2 DEF HandlerCrashes, TypeOK
  <2> QED BY <1>2, <2>1 DEF HandlerCrashes, TypeOK
<1> QED BY <1>1, <1>2 DEF HandlerStep

(* The reply at the head of a queue is a reply, and what is left is typed. *)
LEMMA TakeReplyType ==
    ASSUME TypeOK, NEW h \in Handlers, TakeReply(h)
    PROVE  /\ Head(replies[h]) \in Reply
           /\ replies' \in [Handlers -> Seq(Reply)]
           /\ config' = config /\ hdb' = hdb /\ queue' = queue /\ alive' = alive
           /\ sent' = sent /\ conns' = conns
<1>1. replies[h] \in Seq(Reply) /\ replies[h] # <<>>
  BY DEF TypeOK, TakeReply
<1>2. Head(replies[h]) \in Reply /\ Tail(replies[h]) \in Seq(Reply)
  BY <1>1
<1> QED BY <1>2 DEF TypeOK, TakeReply

(* The server keeps the types when it takes a reply. *)
LEMMA ReplyStepType ==
    ASSUME TypeOK, NEW h \in Handlers, ServerTakesReply(h)
    PROVE  TypeOK'
<1> DEFINE r == Head(replies[h])
<1>1. TakeReply(h)
  BY DEF ServerTakesReply, ReplyIgnored, ReplyRaises, ReplyRecorded, ReplyCompletes
<1>2. /\ r \in Reply /\ replies' \in [Handlers -> Seq(Reply)]
      /\ config' = config /\ hdb' = hdb /\ queue' = queue /\ alive' = alive
      /\ sent' = sent /\ conns' = conns
  BY <1>1, TakeReplyType
<1>3. r.msg \in Message /\ r.msg.fd \in Fds
  BY <1>2 DEF Reply, Message, Fields
<1>4. client' \in [Fds -> {"free", "idle", "waiting", "hup"}]
  BY <1>3 DEF ServerTakesReply, ReplyIgnored, ReplyRaises, ReplyRecorded, ReplyCompletes,
              Told, TypeOK
<1>5. CASE ReplyIgnored(h) \/ ReplyRaises(h)
  BY <1>2, <1>4, <1>5 DEF ReplyIgnored, ReplyRaises, TypeOK
<1>6. CASE ReplyRecorded(h)
  <2>1. Recorded(h, r) \in StoredRequests
    BY <1>2, <1>6, RecordedType DEF ReplyRecorded
  <2>2. stored' = [stored EXCEPT ![r.msg.fd] = Recorded(h, r)] /\ op' = op
    BY <1>6 DEF ReplyRecorded
  <2> HIDE DEF r
  <2>3. stored' \in [Fds -> StoredRequests \cup {NoRequest}]
    BY <2>1, <2>2 DEF TypeOK
  <2> QED BY <1>2, <1>4, <2>2, <2>3 DEF TypeOK
<1>7. CASE ReplyCompletes(h)
  <2>1. CanRecord(r) /\ stored' = [stored EXCEPT ![r.msg.fd] = Recorded(h, r)]
        /\ op' = Applied(op, r.msg)
    BY <1>7 DEF ReplyCompletes
  <2>2. Recorded(h, r) \in StoredRequests
    BY <1>2, <2>1, RecordedType
  <2> HIDE DEF r
  <2>3. stored' \in [Fds -> StoredRequests \cup {NoRequest}]
    BY <2>1, <2>2 DEF TypeOK
  <2>4. op' \in RoleTables
    <3>1. r.msg.kind \in FanOutKinds
      BY <1>2, <2>1 DEF CanRecord, Reply
    <3> QED BY <1>3, <2>1, <3>1, AppliedType DEF TypeOK
  <2> QED BY <1>2, <1>4, <2>3, <2>4 DEF TypeOK
<1> QED BY <1>5, <1>6, <1>7 DEF ServerTakesReply

(* The variables of the server and of every handler keep their types,      *)
(* the messages in the queues included (TypeOK).                           *)
THEOREM TypeCorrect == Spec => []TypeOK
<1>1. Init => TypeOK
  BY InitType
<1>2. TypeOK /\ [Next]_vars => TypeOK'
  <2> SUFFICES ASSUME TypeOK, [Next]_vars PROVE TypeOK'
    OBVIOUS
  <2>1. CASE \E fd \in Fds : Connection(fd)
    <3>1. PICK fd \in Fds : Accept(fd) \/ PeerClose(fd) \/ CloseClient(fd)
      BY <2>1 DEF Connection
    <3>2. CASE Accept(fd)
      BY <3>2, ConstantsAssumption DEF Accept, TypeOK
    <3>3. CASE PeerClose(fd)
      BY <3>3 DEF PeerClose, TypeOK
    <3>4. CASE CloseClient(fd)
      BY <3>4 DEF CloseClient, TypeOK
    <3> QED BY <3>1, <3>2, <3>3, <3>4
  <2>2. CASE \E fd \in Fds : ClientRequest(fd)
    BY <2>2, ClientRequestOutcome, RequestType
  <2>3. CASE \E h \in Handlers : HandlerStep(h)
    BY <2>3, HandlerStepType
  <2>4. CASE \E h \in Handlers : ServerTakesReply(h)
    BY <2>4, ReplyStepType
  <2>5. CASE \E h \in Handlers : HandlerStops(h)
    BY <2>5 DEF HandlerStops, TypeOK
  <2>6. CASE UNCHANGED vars
    BY <2>6 DEF vars, TypeOK
  <2> QED BY <2>1, <2>2, <2>3, <2>4, <2>5, <2>6 DEF Next
<1> QED BY <1>1, <1>2, PTL DEF Spec

=============================================================================
