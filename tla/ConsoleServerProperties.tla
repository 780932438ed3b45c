----------------------- MODULE ConsoleServerProperties -----------------------
(* What the account replication of the console server keeps and loses.     *)
EXTENDS ConsoleServer

-----------------------------------------------------------------------------
(* Types *)

Tables == [users : SUBSET Users, groups : SUBSET Groups,
           member : SUBSET (Users \X Groups), ports : SUBSET (Ports \X Groups)]

RoleTables == [users : SUBSET Users, groups : SUBSET Groups,
               member : SUBSET (Users \X Groups), ports : SUBSET (Ports \X Groups),
               role : [Users -> RoleNames], groupRole : [Groups -> RoleNames]]

StoredRequests ==
    [kind : FanOutKinds \cup PortKinds, id : 1..MaxRequests, port : Ports \cup {None},
     group : Groups \cup {None}, tracked : BOOLEAN,
     ready : [Handlers -> 0..MaxRequests], status : [Handlers -> BOOLEAN]]

(* The variables hold what their declarations say, the messages in transit *)
(* included.                                                               *)
TypeOK ==
    /\ config \in RoleTables
    /\ op \in RoleTables
    /\ hdb \in [Handlers -> Tables]
    /\ queue \in [Handlers -> Seq(Message)]
    /\ replies \in [Handlers -> Seq(Reply)]
    /\ alive \in [Handlers -> BOOLEAN]
    /\ client \in [Fds -> {"free", "idle", "waiting", "hup"}]
    /\ stored \in [Fds -> StoredRequests \cup {NoRequest}]
    /\ sent \in 0..MaxRequests
    /\ conns \in 0..MaxConns

-----------------------------------------------------------------------------
(* Handlers against the configuration DB *)

AboutAccount(m, u) == m.kind \in {"add_user", "del_user"} /\ m.user = u

AboutGroup(m, g) == m.kind \in {"create_group", "destroy_group"} /\ m.group = g

AccountPending(h, u) == \E i \in 1..Len(queue[h]) : AboutAccount(queue[h][i], u)

GroupPending(h, g) == \E i \in 1..Len(queue[h]) : AboutGroup(queue[h][i], g)

UserPending(h, u) == \E i \in 1..Len(queue[h]) : queue[h][i].user = u

(* A handler differs from the configuration DB on the existence of a user  *)
(* only while an add or a delete of that user is on its queue: no handler  *)
(* ever fails one of them, in whatever order requests, replies, crashes    *)
(* and disconnections come (_process_add_user_account and                  *)
(* _process_del_user_account of the handler against those of the server).  *)
HandlerAccountsAgree ==
    \A h \in Handlers, u \in Users :
        ~AccountPending(h, u) => (u \in hdb[h].users <=> u \in config.users)

(* A group of the configuration DB exists at every handler that has no     *)
(* create or destroy of it left to serve.  The converse does not hold: a   *)
(* handler may refuse a destroy the server has already made.               *)
HandlerGroupsCoverConfig ==
    \A h \in Handlers, g \in config.groups :
        ~GroupPending(h, g) => g \in hdb[h].groups

(* Once a handler has served every message about a user, the memberships   *)
(* it has for the user are among those of the configuration DB (a join     *)
(* that failed on the role stays in the configuration DB alone).           *)
HandlerMembershipsKnown ==
    \A h \in Handlers, u \in Users :
        ~UserPending(h, u) => GroupsOf(hdb[h], u) \subseteq GroupsOf(config, u)

FanOutPending(h) ==
    {queue[h][i].id : i \in {j \in 1..Len(queue[h]) : queue[h][j].kind \in FanOutKinds}}

(* Two handlers with the same fan-out requests left to serve have the same *)
(* users and memberships, a dead handler included: what a handler accepts  *)
(* does not depend on its ports.  (Its groups do.)                         *)
EqualProgressEqualAccounts ==
    \A h, k \in Handlers :
        FanOutPending(h) = FanOutPending(k)
            => hdb[h].users = hdb[k].users /\ hdb[h].member = hdb[k].member

(* The default account and the default group are in every table, whatever  *)
(* is in flight.                                                           *)
DefaultAccountKept ==
    /\ Admin \in config.users \cap op.users
    /\ DefaultGroup \in config.groups \cap op.groups
    /\ \A h \in Handlers : Admin \in hdb[h].users /\ DefaultGroup \in hdb[h].groups

-----------------------------------------------------------------------------
(* Replies *)

(* A ready mark tells that its handler has served the request named by the *)
(* mark: neither a message that old nor a second reply to it is left.      *)
(* Descriptors are reused, so the request may not be the one stored.       *)
ReadyMeansServed ==
    \A fd \in Fds, h \in Handlers :
        stored[fd] # NoRequest =>
            /\ \A i \in 1..Len(queue[h]) : queue[h][i].id > stored[fd].ready[h]
            /\ \A i \in 1..Len(replies[h]) : replies[h][i].msg.id > stored[fd].ready[h]

(* A handler that died and whose replies are used up, with no mark of its  *)
(* own in a stored request. *)
Gone(h) ==
    /\ ~alive[h]
    /\ replies[h] = <<>>
    /\ \A fd \in Fds : stored[fd] # NoRequest => stored[fd].ready[h] = 0

(* From then on the users, groups and memberships of the operation DB never *)
(* change again: one baud rate request ends every later account request in  *)
(* silence, although the configuration DB keeps taking them.                *)
OpFrozenByDeadHandler ==
    [][(\E h \in Handlers : Gone(h))
         => /\ op'.users = op.users
            /\ op'.groups = op.groups
            /\ op'.member = op.member]_vars

-----------------------------------------------------------------------------
(* Roles *)

(* When the role of a user of the operation DB changes, the new role is    *)
(* the explicit role of the configuration DB if there is one, and else     *)
(* the role of one of the user's groups there, the strongest: no group     *)
(* gives more, and none gives less than the user gets (_sync_user_role,    *)
(* called by the join and by both modify requests after they have written  *)
(* the configuration DB, and cut short by the first user it fails for).    *)
RoleChangesFollowConfig ==
    [][\A u \in op.users \cap op'.users :
         op'.role[u] # op.role[u] =>
           IF config'.role[u] # NoRole
           THEN op'.role[u] = config'.role[u]
           ELSE /\ \E g \in GroupsOf(config', u) : op'.role[u] = config'.groupRole[g]
                /\ \A g \in GroupsOf(config', u) :
                      Priority[op'.role[u]] <= Priority[config'.groupRole[g]]]_vars

-----------------------------------------------------------------------------
(***************************************************************************)
(* What comments and messages of the source say, and the code does not do. *)
(***************************************************************************)

(* "Update DB if handler handles the request successful": when every       *)
(* handler has replied "OK" to a create, the operation DB has the group.   *)
ServedGroupReachesOp ==
    \A fd \in Fds :
        LET s == stored[fd]
        IN  /\ s.kind = "create_group"
            /\ \A h \in Handlers : s.ready[h] = s.id /\ s.status[h]
            => s.group \in op.groups

(* "Check if the request data is the same with the handler reply": a       *)
(* request is marked ready only by replies to that request.                *)
OwnRepliesOnly ==
    \A fd \in Fds : stored[fd] # NoRequest =>
        \A h \in Handlers : stored[fd].ready[h] \in {0, stored[fd].id}

-----------------------------------------------------------------------------
(* Liveness *)

(* When the clients stop sending requests, every handler that has not      *)
(* crashed ends with exactly the users of the configuration DB.            *)
HandlersConverge ==
    \A h \in Handlers : <>[](alive[h] => hdb[h].users = config.users)

=============================================================================
