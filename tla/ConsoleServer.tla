---------------------------- MODULE ConsoleServer ----------------------------
(***************************************************************************)
(* The console server process and its handler processes.                   *)
(*                                                                         *)
(* Clients send account requests over the management socket.  The server   *)
(* writes its configuration DB at once, puts the request on the queue of   *)
(* every handler, remembers it under the client's socket descriptor, and   *)
(* writes its operation DB when the last handler has replied.  Handlers    *)
(* apply the requests to tables of their own.                              *)
(*                                                                         *)
(* The server is one thread: each iteration of its loop handles a socket   *)
(* event or a reply, so an action is one such handler run to its end, the  *)
(* early returns and the exceptions (caught in run()) included.  Handlers  *)
(* are separate processes; the queues are the only state they share.       *)
(* Behaviours start where the initialisation of the server ends.           *)
(***************************************************************************)
EXTENDS Integers, Sequences, FiniteSets, AccountDb

CONSTANTS
    NumHandlers,   (* MAX_HANDLER_PROCESS, 8 in the code                   *)
    Ports,         (* serial port ids, 1..48 in the code                   *)
    Users,         (* user names                                           *)
    Groups,        (* group names                                          *)
    Admin,         (* DEFAULT_USER_ACCOUNT                                 *)
    DefaultGroup,  (* DEFAULT_GROUP_NAME                                   *)
    Fds,           (* socket descriptors the kernel may hand out           *)
    None,          (* the value of a field a message does not carry        *)
    RoleChoices,   (* bound: the roles clients write in their requests     *)
    Kinds,         (* bound: the requests clients issue                    *)
    MayStop,       (* bound: the handlers their sessions may end           *)
    MaxRequests,   (* bound: requests read from clients                    *)
    MaxConns       (* bound: connections accepted                          *)

FanOutKinds == {"create_group", "destroy_group", "add_user", "del_user",
                "user_join", "user_leave"}

PortKinds == {"port_join", "set_baud_rate"}

UserKinds == {"add_user", "del_user", "user_join", "user_leave"}

GroupKinds == (FanOutKinds \ {"del_user"}) \cup {"port_join"}

AdminKinds == FanOutKinds \cup {"port_join", "port_leave", "modify_group", "modify_role"}

AllKinds == AdminKinds \cup {"set_baud_rate"}

ASSUME ConstantsAssumption ==
    /\ NumHandlers \in Nat \ {0}
    /\ Ports \subseteq Nat \ {0}
    /\ Admin \in Users /\ DefaultGroup \in Groups
    /\ None \notin Users /\ None \notin Groups /\ None \notin Ports
    /\ Fds \subseteq Nat
    /\ RoleChoices \subseteq RoleNames
    /\ Kinds \subseteq AllKinds /\ MayStop \subseteq Nat
    /\ MaxRequests \in Nat /\ MaxConns \in Nat

Handlers == 0..(NumHandlers - 1)

HandlerOf(p) == (p - 1) % NumHandlers

VARIABLES
    config,    (* _ConsoleServerConfigDb                                   *)
    op,        (* _ConsoleServerOpDb, its account part                     *)
    hdb,       (* _ConsolerServerHandlerDb of each handler, account part   *)
    queue,     (* server -> handler messages                               *)
    replies,   (* handler -> server messages                               *)
    alive,     (* FALSE once an exception has ended the handler process    *)
    client,    (* socket of each descriptor: "free", "idle" (no request    *)
               (* outstanding), "waiting" (for a reply), "hup" (the peer   *)
               (* has closed, the server has not read the end of file)     *)
    stored,    (* the request kept with the socket, NoRequest if none      *)
    sent,      (* requests read so far; numbers the messages (bound)       *)
    conns      (* connections accepted so far (bound)                      *)

vars == <<config, op, hdb, queue, replies, alive, client, stored, sent, conns>>

-----------------------------------------------------------------------------
(***************************************************************************)
(* Messages.  `id` is the number of the request: the code sends none, only *)
(* bounds and properties read it.                                          *)
(***************************************************************************)
Fields == [kind : FanOutKinds \cup PortKinds, id : 1..MaxRequests, fd : Fds,
           user : Users \cup {None}, group : Groups \cup {None},
           role : RoleNames, port : Ports \cup {None}]

Message == {m \in Fields : /\ m.kind \in UserKinds => m.user # None
                           /\ m.kind \in GroupKinds => m.group # None
                           /\ m.kind \in PortKinds <=> m.port # None}

(* `ok` is result == "OK".  `pid` is whether data is a dictionary with a   *)
(* "process_id": most failures reply with a string instead.                *)
Reply == {r \in [msg : Message, ok : BOOLEAN, pid : BOOLEAN] :
             r.pid => r.msg.kind \in FanOutKinds}

Msg(kind, fd, u, g, r, p) ==
    [kind |-> kind, id |-> sent + 1, fd |-> fd, user |-> u, group |-> g,
     role |-> r, port |-> p]

NoRequest == [kind |-> None]

(* `ready` holds the id of the reply that marked the handler ready, 0 for  *)
(* False.  `tracked` is FALSE for the requests stored without those keys.  *)
StoredRequest(m, tracked) ==
    [kind |-> m.kind, id |-> m.id, port |-> m.port, group |-> m.group,
     tracked |-> tracked,
     ready |-> [h \in Handlers |-> 0], status |-> [h \in Handlers |-> FALSE]]

-----------------------------------------------------------------------------
(***************************************************************************)
(* After init_console_server, _init_handle_admin_user and                  *)
(* _init_handle_serial_port: the default user with an explicit role in the *)
(* default group everywhere; each port in the default group in the         *)
(* operation DB and in its handler, in no group in the configuration DB.   *)
(***************************************************************************)
InitialTable(ports) ==
    [users |-> {Admin}, groups |-> {DefaultGroup},
     member |-> {<<Admin, DefaultGroup>>},
     ports |-> {<<p, DefaultGroup>> : p \in ports}]

WithRoles(db) ==
    [users |-> db.users, groups |-> db.groups, member |-> db.member, ports |-> db.ports,
     role |-> [u \in Users |-> IF u = Admin THEN "admin" ELSE NoRole],
     groupRole |-> [g \in Groups |-> IF g = DefaultGroup THEN "admin" ELSE NoRole]]

Init ==
    /\ config = WithRoles(InitialTable({}))
    /\ op = WithRoles(InitialTable(Ports))
    /\ hdb = [h \in Handlers |-> InitialTable({p \in Ports : HandlerOf(p) = h})]
    /\ queue = [h \in Handlers |-> <<>>]
    /\ replies = [h \in Handlers |-> <<>>]
    /\ alive = [h \in Handlers |-> TRUE]
    /\ client = [fd \in Fds |-> "free"]
    /\ stored = [fd \in Fds |-> NoRequest]
    /\ sent = 0
    /\ conns = 0

-----------------------------------------------------------------------------
(* Connections.  The kernel hands out the lowest descriptor that is free,  *)
(* so a new client gets the number of one that has just gone.              *)

Accept(fd) ==
    /\ conns < MaxConns
    /\ client[fd] = "free"
    /\ \A other \in Fds : client[other] = "free" => fd <= other
    /\ client' = [client EXCEPT ![fd] = "idle"]
    /\ conns' = conns + 1
    /\ UNCHANGED <<config, op, hdb, queue, replies, alive, stored, sent>>

(* The peer may go away at any time, while it waits for a reply too. *)
PeerClose(fd) ==
    /\ client[fd] \in {"idle", "waiting"}
    /\ client' = [client EXCEPT ![fd] = "hup"]
    /\ UNCHANGED <<config, op, hdb, queue, replies, alive, stored, sent, conns>>

(* The request goes with the socket's entry; messages on their way do not. *)
CloseClient(fd) ==
    /\ client[fd] = "hup"
    /\ client' = [client EXCEPT ![fd] = "free"]
    /\ stored' = [stored EXCEPT ![fd] = NoRequest]
    /\ UNCHANGED <<config, op, hdb, queue, replies, alive, sent, conns>>

-----------------------------------------------------------------------------
(***************************************************************************)
(* Requests.  A client sends one request and waits for its reply, as the   *)
(* command line tools and the menus do.  A handler function ends in one of *)
(* three ways: it replies (Answered), it raises and the client keeps       *)
(* waiting (Unanswered), or it hands the request on (FanOut, ToHandler).   *)
(***************************************************************************)
ReadRequest(fd, kind) ==
    /\ kind \in Kinds
    /\ client[fd] = "idle"
    /\ sent < MaxRequests
    /\ sent' = sent + 1
    /\ UNCHANGED <<hdb, replies, alive, conns>>

Permitted(x, kind) ==
    /\ x \in op.users
    /\ kind \in AdminKinds => op.role[x] = "admin"

Request(fd, x, kind) == ReadRequest(fd, kind) /\ Permitted(x, kind)

Answered == UNCHANGED <<client, stored, queue>>

Unanswered(fd) ==
    /\ client' = [client EXCEPT ![fd] = "waiting"]
    /\ UNCHANGED <<stored, queue>>

(* Wrong on purpose: the loop over the handlers stops one short. *)
FanOutShort(m) ==
    /\ queue' = [h \in Handlers |-> IF h = NumHandlers - 1 THEN queue[h] ELSE Append(queue[h], m)]
    /\ stored' = [stored EXCEPT ![m.fd] = StoredRequest(m, TRUE)]
    /\ client' = [client EXCEPT ![m.fd] = "waiting"]

FanOut(m) ==
    /\ queue' = [h \in Handlers |-> Append(queue[h], m)]
    /\ stored' = [stored EXCEPT ![m.fd] = StoredRequest(m, TRUE)]
    /\ client' = [client EXCEPT ![m.fd] = "waiting"]

ToHandler(m) ==
    /\ queue' = [queue EXCEPT ![HandlerOf(m.port)] = Append(@, m)]
    /\ stored' = [stored EXCEPT ![m.fd] = StoredRequest(m, FALSE)]
    /\ client' = [client EXCEPT ![m.fd] = "waiting"]

(* An unknown user is told so; for a known one without the role the reply  *)
(* is built from a string and raises.                                      *)
Denied(fd, x, kind) ==
    /\ ReadRequest(fd, kind)
    /\ ~Permitted(x, kind)
    /\ IF x \in op.users THEN Unanswered(fd) ELSE Answered
    /\ UNCHANGED <<config, op>>

CreateGroup(fd, x, g, r) ==
    /\ Request(fd, x, "create_group")
    /\ IF r \in ValidRoles /\ CanCreateGroup(config, g)
       THEN /\ config' = [CreateGroupIn(config, g) EXCEPT !.groupRole[g] = r]
            /\ FanOut(Msg("create_group", fd, None, g, r, None))
       ELSE Answered /\ UNCHANGED config
    /\ UNCHANGED op

(* Members and ports are looked up in the operation DB, which in-flight    *)
(* joins have not reached yet.                                             *)
DestroyGroup(fd, x, g) ==
    /\ Request(fd, x, "destroy_group")
    /\ IF g # DefaultGroup /\ ~InUse(op, g) /\ CanDestroyGroup(config, g)
       THEN /\ config' = [DestroyGroupIn(config, g) EXCEPT !.groupRole[g] = NoRole]
            /\ FanOut(Msg("destroy_group", fd, None, g, NoRole, None))
       ELSE Answered /\ UNCHANGED config
    /\ UNCHANGED op

AddUser(fd, x, u, r, g) ==
    /\ Request(fd, x, "add_user")
    /\ IF r \in ValidRoles \cup {NoRole} /\ CanAddUser(config, u, g)
       THEN /\ config' = [AddUserIn(config, u, g) EXCEPT !.role[u] = r]
            /\ LET given == IF r = NoRole THEN config.groupRole[g] ELSE r
               IN  FanOut(Msg("add_user", fd, u, g, given, None))
       ELSE Answered /\ UNCHANGED config
    /\ UNCHANGED op

(* Wrong on purpose: the check for the default user is missing. *)
DelUserUnchecked(fd, x, u) ==
    /\ Request(fd, x, "del_user")
    /\ IF CanDelUser(config, u)
       THEN /\ config' = [DelUserIn(config, u) EXCEPT !.role[u] = NoRole]
            /\ FanOut(Msg("del_user", fd, u, None, NoRole, None))
       ELSE Answered /\ UNCHANGED config
    /\ UNCHANGED op

DelUser(fd, x, u) ==
    /\ Request(fd, x, "del_user")
    /\ IF u # Admin /\ CanDelUser(config, u)
       THEN /\ config' = [DelUserIn(config, u) EXCEPT !.role[u] = NoRole]
            /\ FanOut(Msg("del_user", fd, u, None, NoRole, None))
       ELSE Answered /\ UNCHANGED config
    /\ UNCHANGED op

(* The membership is written before the role is recomputed: the failures   *)
(* of that step leave it written and tell no handler.                      *)
UserJoin(fd, x, u, g) ==
    /\ Request(fd, x, "user_join")
    /\ IF <<u, g>> = <<Admin, DefaultGroup>> \/ ~CanJoin(config, u, g)
       THEN Answered /\ UNCHANGED <<config, op>>
       ELSE LET new == JoinIn(config, u, g)
            IN  /\ config' = new
                /\ \E outcome \in SyncOutcomes(new, u) :
                     IF outcome = "ok" /\ u \in op.users
                     THEN /\ op' = [op EXCEPT !.role[u] = SyncedRole(new, u)]
                          /\ FanOut(Msg("user_join", fd, u, g, NoRole, None))
                     ELSE /\ IF outcome = "raise" THEN Unanswered(fd) ELSE Answered
                          /\ UNCHANGED op

(* No check for the default user and no recomputation of the role. *)
UserLeave(fd, x, u, g) ==
    /\ Request(fd, x, "user_leave")
    /\ IF CanLeave(config, u, g)
       THEN /\ config' = LeaveIn(config, u, g)
            /\ FanOut(Msg("user_leave", fd, u, g, NoRole, None))
       ELSE Answered /\ UNCHANGED config
    /\ UNCHANGED op

ModifyUserRole(fd, x, u, r) ==
    /\ Request(fd, x, "modify_role")
    /\ IF r \notin ValidRoles \cup {NoRole} \/ u \notin config.users
       THEN Answered /\ UNCHANGED <<config, op>>
       ELSE LET new == [config EXCEPT !.role[u] = r]
            IN  /\ config' = new
                /\ \E outcome \in SyncOutcomes(new, u) :
                     /\ op' = IF outcome = "ok" /\ u \in op.users
                              THEN [op EXCEPT !.role[u] = SyncedRole(new, u)]
                              ELSE op
                     /\ IF outcome = "raise" THEN Unanswered(fd) ELSE Answered

(* The users of the group get their role recomputed one after the other:   *)
(* the first failure ends the request, the ones done so far stay done.     *)
ModifyGroup(fd, x, g, r) ==
    /\ Request(fd, x, "modify_group")
    /\ IF g = DefaultGroup \/ g \notin config.groups
       THEN Answered /\ UNCHANGED <<config, op>>
       ELSE LET new      == [config EXCEPT !.groupRole[g] = r]
                affected == {u \in op.users : <<u, g>> \in op.member}
                good     == {u \in affected : "ok" \in SyncOutcomes(new, u)}
                synced(S) == [u \in Users |-> IF u \in S THEN SyncedRole(new, u)
                                              ELSE op.role[u]]
            IN  /\ config' = new
                /\ IF good = affected
                   THEN /\ op' = [op EXCEPT !.role = synced(good),
                                            !.groupRole[g] = IF g \in op.groups THEN r ELSE @]
                        /\ Answered
                   ELSE \E done \in SUBSET good, u \in affected \ good :
                        \E outcome \in SyncOutcomes(new, u) :
                          /\ op' = [op EXCEPT !.role = synced(done)]
                          /\ IF outcome = "raise" THEN Unanswered(fd) ELSE Answered

PortJoin(fd, x, p, g) ==
    /\ Request(fd, x, "port_join")
    /\ IF CanPortJoin(config, p, g)
       THEN /\ config' = PortJoinIn(config, p, g)
            /\ ToHandler(Msg("port_join", fd, None, g, NoRole, p))
       ELSE Answered /\ UNCHANGED config
    /\ UNCHANGED op

(* port_leave_group tests for the opposite: it refuses a group in the list *)
(* and asks list.remove for one that is not there, which raises.           *)
PortLeave(fd, x, p, g) ==
    /\ Request(fd, x, "port_leave")
    /\ IF <<p, g>> \in config.ports THEN Answered ELSE Unanswered(fd)
    /\ UNCHANGED <<config, op>>

(* The rate itself is left out: an unsupported one is refused, and the     *)
(* message of a supported one carries it in the wrong field, with no data. *)
SetBaudRate(fd, x, p, supported) ==
    /\ Request(fd, x, "set_baud_rate")
    /\ IF supported THEN ToHandler(Msg("set_baud_rate", fd, None, None, NoRole, p))
                    ELSE Answered
    /\ UNCHANGED <<config, op>>

-----------------------------------------------------------------------------
(* Handlers *)

(* Every failure replies with a string but the two refusals to destroy a   *)
(* group in use; a port join never sets "process_id".                      *)
ReplyTo(db, m) ==
    [msg |-> m, ok |-> Succeeds(db, m),
     pid |-> m.kind \in FanOutKinds
             /\ (Succeeds(db, m) \/ (m.kind = "destroy_group" /\ InUse(db, m.group)))]

HandlerServes(h) ==
    /\ alive[h]
    /\ queue[h] # <<>>
    /\ LET m == Head(queue[h])
       IN  /\ m.kind # "set_baud_rate"
           /\ hdb' = [hdb EXCEPT ![h] = IF Succeeds(@, m) THEN Effect(@, m) ELSE @]
           /\ replies' = [replies EXCEPT ![h] = Append(@, ReplyTo(hdb[h], m))]
    /\ queue' = [queue EXCEPT ![h] = Tail(@)]
    /\ UNCHANGED <<config, op, alive, client, stored, sent, conns>>

(* `key not in msg.data` with data None raises, and the handler's loop     *)
(* catches nothing: the process ends.                                      *)
HandlerCrashes(h) ==
    /\ alive[h]
    /\ queue[h] # <<>>
    /\ Head(queue[h]).kind = "set_baud_rate"
    /\ alive' = [alive EXCEPT ![h] = FALSE]
    /\ queue' = [queue EXCEPT ![h] = Tail(@)]
    /\ UNCHANGED <<config, op, hdb, replies, client, stored, sent, conns>>

(* The process also ends for reasons of its sessions and serial ports,     *)
(* between two messages: every action of HandlerSessions that Stops.       *)
HandlerStops(h) ==
    /\ alive[h] /\ h \in MayStop
    /\ alive' = [alive EXCEPT ![h] = FALSE]
    /\ UNCHANGED <<config, op, hdb, queue, replies, client, stored, sent, conns>>

-----------------------------------------------------------------------------
(***************************************************************************)
(* Replies (_handle_client_reply).  The request is looked up by descriptor *)
(* alone.  A reply whose request does not match the one stored gets the    *)
(* client a "failed", and since the result of that send is what the check  *)
(* returns, the reply goes on being processed unless the send fails.       *)
(***************************************************************************)
Matches(m) == stored[m.fd].kind = m.kind /\ stored[m.fd].port = m.port

Ignored(m) ==
    \/ client[m.fd] = "free"
    \/ (client[m.fd] = "hup" /\ ~Matches(m))

CanRecord(r) == stored[r.msg.fd] # NoRequest /\ stored[r.msg.fd].tracked /\ r.pid

(* Wrong on purpose: every reply is booked on handler 0. *)
RecordedOnFirst(h, r) ==
    [stored[r.msg.fd] EXCEPT !.ready[0] = r.msg.id, !.status[0] = r.ok]

Recorded(h, r) ==
    [stored[r.msg.fd] EXCEPT !.ready[h] = r.msg.id, !.status[h] = r.ok]

(* Wrong on purpose: one ready handler completes the request. *)
AnyReady(s) == \E h \in Handlers : s.ready[h] # 0

AllReady(s) == \A h \in Handlers : s.ready[h] # 0

(* A "failed" or final reply ends the client's wait. *)
Told(fd) == client' = [client EXCEPT ![fd] = IF @ = "hup" THEN "hup" ELSE "idle"]

TakeReply(h) ==
    /\ replies[h] # <<>>
    /\ replies' = [replies EXCEPT ![h] = Tail(@)]
    /\ UNCHANGED <<config, hdb, queue, alive, sent, conns>>

ReplyIgnored(h) ==
    /\ TakeReply(h)
    /\ Ignored(Head(replies[h]).msg)
    /\ UNCHANGED <<op, client, stored>>

(* No request, one without "ready", or a reply without "process_id". *)
ReplyRaises(h) ==
    /\ TakeReply(h)
    /\ LET r == Head(replies[h])
       IN  /\ ~Ignored(r.msg)
           /\ ~CanRecord(r)
           /\ IF Matches(r.msg) THEN UNCHANGED client ELSE Told(r.msg.fd)
    /\ UNCHANGED <<op, stored>>

(* Other handlers have not replied yet; or all have, and deleting "ready"  *)
(* from the reply's data raises.  The server adds that key to a shared     *)
(* dictionary after the put, and the feeder thread of each queue pickles   *)
(* the dictionary before or after that: the copy that went to this handler *)
(* and back has the key (ReplyCompletes) or not.                           *)
ReplyRecorded(h) ==
    /\ TakeReply(h)
    /\ LET r == Head(replies[h])
       IN  /\ ~Ignored(r.msg)
           /\ CanRecord(r)
           /\ stored' = [stored EXCEPT ![r.msg.fd] = Recorded(h, r)]
           /\ IF Matches(r.msg) THEN UNCHANGED client ELSE Told(r.msg.fd)
    /\ UNCHANGED op

(* The operation DB after the last reply, whatever the statuses say. *)
Applied(db, m) ==
    CASE m.kind = "create_group" ->
           IF CanCreateGroup(db, m.group)
           THEN [CreateGroupIn(db, m.group) EXCEPT !.groupRole[m.group] = m.role] ELSE db
      [] m.kind = "destroy_group" ->
           IF CanDestroyGroup(db, m.group)
           THEN [DestroyGroupIn(db, m.group) EXCEPT !.groupRole[m.group] = NoRole] ELSE db
      [] m.kind = "add_user" ->
           IF CanAddUser(db, m.user, m.group)
           THEN [AddUserIn(db, m.user, m.group) EXCEPT !.role[m.user] = m.role] ELSE db
      [] m.kind = "del_user" ->
           IF CanDelUser(db, m.user)
           THEN [DelUserIn(db, m.user) EXCEPT !.role[m.user] = NoRole] ELSE db
      [] m.kind = "user_join" ->
           IF CanJoin(db, m.user, m.group) THEN JoinIn(db, m.user, m.group) ELSE db
      [] m.kind = "user_leave" ->
           IF CanLeave(db, m.user, m.group) THEN LeaveIn(db, m.user, m.group) ELSE db

ReplyCompletes(h) ==
    /\ TakeReply(h)
    /\ LET r == Head(replies[h])
       IN  /\ ~Ignored(r.msg)
           /\ CanRecord(r)
           /\ AllReady(Recorded(h, r))
           /\ stored' = [stored EXCEPT ![r.msg.fd] = Recorded(h, r)]
           /\ op' = Applied(op, r.msg)
           /\ Told(r.msg.fd)

-----------------------------------------------------------------------------
ClientRequest(fd) ==
    \E x \in Users :
      \/ \E kind \in Kinds : Denied(fd, x, kind)
      \/ \E g \in Groups :
           \/ DestroyGroup(fd, x, g)
           \/ \E r \in RoleChoices : CreateGroup(fd, x, g, r) \/ ModifyGroup(fd, x, g, r)
           \/ \E u \in Users :
                \/ UserJoin(fd, x, u, g)
                \/ UserLeave(fd, x, u, g)
                \/ \E r \in RoleChoices : AddUser(fd, x, u, r, g)
           \/ \E p \in Ports : PortJoin(fd, x, p, g) \/ PortLeave(fd, x, p, g)
      \/ \E u \in Users :
           \/ DelUser(fd, x, u)
           \/ \E r \in RoleChoices : ModifyUserRole(fd, x, u, r)
      \/ \E p \in Ports, supported \in BOOLEAN : SetBaudRate(fd, x, p, supported)

Connection(fd) == Accept(fd) \/ PeerClose(fd) \/ CloseClient(fd)

HandlerStep(h) == HandlerServes(h) \/ HandlerCrashes(h)

ServerTakesReply(h) ==
    ReplyIgnored(h) \/ ReplyRaises(h) \/ ReplyRecorded(h) \/ ReplyCompletes(h)

Next ==
    \/ \E fd \in Fds : Connection(fd) \/ ClientRequest(fd)
    \/ \E h \in Handlers : HandlerStep(h) \/ HandlerStops(h) \/ ServerTakesReply(h)

Spec == Init /\ [][Next]_vars

(* A handler that lives polls its queue forever, and the server polls      *)
(* every reply queue in each iteration.  Nothing makes clients act, or a   *)
(* handler stop.                                                           *)
Fairness ==
    \A h \in Handlers : WF_vars(HandlerStep(h)) /\ WF_vars(ServerTakesReply(h))

FairSpec == Spec /\ Fairness

=============================================================================
