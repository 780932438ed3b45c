------------------------------- MODULE Startup -------------------------------
(***************************************************************************)
(* How the console server gets to the state in which ConsoleServer starts. *)
(*                                                                         *)
(* The server starts its handler processes and then goes through three     *)
(* passes, each of which waits until every handler has sent one good       *)
(* reply: that it has started, that it has the default account, that it    *)
(* has its serial ports.  A pass looks at the handlers in turn, without    *)
(* waiting for any of them, until all are done; it has no limit of time.   *)
(*                                                                         *)
(* A handler listens to clients as soon as it has started, and the SSH     *)
(* server starts next to the console server, so sessions may ask for a     *)
(* port before the handler knows the port or the user.  Its ordinary loop  *)
(* (HandlerSessions) then ends the process.                                *)
(***************************************************************************)
EXTENDS Integers, Sequences, FiniteSets, AccountDb

CONSTANTS
    NumHandlers,   (* MAX_HANDLER_PROCESS, 8 in the code                   *)
    Ports,         (* serial port ids, 1..48 in the code                   *)
    Users,         (* user names                                           *)
    Groups,        (* group names                                          *)
    Admin,         (* DEFAULT_USER_ACCOUNT                                 *)
    DefaultGroup,  (* DEFAULT_GROUP_NAME                                   *)
    MaxEarly       (* bound: clients that reach a handler meanwhile        *)

ASSUME StartupAssumption ==
    /\ NumHandlers \in Nat \ {0}
    /\ Ports \subseteq Nat \ {0}
    /\ Admin \in Users /\ DefaultGroup \in Groups
    /\ MaxEarly \in Nat

Handlers == 0..(NumHandlers - 1)

(* The serial port group a port joins, and the handler the group goes to. *)
HandlerOf(p) == (p - 1) % NumHandlers

VARIABLES
    phase,     (* the pass of the server, "serving" in its main loop,      *)
               (* "ended" when an early return has ended it                *)
    done,      (* the handlers whose good reply this pass has taken        *)
    handler,   (* process of each handler: "none", "starting" (no socket   *)
               (* yet), "running", "stopped"                               *)
    config,    (* _ConsoleServerConfigDb, its account part                 *)
    op,        (* _ConsoleServerOpDb, its account part                     *)
    hdb,       (* _ConsolerServerHandlerDb of each handler, account part   *)
    queue,     (* server -> handler messages: kinds of event               *)
    replies,   (* handler -> server messages: event and result             *)
    early      (* clients that have reached a handler so far (bound)       *)

vars == <<phase, done, handler, config, op, hdb, queue, replies, early>>

EmptyTable == [users |-> {}, groups |-> {}, member |-> {}, ports |-> {}]

EmptyServerTable ==
    [users |-> {}, groups |-> {}, member |-> {}, ports |-> {},
     role |-> [u \in Users |-> NoRole], groupRole |-> [g \in Groups |-> NoRole]]

Init ==
    /\ phase = "starting"
    /\ done = {}
    /\ handler = [h \in Handlers |-> "none"]
    /\ config = EmptyServerTable
    /\ op = EmptyServerTable
    /\ hdb = [h \in Handlers |-> EmptyTable]
    /\ queue = [h \in Handlers |-> <<>>]
    /\ replies = [h \in Handlers |-> <<>>]
    /\ early = 0

-----------------------------------------------------------------------------
(* The server *)

(* _init_console_handler: queues and processes, in the order of their ids. *)
StartHandler(h) ==
    /\ phase = "starting"
    /\ handler[h] = "none"
    /\ \A lower \in 0..(h - 1) : handler[lower] # "none"
    /\ handler' = [handler EXCEPT ![h] = "starting"]
    /\ phase' = IF h = NumHandlers - 1 THEN "handlers" ELSE phase
    /\ UNCHANGED <<done, config, op, hdb, queue, replies, early>>

(* The event a pass waits for. *)
Awaited == [handlers |-> "init_handler", accounts |-> "init_default_account",
            ports |-> "init_serial_port"]

PortsOf(h) == {p \in Ports : HandlerOf(p) = h}

DefaultPorts(h) == {<<p, DefaultGroup>> : p \in PortsOf(h)}

(* The loop over the ports of a handler stops at the first that is there.  *)
NewPorts(db, h) ==
    {<<p, DefaultGroup>> : p \in {q \in PortsOf(h) :
        \A r \in PortsOf(h) : r <= q => CanPortJoin(db, r, DefaultGroup)}}

IsGood(r) == r.event = Awaited[phase] /\ r.ok

(* Wrong on purpose: a handler that has replied is asked again. *)
ServerTakesForgetting(h) ==
    /\ phase \in DOMAIN Awaited
    /\ replies[h] # <<>>
    /\ replies' = [replies EXCEPT ![h] = Tail(@)]
    /\ done' = {h}
    /\ op' = IF phase = "ports" THEN [op EXCEPT !.ports = @ \cup DefaultPorts(h)] ELSE op
    /\ UNCHANGED <<phase, handler, config, hdb, queue, early>>

(***************************************************************************)
(* One turn of a pass.  A reply that is not good is dropped.  A good one   *)
(* of the last pass puts the ports of the handler in the operation DB, and *)
(* one that is there already ends the server.                              *)
(***************************************************************************)
ServerTakes(h) ==
    /\ phase \in DOMAIN Awaited
    /\ h \notin done
    /\ replies[h] # <<>>
    /\ replies' = [replies EXCEPT ![h] = Tail(@)]
    /\ LET good == IsGood(Head(replies[h]))
           new  == NewPorts(op, h)
       IN  /\ done' = IF good THEN done \cup {h} ELSE done
           /\ op' = IF good /\ phase = "ports" THEN [op EXCEPT !.ports = @ \cup new] ELSE op
           /\ phase' = IF good /\ phase = "ports" /\ new # DefaultPorts(h)
                       THEN "ended" ELSE phase
    /\ UNCHANGED <<handler, config, hdb, queue, early>>

(* Every handler has replied: the pass ends. *)
PassEnds(p) == phase = p /\ done = Handlers

Broadcast(event) ==
    queue' = [h \in Handlers |-> Append(queue[h], event)]

(* create_group and add_user_account.  The call for the configuration DB   *)
(* passes group and role in each other's place, which shows nowhere since  *)
(* DEFAULT_GROUP_NAME and DEFAULT_ROLE are the same string.                *)
WithAdmin(db) ==
    [AddUserIn(CreateGroupIn(db, DefaultGroup), Admin, DefaultGroup)
       EXCEPT !.role[Admin] = "admin", !.groupRole[DefaultGroup] = "admin"]

CanHaveAdmin(db) ==
    /\ CanCreateGroup(db, DefaultGroup)
    /\ CanAddUser(CreateGroupIn(db, DefaultGroup), Admin, DefaultGroup)

(* Wrong on purpose: the first good reply ends the pass. *)
SendAccountsEarly ==
    /\ phase = "handlers" /\ done # {}
    /\ config' = WithAdmin(config)
    /\ Broadcast("init_default_account")
    /\ phase' = "accounts"
    /\ done' = {}
    /\ UNCHANGED <<handler, op, hdb, replies, early>>

(* _check_handler_init_complete returns, then the first half of            *)
(* _init_handle_admin_user.                                                *)
SendAccounts ==
    /\ PassEnds("handlers")
    /\ IF CanHaveAdmin(config)
       THEN /\ config' = WithAdmin(config)
            /\ Broadcast("init_default_account")
            /\ phase' = "accounts"
            /\ done' = {}
       ELSE /\ phase' = "ended"
            /\ UNCHANGED <<config, queue, done>>
    /\ UNCHANGED <<handler, op, hdb, replies, early>>

(* Wrong on purpose: the operation DB gets the ports when they are sent. *)
SendPortsEarly ==
    /\ PassEnds("accounts")
    /\ op' = [WithAdmin(op) EXCEPT !.ports = {<<p, DefaultGroup>> : p \in Ports}]
    /\ Broadcast("init_serial_port")
    /\ phase' = "ports"
    /\ done' = {}
    /\ UNCHANGED <<handler, config, hdb, replies, early>>

(* Wrong on purpose: the default account is left out of the operation DB. *)
SendPortsNoAdmin ==
    /\ PassEnds("accounts")
    /\ Broadcast("init_serial_port")
    /\ phase' = "ports"
    /\ done' = {}
    /\ UNCHANGED <<handler, config, op, hdb, replies, early>>

(* The second half of _init_handle_admin_user, then the first half of      *)
(* _init_handle_serial_port: the configuration DB gets the ports without a *)
(* group.                                                                  *)
SendPorts ==
    /\ PassEnds("accounts")
    /\ IF CanHaveAdmin(op)
       THEN /\ op' = WithAdmin(op)
            /\ Broadcast("init_serial_port")
            /\ phase' = "ports"
            /\ done' = {}
       ELSE /\ phase' = "ended"
            /\ UNCHANGED <<op, queue, done>>
    /\ UNCHANGED <<handler, config, hdb, replies, early>>

(* Wrong on purpose: one handler with its ports is enough. *)
ServeWithSome ==
    /\ phase = "ports" /\ done # {}
    /\ phase' = "serving"
    /\ UNCHANGED <<done, handler, config, op, hdb, queue, replies, early>>

Serve ==
    /\ PassEnds("ports")
    /\ phase' = "serving"
    /\ UNCHANGED <<done, handler, config, op, hdb, queue, replies, early>>

-----------------------------------------------------------------------------
(* The handlers *)

Answer(h, event, ok) ==
    replies' = [replies EXCEPT ![h] = Append(@, [event |-> event, ok |-> ok])]

(* init_console_server_handler: the socket is open, the server is told. *)
HandlerStarts(h) ==
    /\ handler[h] = "starting"
    /\ handler' = [handler EXCEPT ![h] = "running"]
    /\ Answer(h, "init_handler", TRUE)
    /\ UNCHANGED <<phase, done, config, op, hdb, queue, early>>

(* The socket cannot be opened: the process ends and tells nobody. *)
HandlerCannotStart(h) ==
    /\ handler[h] = "starting"
    /\ handler' = [handler EXCEPT ![h] = "stopped"]
    /\ UNCHANGED <<phase, done, config, op, hdb, queue, replies, early>>

Takes(h, event) ==
    /\ handler[h] = "running"
    /\ queue[h] # <<>> /\ Head(queue[h]) = event
    /\ queue' = [queue EXCEPT ![h] = Tail(@)]
    /\ UNCHANGED <<phase, done, handler, config, op, early>>

(* A user that cannot be added leaves the group behind. *)
InitAccount(h) ==
    /\ Takes(h, "init_default_account")
    /\ LET group   == CanCreateGroup(hdb[h], DefaultGroup)
           created == CreateGroupIn(hdb[h], DefaultGroup)
           user    == CanAddUser(created, Admin, DefaultGroup)
       IN  /\ hdb' = [hdb EXCEPT ![h] = IF ~group THEN @
                                        ELSE IF ~user THEN created
                                        ELSE AddUserIn(created, Admin, DefaultGroup)]
           /\ Answer(h, "init_default_account", group /\ user)

(* Creating a serial port object opens no device and cannot fail; a port   *)
(* that is there already ends the loop, and the ones before it stay.       *)
InitPorts(h) ==
    /\ Takes(h, "init_serial_port")
    /\ hdb' = [hdb EXCEPT ![h].ports = @ \cup NewPorts(hdb[h], h)]
    /\ Answer(h, "init_serial_port", NewPorts(hdb[h], h) = DefaultPorts(h))

-----------------------------------------------------------------------------
(* Clients that reach a handler while the server starts. *)

EarlyClient(h) ==
    /\ handler[h] = "running"
    /\ early < MaxEarly
    /\ early' = early + 1
    /\ UNCHANGED <<phase, done, config, op, hdb, queue, replies>>

KnowsPort(h, p) == \E m \in hdb[h].ports : m[1] = p

(* A request for a port or by a user the handler has not been told of      *)
(* fails after the connection has left the pending ones, so that closing   *)
(* it fails as well, which ends the loop.  Any other gets its session.     *)
EarlyRequest(h, x, p) ==
    /\ EarlyClient(h)
    /\ p \in PortsOf(h)
    /\ handler' = IF KnowsPort(h, p) /\ x \in hdb[h].users THEN handler
                  ELSE [handler EXCEPT ![h] = "stopped"]

(* A connection closed before its request: the empty read is no request.   *)
(* It stands for everything else that ends the loop of a handler as well.  *)
EarlyHangUp(h) ==
    /\ EarlyClient(h)
    /\ handler' = [handler EXCEPT ![h] = "stopped"]

-----------------------------------------------------------------------------
ServerStep ==
    \/ \E h \in Handlers : StartHandler(h) \/ ServerTakes(h)
    \/ SendAccounts \/ SendPorts \/ Serve

HandlerStep(h) ==
    HandlerStarts(h) \/ HandlerCannotStart(h) \/ InitAccount(h) \/ InitPorts(h)

EarlyStep(h) ==
    EarlyHangUp(h) \/ (\E x \in Users, p \in Ports : EarlyRequest(h, x, p))

Next == ServerStep \/ (\E h \in Handlers : HandlerStep(h) \/ EarlyStep(h))

Spec == Init /\ [][Next]_vars

(* Every pass of the server and the loop of every handler poll for ever.   *)
FairSpec == Spec /\ WF_vars(ServerStep) /\ \A h \in Handlers : WF_vars(HandlerStep(h))

=============================================================================
