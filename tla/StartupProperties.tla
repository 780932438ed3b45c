-------------------------- MODULE StartupProperties --------------------------
(* What the start-up of the console server promises. *)
EXTENDS Startup

CONSTANTS
    Fds,           (* socket descriptors of management clients             *)
    None           (* the value of a field a message does not carry        *)

(* The server whose start this is.  Its management socket listens, but no  *)
(* client is accepted and no request read before the main loop.            *)
Server == INSTANCE ConsoleServer
          WITH alive <- [h \in Handlers |-> TRUE],
               client <- [fd \in Fds |-> "free"],
               stored <- [fd \in Fds |-> [kind |-> None]],
               sent <- 0, conns <- 0,
               Kinds <- {}, RoleChoices <- {}, MayStop <- {},
               MaxRequests <- 0, MaxConns <- 0

-----------------------------------------------------------------------------
Table == [users : SUBSET Users, groups : SUBSET Groups,
          member : SUBSET (Users \X Groups), ports : SUBSET (Ports \X Groups)]

ServerTable ==
    [users : SUBSET Users, groups : SUBSET Groups,
     member : SUBSET (Users \X Groups), ports : SUBSET (Ports \X Groups),
     role : [Users -> RoleNames], groupRole : [Groups -> RoleNames]]

Events == {"init_handler", "init_default_account", "init_serial_port"}

(* The variables hold what their declarations say. *)
TypeOK ==
    /\ phase \in {"starting", "handlers", "accounts", "ports", "serving", "ended"}
    /\ done \in SUBSET Handlers
    /\ handler \in [Handlers -> {"none", "starting", "running", "stopped"}]
    /\ config \in ServerTable
    /\ op \in ServerTable
    /\ hdb \in [Handlers -> Table]
    /\ queue \in [Handlers -> Seq(Events)]
    /\ replies \in [Handlers -> Seq([event : Events, ok : BOOLEAN])]
    /\ early \in 0..MaxEarly

(* When the main loop begins, the three databases and the queues are what  *)
(* ConsoleServer starts from: nothing of the start-up is still on its way  *)
(* (run() goes from the passes to daemon_main).  A handler may have ended  *)
(* after its last reply, which the server does not notice.                 *)
ServingMatchesServer == phase = "serving" => Server!Init

(* No table refuses what the start-up puts into it: the server never takes *)
(* one of the early returns of _init_handle_admin_user and                 *)
(* _init_handle_serial_port, and no handler answers "Failed".              *)
NothingIsRefused ==
    /\ phase # "ended"
    /\ \A h \in Handlers : \A i \in DOMAIN replies[h] : replies[h][i].ok

(* A pass finds only replies to its own question, one of a handler at      *)
(* most, and none of a handler that it is done with: the code drops any    *)
(* other, and would wait for ever for the one it has dropped.              *)
RepliesAreAwaited ==
    \A h \in Handlers : replies[h] # <<>> =>
        /\ h \notin done
        /\ Len(replies[h]) = 1
        /\ phase = "starting" => replies[h][1].event = "init_handler"
        /\ phase # "starting" => phase \in DOMAIN Awaited /\ IsGood(replies[h][1])

(* The operation DB names a port only after its handler has created it, so *)
(* that no request for it can be passed on too early.                      *)
PortsExistAtHandlers ==
    \A p \in Ports : <<p, DefaultGroup>> \in op.ports =>
        <<p, DefaultGroup>> \in hdb[HandlerOf(p)].ports

-----------------------------------------------------------------------------
(* A handler that has ended and whose reply this pass has not seen. *)
Lost(h) == handler[h] = "stopped" /\ h \notin done /\ replies[h] = <<>>

(* Such a handler stops the start-up for good: a pass has no limit of time *)
(* and asks nobody whether the process lives.                              *)
LostHandlerBlocks ==
    [][\A h \in Handlers : Lost(h) =>
         Lost(h)' /\ (phase' = phase \/ phase = "starting") ]_vars

(* Unless a handler ends, the server gets to its main loop. *)
StartupCompletes ==
    <>(phase = "serving" \/ \E h \in Handlers : handler[h] = "stopped")

=============================================================================
