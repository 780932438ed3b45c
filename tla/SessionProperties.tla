-------------------------- MODULE SessionProperties --------------------------
(* What the sessions of a handler keep, and what they lose. *)
EXTENDS HandlerSessions

-----------------------------------------------------------------------------
(* Types *)

Table == [users : SUBSET Users, groups : SUBSET Groups,
          member : SUBSET (Users \X Groups), ports : SUBSET (Ports \X Groups)]

PeerStates == {"none", "connected", "asking", "session", "refused", "closed"}

(* The variables hold what their declarations say; a port has at most one  *)
(* user counted, whatever the number of its sessions.                      *)
TypeOK ==
    /\ alive \in BOOLEAN
    /\ phase \in {"requests", "sessions", "ports"}
    /\ events \in SUBSET (Fds \cup {Listener})
    /\ cursor \in Ports
    /\ table \in Table
    /\ pending \in SUBSET Fds
    /\ portOf \in [Fds -> Ports \cup {None}]
    /\ sessions \in [Ports -> SUBSET Fds]
    /\ opened \in [Ports -> BOOLEAN]
    /\ current \in [Ports -> {0, 1}]
    /\ peer \in [Fds -> PeerStates]
    /\ inbox \in [Fds -> ConnectRequest \cup {None, Typed}]
    /\ answers \in [Fds -> Seq({"OK", "Fail"})]
    /\ asked \in [Fds -> Ports \cup {None}]
    /\ device \in [Ports -> BOOLEAN]
    /\ arrived \in [Ports -> 0..MaxChunks]
    /\ taken \in [Ports -> 0..MaxChunks]
    /\ position \in [Fds -> 0..MaxChunks]
    /\ messages \in 0..MaxMessages
    /\ conns \in 0..MaxConns

-----------------------------------------------------------------------------
(* Descriptors and ports *)

(* The tables of descriptors fit together: an open descriptor is either a  *)
(* pending connection or the session of exactly one port, a closed one is  *)
(* in no table, so a new connection that gets its number meets no trace of *)
(* the old one (_accept_new_client, _connect_serial_port and               *)
(* _close_client_socket each change several of them).                      *)
DescriptorsFit ==
    /\ \A fd \in Fds : peer[fd] = "none" <=> fd \notin pending /\ portOf[fd] = None
    /\ \A fd \in pending : portOf[fd] = None
    /\ \A p \in Ports, fd \in Fds : fd \in sessions[p] <=> portOf[fd] = p

(* A session is on an open port, and a port is open exactly when one user  *)
(* is counted: close_com_port, which would count down, is never called.    *)
SessionsOnOpenPorts ==
    \A p \in Ports :
        /\ sessions[p] # {} => opened[p]
        /\ opened[p] <=> current[p] = 1

(* Every session of a port has been sent all the data read from the port   *)
(* since it joined, however sessions come and go meanwhile                 *)
(* (process_serial_port_data and _handle_serial_port_data).                *)
SessionsSeeAllData ==
    \A p \in Ports : \A fd \in sessions[p] : position[fd] = taken[p]

(* An event that has been polled is still there when its turn comes: the   *)
(* events handled before it have not closed its descriptor or moved it.    *)
EventsStayValid ==
    \A fd \in events \ {Listener} :
        /\ Readable(fd)
        /\ \/ phase = "requests" /\ fd \in pending
           \/ phase = "sessions" /\ portOf[fd] # None

(* A client that believes to have a session has one, and on the port it    *)
(* asked for, until the handler closes the connection or ends: the request *)
(* of one connection never opens the port of another, nor that of the      *)
(* connection that had its number before (_connect_serial_port).           *)
ClientsAreServed ==
    \A fd \in Fds : peer[fd] = "session" => portOf[fd] # None /\ portOf[fd] = asked[fd]

-----------------------------------------------------------------------------
(* Liveness *)

(* A request that has been sent is answered, or ends the handler, even     *)
(* while other clients and the devices keep the loop busy.                 *)
RequestsAreRead ==
    \A fd \in Fds : inbox[fd] \in ConnectRequest ~> inbox[fd] \notin ConnectRequest \/ ~alive

(* The session of a client that has hung up goes away.                     *)
ClosedSessionsGo ==
    \A fd \in Fds :
        portOf[fd] # None /\ peer[fd] = "closed" ~> portOf[fd] = None \/ ~alive

(* Data that waits at the first port is read.                              *)
FirstPortIsRead ==
    taken[1] < arrived[1] ~> taken[1] = arrived[1] \/ ~alive

=============================================================================
