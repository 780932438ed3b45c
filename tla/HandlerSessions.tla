--------------------------- MODULE HandlerSessions ---------------------------
(***************************************************************************)
(* The sessions of one handler process: its socket, the connections that   *)
(* wait for their first request, the sessions on serial ports, the ports,  *)
(* and the clients (menus of SSH sessions) at the other end.               *)
(*                                                                         *)
(* run() goes round four parts: the server socket and the pending          *)
(* connections, one message of the server, the sessions, the ports.  The   *)
(* first and the third poll once and then handle the events one by one; an *)
(* action is one event.  An error that reaches run(), and an exception     *)
(* anywhere, end the process: Stops.                                       *)
(***************************************************************************)
EXTENDS Naturals, FiniteSets, Sequences, AccountDb

CONSTANTS
    NumPorts,      (* serial ports of the handler, 6 in the code           *)
    Users,         (* user names                                           *)
    Groups,        (* group names                                          *)
    Admin,         (* DEFAULT_USER_ACCOUNT                                 *)
    DefaultGroup,  (* DEFAULT_GROUP_NAME                                   *)
    Fds,           (* descriptors left for client sockets                  *)
    None,          (* no request, no port                                  *)
    Typed,         (* what a user has typed                                *)
    Listener,      (* the event of the listening socket                    *)
    Kinds,         (* bound: the messages the server sends                 *)
    MaxMessages,   (* bound: messages of the server                        *)
    MaxConns,      (* bound: connections of clients                        *)
    MaxChunks      (* bound: pieces of data a serial device sends          *)

(* The ports in the order of _serial_port_info_dict. *)
Ports == 1..NumPorts

ConnectRequest == [user : Users, port : Ports]

Messages ==
    [kind : Kinds, user : Users, group : Groups, port : Ports]

ASSUME SessionsAssumption ==
    /\ NumPorts \in Nat \ {0}
    /\ Admin \in Users /\ DefaultGroup \in Groups
    /\ Fds \subseteq Nat
    /\ None \notin Ports /\ None # Typed /\ None \notin ConnectRequest
    /\ Typed \notin ConnectRequest
    /\ Listener \notin Fds
    /\ Kinds \subseteq {"create_group", "destroy_group", "add_user", "del_user",
                        "user_join", "user_leave", "port_join", "set_baud_rate"}
    /\ MaxMessages \in Nat /\ MaxConns \in Nat /\ MaxChunks \in Nat

VARIABLES
    (* the handler *)
    alive,       (* FALSE once the process has ended                       *)
    phase,       (* the part of the loop: "requests", "sessions", "ports"  *)
    events,      (* polled and not handled yet                             *)
    cursor,      (* the port the third part looks at next                  *)
    table,       (* _group_dict, _user_dict and the groups of the ports    *)
    pending,     (* keys of _pending_conn_dict, registered in the epoll    *)
    portOf,      (* _client_socket_dict: the port of a session or None     *)
    sessions,    (* fd_dict of each port                                   *)
    opened,      (* is_open of each serial object                          *)
    current,     (* _current_user of each port                             *)
    (* the clients, by the handler's descriptor for their connection *)
    peer,        (* "none", "connected", "asking", "session", "refused",   *)
                 (* "closed"                                               *)
    inbox,       (* what the handler has not read: None, a request, Typed  *)
    answers,     (* replies of the handler the client has not read         *)
    asked,       (* the port of the client's request, or None (history)    *)
    (* the devices *)
    device,      (* plugged in                                             *)
    arrived,     (* pieces of data the device has sent to the open port    *)
    taken,       (* pieces the handler has read                            *)
    position,    (* the last piece the client was sent, or the one before  *)
                 (* it joined                                              *)
    messages,    (* messages served so far (bound)                         *)
    conns        (* connections accepted so far (bound)                    *)

loop == <<phase, events, cursor>>
tables == <<pending, portOf, sessions>>
serial == <<opened, current>>
clients == <<peer, inbox, answers, asked>>
data == <<device, arrived, taken, position>>
bounds == <<messages, conns>>

vars == <<alive, loop, table, tables, serial, clients, data, bounds>>

(* Right after the initialisation messages of the server. *)
Init ==
    /\ alive = TRUE
    /\ phase = "requests" /\ events = {} /\ cursor = 1
    /\ table = [users |-> {Admin}, groups |-> {DefaultGroup},
                member |-> {<<Admin, DefaultGroup>>},
                ports |-> {<<p, DefaultGroup>> : p \in Ports}]
    /\ pending = {}
    /\ portOf = [fd \in Fds |-> None]
    /\ sessions = [p \in Ports |-> {}]
    /\ opened = [p \in Ports |-> FALSE]
    /\ current = [p \in Ports |-> 0]
    /\ peer = [fd \in Fds |-> "none"]
    /\ inbox = [fd \in Fds |-> None]
    /\ answers = [fd \in Fds |-> <<>>]
    /\ asked = [fd \in Fds |-> None]
    /\ device \in [Ports -> BOOLEAN]
    /\ arrived = [p \in Ports |-> 0]
    /\ taken = [p \in Ports |-> 0]
    /\ position = [fd \in Fds |-> 0]
    /\ messages = 0 /\ conns = 0

-----------------------------------------------------------------------------
(* Clients (ServerControlSerialAccessMode).  The request names a user the  *)
(* server may not have, and a port of this handler.                        *)

SendRequest(fd, u, p) ==
    /\ peer[fd] = "connected"
    /\ peer' = [peer EXCEPT ![fd] = "asking"]
    /\ inbox' = [inbox EXCEPT ![fd] = [user |-> u, port |-> p]]
    /\ asked' = [asked EXCEPT ![fd] = p]
    /\ UNCHANGED <<alive, loop, table, tables, serial, answers, data, bounds>>

(* Only the first reply is taken for one. *)
ReadAnswer(fd) ==
    /\ peer[fd] = "asking"
    /\ answers[fd] # <<>>
    /\ peer' = [peer EXCEPT ![fd] = IF Head(answers[fd]) = "OK" THEN "session" ELSE "refused"]
    /\ answers' = [answers EXCEPT ![fd] = Tail(@)]
    /\ UNCHANGED <<alive, loop, table, tables, serial, inbox, asked, data, bounds>>

(* A refused client stays connected and, at the next visit of its          *)
(* listener, asks again: what it sends is typed text to the handler, and   *)
(* the reply it then reads is the second one to its first request.         *)
AskAgain(fd) ==
    /\ peer[fd] = "refused"
    /\ inbox[fd] = None
    /\ peer' = [peer EXCEPT ![fd] = "asking"]
    /\ inbox' = [inbox EXCEPT ![fd] = Typed]
    /\ UNCHANGED <<alive, loop, table, tables, serial, answers, asked, data, bounds>>

Type(fd) ==
    /\ peer[fd] = "session"
    /\ inbox[fd] = None
    /\ inbox' = [inbox EXCEPT ![fd] = Typed]
    /\ UNCHANGED <<alive, loop, table, tables, serial, peer, answers, asked, data, bounds>>

(* Control-T, or the end of the SSH session at any time. *)
HangUp(fd) ==
    /\ peer[fd] \in {"connected", "asking", "session", "refused"}
    /\ peer' = [peer EXCEPT ![fd] = "closed"]
    /\ answers' = [answers EXCEPT ![fd] = <<>>]
    /\ UNCHANGED <<alive, loop, table, tables, serial, inbox, asked, data, bounds>>

Client(fd) ==
    \/ \E u \in Users, p \in Ports : SendRequest(fd, u, p)
    \/ ReadAnswer(fd) \/ AskAgain(fd) \/ Type(fd) \/ HangUp(fd)

-----------------------------------------------------------------------------
(* Serial devices. *)

DeviceSends(p) ==
    /\ device[p] /\ opened[p]
    /\ arrived[p] < MaxChunks
    /\ arrived' = [arrived EXCEPT ![p] = @ + 1]
    /\ UNCHANGED <<alive, loop, table, tables, serial, clients, device, taken, position, bounds>>

(* An unplugged device does not come back. *)
Unplug(p) ==
    /\ device[p]
    /\ device' = [device EXCEPT ![p] = FALSE]
    /\ UNCHANGED <<alive, loop, table, tables, serial, clients, arrived, taken, position, bounds>>

Device(p) == DeviceSends(p) \/ Unplug(p)

-----------------------------------------------------------------------------
(***************************************************************************)
(* The loop.                                                               *)
(***************************************************************************)

(* What the process leaves behind does not matter. *)
Stops ==
    /\ alive' = FALSE
    /\ UNCHANGED <<phase, cursor, table, tables, serial, clients, data, bounds>>

(* Wrong on purpose: a connection closed by its peer is not readable. *)
ReadableOpen(fd) == inbox[fd] # None

Readable(fd) == inbox[fd] # None \/ peer[fd] = "closed"

(* Wrong on purpose: pending connections are not registered. *)
PollListener ==
    /\ phase' = "requests"
    /\ \E waiting \in {{}, IF conns < MaxConns THEN {Listener} ELSE {}} : events' = waiting

(* The listening socket is ready when a client tries to connect. *)
PollRequests ==
    /\ phase' = "requests"
    /\ \E waiting \in {{}, IF conns < MaxConns THEN {Listener} ELSE {}} :
          events' = waiting \cup {fd \in pending : Readable(fd)}

Event(e, part) ==
    /\ alive /\ phase = part
    /\ e \in events
    /\ events' = events \ {e}

-----------------------------------------------------------------------------
(* The server socket and the pending connections. *)

(* accept fails when the process has no descriptor left. *)
AcceptFails ==
    /\ Event(Listener, "requests")
    /\ \A fd \in Fds : peer[fd] # "none"
    /\ Stops

Accept(fd) ==
    /\ Event(Listener, "requests")
    /\ peer[fd] = "none"
    /\ \A other \in Fds : peer[other] = "none" => fd <= other
    /\ IF fd \in pending
       THEN Stops
       ELSE /\ pending' = pending \cup {fd}
            /\ peer' = [peer EXCEPT ![fd] = "connected"]
            /\ conns' = conns + 1
            /\ UNCHANGED <<alive, phase, cursor, table, portOf, sessions, serial,
                           inbox, answers, asked, data, messages>>

(* recv returns b"", which is not "": the empty text goes to the JSON      *)
(* parser, whose exception nothing catches.                                *)
ReadsNothing(fd) ==
    /\ Event(fd, "requests")
    /\ inbox[fd] = None
    /\ Stops

Shared(u, p) == {g \in GroupsOf(table, u) : <<p, g>> \in table.ports}

(* Wrong on purpose: the user is not counted. *)
OpenPortUncounted(p) ==
    /\ device[p]
    /\ opened' = [opened EXCEPT ![p] = TRUE]
    /\ UNCHANGED current

(* open_com_port tries nothing when the port has a user. *)
OpenPort(p) ==
    \/ (opened[p] \/ current[p] > 0) /\ UNCHANGED serial
    \/ /\ ~opened[p] /\ current[p] = 0 /\ device[p]
       /\ opened' = [opened EXCEPT ![p] = TRUE]
       /\ current' = [current EXCEPT ![p] = @ + 1]

(* Any failure after the connection has left the pending ones ends the     *)
(* process, since _close_pending_connection finds no such connection: an   *)
(* unknown user, a descriptor still in the table, a port that does not     *)
(* open, a reply the client is not there for.                              *)
ConnectFails(fd) ==
    /\ Event(fd, "requests")
    /\ inbox[fd] \in ConnectRequest
    /\ LET r == inbox[fd]
       IN  \/ r.user \notin table.users
           \/ portOf[fd] # None
           \/ peer[fd] = "closed"
           \/ ~opened[r.port] /\ current[r.port] = 0
    /\ Stops

(* "Check if port and user are in the same group": those that are get a    *)
(* refusal, and the request goes on as for everybody else.                 *)
AnswersTo(r) == IF Shared(r.user, r.port) # {} THEN <<"Fail", "OK">> ELSE <<"OK">>

Connect(fd) ==
    /\ Event(fd, "requests")
    /\ inbox[fd] \in ConnectRequest
    /\ portOf[fd] = None
    /\ peer[fd] # "closed"
    /\ LET r == inbox[fd]
           p == r.port
       IN  /\ r.user \in table.users
           /\ OpenPort(p)
           /\ pending' = pending \ {fd}
           /\ portOf' = [portOf EXCEPT ![fd] = p]
           /\ sessions' = [sessions EXCEPT ![p] = @ \cup {fd}]
           /\ answers' = [answers EXCEPT ![fd] = AnswersTo(r)]
           /\ position' = [position EXCEPT ![fd] = taken[p]]
    /\ inbox' = [inbox EXCEPT ![fd] = None]
    /\ UNCHANGED <<alive, phase, cursor, table, peer, asked, device, arrived, taken, bounds>>

-----------------------------------------------------------------------------
(* One message of the server, then the poll of the sessions. *)

(* Wrong on purpose: one epoll for both tables. *)
PollEverything ==
    /\ phase' = "sessions"
    /\ events' = {fd \in Fds : (portOf[fd] # None \/ fd \in pending) /\ Readable(fd)}

PollSessions ==
    /\ phase' = "sessions"
    /\ events' = {fd \in Fds : portOf[fd] # None /\ Readable(fd)}

NoMessage ==
    /\ alive /\ phase = "requests" /\ events = {}
    /\ PollSessions
    /\ UNCHANGED <<alive, cursor, table, tables, serial, clients, data, bounds>>

ServeMessage ==
    /\ alive /\ phase = "requests" /\ events = {}
    /\ messages < MaxMessages
    /\ messages' = messages + 1
    /\ \E m \in Messages :
          /\ m.kind # "set_baud_rate"
          /\ table' = IF Succeeds(table, m) THEN Effect(table, m) ELSE table
    /\ PollSessions
    /\ UNCHANGED <<alive, cursor, tables, serial, clients, data, conns>>

(* The baud rate message carries no data, see ConsoleServer. *)
BadMessage ==
    /\ alive /\ phase = "requests" /\ events = {}
    /\ messages < MaxMessages
    /\ \E m \in Messages : m.kind = "set_baud_rate"
    /\ Stops
    /\ UNCHANGED events

-----------------------------------------------------------------------------
(* The sessions. *)

(* Wrong on purpose: the port keeps the socket. *)
CloseSessionHalf(fd) ==
    /\ portOf' = [portOf EXCEPT ![fd] = None]
    /\ peer' = [peer EXCEPT ![fd] = "none"]
    /\ inbox' = [inbox EXCEPT ![fd] = None]
    /\ answers' = [answers EXCEPT ![fd] = <<>>]
    /\ asked' = [asked EXCEPT ![fd] = None]
    /\ UNCHANGED sessions

(* Wrong on purpose: the tables forget the socket, which stays open. *)
CloseSessionOpen(fd) ==
    /\ portOf' = [portOf EXCEPT ![fd] = None]
    /\ sessions' = [sessions EXCEPT ![portOf[fd]] = @ \ {fd}]
    /\ UNCHANGED clients

CloseSession(fd) ==
    /\ portOf' = [portOf EXCEPT ![fd] = None]
    /\ sessions' = [sessions EXCEPT ![portOf[fd]] = @ \ {fd}]
    /\ peer' = [peer EXCEPT ![fd] = "none"]
    /\ inbox' = [inbox EXCEPT ![fd] = None]
    /\ answers' = [answers EXCEPT ![fd] = <<>>]
    /\ asked' = [asked EXCEPT ![fd] = None]

(* The end of the stream, after everything the client has typed; an error  *)
(* when the client left data unread. *)
SessionEnds(fd) ==
    /\ Event(fd, "sessions")
    /\ peer[fd] = "closed" /\ inbox[fd] = None
    /\ CloseSession(fd)
    /\ UNCHANGED <<alive, phase, cursor, table, pending, serial, data, bounds>>

(* Written, or dropped when the port is busy. *)
SessionWrites(fd) ==
    /\ Event(fd, "sessions")
    /\ inbox[fd] = Typed
    /\ opened[portOf[fd]] /\ device[portOf[fd]]
    /\ inbox' = [inbox EXCEPT ![fd] = None]
    /\ UNCHANGED <<alive, phase, cursor, table, tables, serial, peer, answers, asked, data,
                   bounds>>

(* The port does not take the data: the session is closed. *)
SessionFails(fd) ==
    /\ Event(fd, "sessions")
    /\ inbox[fd] = Typed
    /\ ~(opened[portOf[fd]] /\ device[portOf[fd]])
    /\ CloseSession(fd)
    /\ UNCHANGED <<alive, phase, cursor, table, pending, serial, data, bounds>>

(* Wrong on purpose: the last port only. *)
SessionsDoneLast ==
    /\ alive /\ phase = "sessions" /\ events = {}
    /\ phase' = "ports"
    /\ cursor' = NumPorts
    /\ UNCHANGED <<alive, events, table, tables, serial, clients, data, bounds>>

SessionsDone ==
    /\ alive /\ phase = "sessions" /\ events = {}
    /\ phase' = "ports"
    /\ cursor' = 1
    /\ UNCHANGED <<alive, events, table, tables, serial, clients, data, bounds>>

-----------------------------------------------------------------------------
(* The ports, in order. *)

(* A port that is closed or has nothing to read ends the whole round. *)
RoundEnds ==
    /\ alive /\ phase = "ports"
    /\ \/ ~opened[cursor]
       \/ device[cursor] /\ taken[cursor] = arrived[cursor]
    /\ PollRequests
    /\ UNCHANGED <<alive, cursor, table, tables, serial, clients, data, bounds>>

(* An open port whose device is gone cannot tell what is waiting; a client *)
(* that has gone cannot be sent the data, and the error path unpacks a     *)
(* number as a pair.                                                       *)
PortFails ==
    /\ alive /\ phase = "ports"
    /\ opened[cursor]
    /\ \/ ~device[cursor]
       \/ /\ taken[cursor] < arrived[cursor]
          /\ \E fd \in sessions[cursor] : peer[fd] = "closed"
    /\ Stops
    /\ UNCHANGED events

(* Wrong on purpose: the first session only. *)
SentFirst(p) ==
    [fd \in Fds |-> IF fd \in sessions[p] /\ \A g \in sessions[p] : fd <= g
                    THEN arrived[p] ELSE position[fd]]

Sent(p) == [fd \in Fds |-> IF fd \in sessions[p] THEN arrived[p] ELSE position[fd]]

(* Wrong on purpose: the loop goes one port too far. *)
LastPortMissed(p) == p > NumPorts

LastPort(p) == p = NumPorts

(* Everything that waits at the port goes to each of its sessions. *)
PortServes ==
    /\ alive /\ phase = "ports"
    /\ opened[cursor] /\ device[cursor]
    /\ taken[cursor] < arrived[cursor]
    /\ \A fd \in sessions[cursor] : peer[fd] # "closed"
    /\ taken' = [taken EXCEPT ![cursor] = arrived[cursor]]
    /\ position' = Sent(cursor)
    /\ IF LastPort(cursor)
       THEN PollRequests /\ UNCHANGED cursor
       ELSE cursor' = cursor + 1 /\ UNCHANGED <<phase, events>>
    /\ UNCHANGED <<alive, table, tables, serial, clients, device, arrived, bounds>>

-----------------------------------------------------------------------------
RequestsPart ==
    \/ AcceptFails
    \/ \E fd \in Fds : Accept(fd) \/ ReadsNothing(fd) \/ ConnectFails(fd) \/ Connect(fd)

MessagePart == NoMessage \/ ServeMessage \/ BadMessage

SessionsPart ==
    \/ \E fd \in Fds : SessionEnds(fd) \/ SessionWrites(fd) \/ SessionFails(fd)
    \/ SessionsDone

PortsPart == RoundEnds \/ PortFails \/ PortServes

HandlerLoop == RequestsPart \/ MessagePart \/ SessionsPart \/ PortsPart

Next ==
    \/ HandlerLoop
    \/ \E fd \in Fds : Client(fd)
    \/ \E p \in Ports : Device(p)

Spec == Init /\ [][Next]_vars

(* The loop waits for nothing: its polls time out, and the sends to clients *)
(* are assumed not to block.                                                *)
FairSpec == Spec /\ WF_vars(HandlerLoop)

=============================================================================
