--------------------------- MODULE SessionProofs ----------------------------
(* Proofs about the sessions of a handler, for any number of ports,        *)
(* descriptors, users and groups.                                          *)
EXTENDS SessionProperties, TLAPS

-----------------------------------------------------------------------------
(* Types *)

(* A connection is accepted only while the bound leaves one: the listening *)
(* socket is polled as ready only then.                                    *)
ListenerCounted == Listener \in events => conns < MaxConns

TypeInv == TypeOK /\ ListenerCounted

(* The messages of the server keep the account table a table. *)
LEMMA TableStep ==
    ASSUME NEW db \in Table, NEW m \in Messages, Succeeds(db, m)
    PROVE  Effect(db, m) \in Table
<1>1. m.user \in Users /\ m.group \in Groups /\ m.port \in Ports
  BY DEF Messages
<1>2. /\ CreateGroupIn(db, m.group) \in Table /\ DestroyGroupIn(db, m.group) \in Table
      /\ DelUserIn(db, m.user) \in Table
      /\ JoinIn(db, m.user, m.group) \in Table /\ LeaveIn(db, m.user, m.group) \in Table
      /\ PortJoinIn(db, m.port, m.group) \in Table
  <2>1. CreateGroupIn(db, m.group) \in Table
    BY <1>1 DEF Table, CreateGroupIn
  <2>2. DestroyGroupIn(db, m.group) \in Table
    BY <1>1 DEF Table, DestroyGroupIn
  <2>3. DelUserIn(db, m.user) \in Table
    BY <1>1 DEF Table, DelUserIn
  <2>4. JoinIn(db, m.user, m.group) \in Table
    BY <1>1 DEF Table, JoinIn
  <2>5. LeaveIn(db, m.user, m.group) \in Table
    BY <1>1 DEF Table, LeaveIn
  <2>6. PortJoinIn(db, m.port, m.group) \in Table
    BY <1>1 DEF Table, PortJoinIn
  <2> QED BY <2>1, <2>2, <2>3, <2>4, <2>5, <2>6
<1>3. AddUserIn(db, m.user, m.group) \in Table
  <2> DEFINE withUser == [db EXCEPT !.users = @ \cup {m.user}]
  <2>1. withUser \in Table
    BY <1>1 DEF Table
  <2>2. AddUserIn(db, m.user, m.group) = [withUser EXCEPT !.member = @ \cup {<<m.user, m.group>>}]
    BY DEF Table, AddUserIn
  <2>3. \A d \in Table : [d EXCEPT !.member = @ \cup {<<m.user, m.group>>}] \in Table
    BY <1>1 DEF Table
  <2> HIDE DEF withUser
  <2> QED BY <2>1, <2>2, <2>3
<1>4. \/ m.kind = "create_group"
      \/ m.kind = "destroy_group"
      \/ m.kind = "add_user"
      \/ m.kind = "del_user"
      \/ m.kind = "user_join"
      \/ m.kind = "user_leave"
      \/ m.kind = "port_join"
  BY DEF Succeeds
<1>5. CASE m.kind = "create_group"
  BY <1>2, <1>5 DEF Effect
<1>6. CASE m.kind = "destroy_group"
  BY <1>2, <1>6 DEF Effect
<1>7. CASE m.kind = "add_user"
  BY <1>3, <1>7 DEF Effect
<1>8. CASE m.kind = "del_user"
  BY <1>2, <1>8 DEF Effect
<1>9. CASE m.kind = "user_join"
  BY <1>2, <1>9 DEF Effect
<1>10. CASE m.kind = "user_leave"
  BY <1>2, <1>10 DEF Effect
<1>11. CASE m.kind = "port_join"
  BY <1>2, <1>11 DEF Effect
<1> QED BY <1>4, <1>5, <1>6, <1>7, <1>8, <1>9, <1>10, <1>11

(* The state after the initialisation has the types. *)
LEMMA InitType == Init => TypeInv
<1> SUFFICES ASSUME Init PROVE TypeInv
  OBVIOUS
<1>1. table \in Table
  BY SessionsAssumption DEF Init, Table
<1>2. 1 \in Ports
  BY SessionsAssumption DEF Ports
<1>3. /\ pending \in SUBSET Fds /\ portOf \in [Fds -> Ports \cup {None}]
      /\ sessions \in [Ports -> SUBSET Fds]
      /\ opened \in [Ports -> BOOLEAN] /\ current \in [Ports -> {0, 1}]
  BY DEF Init
<1>4. /\ peer \in [Fds -> PeerStates] /\ inbox \in [Fds -> ConnectRequest \cup {None, Typed}]
      /\ answers \in [Fds -> Seq({"OK", "Fail"})]
  BY DEF Init, PeerStates
<1>5. /\ device \in [Ports -> BOOLEAN] /\ arrived \in [Ports -> 0..MaxChunks]
      /\ taken \in [Ports -> 0..MaxChunks] /\ position \in [Fds -> 0..MaxChunks]
      /\ messages \in 0..MaxMessages /\ conns \in 0..MaxConns
  BY SessionsAssumption DEF Init
<1> QED BY <1>1, <1>2, <1>3, <1>4, <1>5 DEF Init, TypeOK, TypeInv, ListenerCounted

(* The steps of clients and devices keep the types. *)
LEMMA EnvironmentType ==
    ASSUME TypeInv, (\E fd \in Fds : Client(fd)) \/ (\E p \in Ports : Device(p))
    PROVE  TypeInv'
<1> USE DEF TypeInv, TypeOK, ListenerCounted, loop, tables, serial, clients, data, bounds
<1>1. ASSUME NEW fd \in Fds, NEW u \in Users, NEW p \in Ports, SendRequest(fd, u, p)
      PROVE  TypeInv'
  BY <1>1 DEF SendRequest, ConnectRequest, PeerStates
<1>2. ASSUME NEW fd \in Fds, ReadAnswer(fd) PROVE TypeInv'
  <2>1. Tail(answers[fd]) \in Seq({"OK", "Fail"})
    BY <1>2 DEF ReadAnswer
  <2> QED BY <1>2, <2>1 DEF ReadAnswer, PeerStates
<1>3. ASSUME NEW fd \in Fds, Type(fd) PROVE TypeInv'
  BY <1>3 DEF Type
<1>4. ASSUME NEW fd \in Fds, HangUp(fd) PROVE TypeInv'
  BY <1>4 DEF HangUp, PeerStates
<1>7. ASSUME NEW fd \in Fds, AskAgain(fd) PROVE TypeInv'
  BY <1>7 DEF AskAgain, PeerStates
<1>5. ASSUME NEW p \in Ports, DeviceSends(p) PROVE TypeInv'
  BY <1>5, SessionsAssumption DEF DeviceSends
<1>6. ASSUME NEW p \in Ports, Unplug(p) PROVE TypeInv'
  BY <1>6 DEF Unplug
<1> QED BY <1>1, <1>2, <1>3, <1>4, <1>5, <1>6, <1>7 DEF Client, Device

(* A handler that ends leaves everything but the event it met. *)
LEMMA StopsType ==
    ASSUME TypeInv, Stops, events' \subseteq events
    PROVE  TypeInv'
BY DEF Stops, TypeInv, TypeOK, ListenerCounted, tables, serial, clients, data, bounds

(* The polls deliver descriptors of the tables, and the listening socket   *)
(* only while the bound allows a connection.                               *)
LEMMA PollsType ==
    /\ TypeInv /\ PollRequests => /\ events' \in SUBSET (Fds \cup {Listener})
                                  /\ Listener \in events' => conns < MaxConns
    /\ PollSessions => events' \in SUBSET Fds /\ Listener \notin events'
<1>1. ASSUME TypeInv, PollRequests
      PROVE  /\ events' \in SUBSET (Fds \cup {Listener})
             /\ Listener \in events' => conns < MaxConns
  <2>1. PICK waiting \in {{}, IF conns < MaxConns THEN {Listener} ELSE {}} :
             events' = waiting \cup {fd \in pending : Readable(fd)}
    BY <1>1 DEF PollRequests
  <2>2. pending \subseteq Fds /\ Listener \notin pending
    BY <1>1, SessionsAssumption DEF TypeInv, TypeOK
  <2> QED BY <2>1, <2>2
<1>2. ASSUME PollSessions PROVE events' \in SUBSET Fds /\ Listener \notin events'
  BY <1>2, SessionsAssumption DEF PollSessions
<1> QED BY <1>1, <1>2

(* The events of the server socket keep the types. *)
LEMMA RequestsType == ASSUME TypeInv, RequestsPart PROVE TypeInv'
<1>1. ASSUME AcceptFails PROVE TypeInv'
  BY <1>1, StopsType DEF AcceptFails, Event
<1>2. ASSUME NEW fd \in Fds, Accept(fd) PROVE TypeInv'
  <2>1. CASE fd \in pending
    BY <1>2, <2>1, StopsType DEF Accept, Event
  <2>2. CASE fd \notin pending
    <3>1. conns + 1 \in 0..MaxConns
      BY <1>2, SessionsAssumption DEF Accept, Event, TypeInv, TypeOK, ListenerCounted
    <3>2. Listener \notin events'
      BY <1>2 DEF Accept, Event
    <3>3. /\ peer' = [peer EXCEPT ![fd] = "connected"] /\ pending' = pending \cup {fd}
          /\ conns' = conns + 1 /\ events' = events \ {Listener}
          /\ UNCHANGED <<alive, phase, cursor, table, portOf, sessions, opened, current,
                         inbox, answers, asked, device, arrived, taken, position,
                         messages>>
      BY <1>2, <2>2 DEF Accept, Event, serial, data
    <3>4. peer' \in [Fds -> PeerStates]
      BY <3>3 DEF TypeInv, TypeOK, PeerStates
    <3> QED BY <3>1, <3>2, <3>3, <3>4 DEF TypeInv, TypeOK, ListenerCounted
  <2> QED BY <2>1, <2>2
<1>3. ASSUME NEW fd \in Fds, ReadsNothing(fd) PROVE TypeInv'
  BY <1>3, StopsType DEF ReadsNothing, Event
<1>4. ASSUME NEW fd \in Fds, ConnectFails(fd) PROVE TypeInv'
  BY <1>4, StopsType DEF ConnectFails, Event
<1>5. ASSUME NEW fd \in Fds, Connect(fd) PROVE TypeInv'
  <2> DEFINE p == inbox[fd].port
  <2>1. p \in Ports /\ OpenPort(p)
    BY <1>5 DEF Connect, ConnectRequest
  <2>2. opened' \in [Ports -> BOOLEAN] /\ current' \in [Ports -> {0, 1}]
    <3>1. CASE UNCHANGED serial
      BY <3>1 DEF serial, TypeInv, TypeOK
    <3>2. CASE ~UNCHANGED serial
      <4>1. /\ opened' = [opened EXCEPT ![p] = TRUE]
            /\ current' = [current EXCEPT ![p] = current[p] + 1] /\ current[p] = 0
        BY <2>1, <3>2 DEF OpenPort
      <4>2. current' = [current EXCEPT ![p] = 1]
        BY <4>1
      <4> QED BY <2>1, <4>1, <4>2 DEF TypeInv, TypeOK
    <3> QED BY <3>1, <3>2
  <2>3. AnswersTo(inbox[fd]) \in Seq({"OK", "Fail"})
    <3>1. <<"OK">> \in Seq({"OK", "Fail"}) /\ <<"Fail", "OK">> \in Seq({"OK", "Fail"})
      OBVIOUS
    <3> QED BY <3>1 DEF AnswersTo
  <2>4. answers' \in [Fds -> Seq({"OK", "Fail"})]
    BY <1>5, <2>3 DEF Connect, TypeInv, TypeOK
  <2>5. portOf' \in [Fds -> Ports \cup {None}] /\ sessions' \in [Ports -> SUBSET Fds]
    BY <1>5, <2>1 DEF Connect, TypeInv, TypeOK
  <2>6. position' \in [Fds -> 0..MaxChunks]
    BY <1>5, <2>1 DEF Connect, TypeInv, TypeOK
  <2>7. inbox' \in [Fds -> ConnectRequest \cup {None, Typed}] /\ pending' \in SUBSET Fds
    BY <1>5 DEF Connect, TypeInv, TypeOK
  <2> QED BY <1>5, <2>2, <2>4, <2>5, <2>6, <2>7
          DEF Connect, Event, TypeInv, TypeOK, ListenerCounted, bounds
<1> QED BY <1>1, <1>2, <1>3, <1>4, <1>5 DEF RequestsPart

(* So does a message of the server. *)
LEMMA MessageType == ASSUME TypeInv, MessagePart PROVE TypeInv'
<1> USE DEF TypeInv, TypeOK, ListenerCounted
<1>1. ASSUME NoMessage PROVE TypeInv'
  BY <1>1, PollsType DEF NoMessage, PollSessions, tables, serial, clients, data, bounds
<1>2. ASSUME ServeMessage PROVE TypeInv'
  <2>1. PICK m \in Messages : table' = IF Succeeds(table, m) THEN Effect(table, m) ELSE table
    BY <1>2 DEF ServeMessage
  <2>2. table' \in Table
    BY <2>1, TableStep
  <2>3. messages' \in 0..MaxMessages
    BY <1>2, SessionsAssumption DEF ServeMessage
  <2> QED BY <1>2, <2>2, <2>3, PollsType
          DEF ServeMessage, PollSessions, tables, serial, clients, data
<1>3. ASSUME BadMessage PROVE TypeInv'
  BY <1>3, StopsType DEF BadMessage
<1> QED BY <1>1, <1>2, <1>3 DEF MessagePart

(* So do the events of the sessions, whatever port CloseSession is for. *)
LEMMA SessionsType == ASSUME TypeInv, SessionsPart PROVE TypeInv'
<1> USE DEF TypeInv, TypeOK, ListenerCounted
<1>1. ASSUME NEW fd \in Fds, CloseSession(fd)
      PROVE  /\ portOf' \in [Fds -> Ports \cup {None}] /\ sessions' \in [Ports -> SUBSET Fds]
             /\ peer' \in [Fds -> PeerStates]
             /\ inbox' \in [Fds -> ConnectRequest \cup {None, Typed}]
             /\ answers' \in [Fds -> Seq({"OK", "Fail"})]
             /\ asked' \in [Fds -> Ports \cup {None}]
  <2>1. sessions' = [sessions EXCEPT ![portOf[fd]] = sessions[portOf[fd]] \ {fd}]
    BY <1>1 DEF CloseSession
  <2>2. sessions' \in [Ports -> SUBSET Fds]
    BY <2>1
  <2>3. answers' = [answers EXCEPT ![fd] = << >>] /\ << >> \in Seq({"OK", "Fail"})
    BY <1>1 DEF CloseSession
  <2>4. answers' \in [Fds -> Seq({"OK", "Fail"})]
    BY <2>3
  <2> QED BY <1>1, <2>2, <2>4 DEF CloseSession, PeerStates
<1>2. ASSUME NEW fd \in Fds, SessionEnds(fd) PROVE TypeInv'
  BY <1>1, <1>2 DEF SessionEnds, Event, serial, data, bounds
<1>3. ASSUME NEW fd \in Fds, SessionWrites(fd) PROVE TypeInv'
  BY <1>3 DEF SessionWrites, Event, tables, serial, data, bounds
<1>4. ASSUME NEW fd \in Fds, SessionFails(fd) PROVE TypeInv'
  BY <1>1, <1>4 DEF SessionFails, Event, serial, data, bounds
<1>5. ASSUME SessionsDone PROVE TypeInv'
  BY <1>5, SessionsAssumption
     DEF SessionsDone, Ports, tables, serial, clients, data, bounds
<1> QED BY <1>2, <1>3, <1>4, <1>5 DEF SessionsPart

(* And the scan of the ports, whose cursor never leaves them. *)
LEMMA PortsType == ASSUME TypeInv, PortsPart PROVE TypeInv'
<1> USE DEF TypeInv, TypeOK, ListenerCounted
<1>1. ASSUME RoundEnds PROVE TypeInv'
  BY <1>1, PollsType DEF RoundEnds, PollRequests, tables, serial, clients, data, bounds
<1>2. ASSUME PortFails PROVE TypeInv'
  BY <1>2, StopsType DEF PortFails
<1>3. ASSUME PortServes PROVE TypeInv'
  <2>1. taken' \in [Ports -> 0..MaxChunks] /\ position' \in [Fds -> 0..MaxChunks]
    BY <1>3 DEF PortServes, Sent
  <2>2. CASE LastPort(cursor)
    BY <1>3, <2>1, <2>2, PollsType
       DEF PortServes, PollRequests, tables, serial, clients, bounds
  <2>3. CASE ~LastPort(cursor)
    <3>1. cursor + 1 \in Ports
      BY <2>3, SessionsAssumption DEF LastPort, Ports
    <3> QED BY <1>3, <2>1, <2>3, <3>1 DEF PortServes, tables, serial, clients, bounds
  <2> QED BY <2>2, <2>3
<1> QED BY <1>1, <1>2, <1>3 DEF PortsPart

(* Every step keeps the types. *)
LEMMA NextType == TypeInv /\ [Next]_vars => TypeInv'
<1> SUFFICES ASSUME TypeInv, [Next]_vars PROVE TypeInv'
  OBVIOUS
<1>1. CASE HandlerLoop
  BY <1>1, RequestsType, MessageType, SessionsType, PortsType DEF HandlerLoop
<1>2. CASE (\E fd \in Fds : Client(fd)) \/ (\E p \in Ports : Device(p))
  BY <1>2, EnvironmentType
<1>3. CASE UNCHANGED vars
  BY <1>3 DEF vars, loop, tables, serial, clients, data, bounds, TypeInv, TypeOK,
              ListenerCounted
<1> QED BY <1>1, <1>2, <1>3 DEF Next

(* Every reachable state is well typed: the cursor stays on the ports of   *)
(* process_serial_port_data, and open_com_port counts one user at most.    *)
THEOREM SessionsTypeCorrect == Spec => []TypeOK
<1>1. TypeInv => TypeOK
  BY DEF TypeInv
<1> QED BY <1>1, InitType, NextType, PTL DEF Spec


-----------------------------------------------------------------------------
(* Descriptors *)

(* What a client has been told, it has: a reply that has not been read is  *)
(* for a session that is still there.  And what a client has asked for     *)
(* stands in its request until that is served, and then at its session; a  *)
(* connection that has asked for nothing has neither.                      *)
AnswersFit ==
    \A fd \in Fds :
        /\ answers[fd] # << >> => portOf[fd] # None
        /\ peer[fd] \in {"none", "connected"} => portOf[fd] = None /\ inbox[fd] = None
        /\ inbox[fd] \in ConnectRequest => inbox[fd].port = asked[fd]
        /\ portOf[fd] # None => portOf[fd] = asked[fd]

(* The events decide which table a descriptor is taken from, so that the   *)
(* tables fit only together with EventsStayValid; the data a session has   *)
(* been sent depends on no descriptor being the session of two ports.      *)
SessionInv ==
    /\ DescriptorsFit
    /\ SessionsOnOpenPorts
    /\ SessionsSeeAllData
    /\ EventsStayValid
    /\ ClientsAreServed
    /\ AnswersFit

(* At the start there are no connections. *)
LEMMA InitSessions == Init => SessionInv
<1> SUFFICES ASSUME Init PROVE SessionInv
  OBVIOUS
<1>1. DescriptorsFit
  BY SessionsAssumption DEF Init, DescriptorsFit
<1>2. SessionsOnOpenPorts /\ SessionsSeeAllData
  BY DEF Init, SessionsOnOpenPorts, SessionsSeeAllData
<1>3. EventsStayValid /\ ClientsAreServed /\ AnswersFit
  BY SessionsAssumption DEF Init, EventsStayValid, ClientsAreServed, AnswersFit
<1> QED BY <1>1, <1>2, <1>3 DEF SessionInv

(* Clients and devices touch no table of the handler, and what they do     *)
(* only makes more descriptors readable.                                   *)
LEMMA EnvironmentSessions ==
    ASSUME TypeInv, SessionInv, (\E fd \in Fds : Client(fd)) \/ (\E p \in Ports : Device(p))
    PROVE  SessionInv'
<1> USE DEF loop, tables, serial, clients, data, bounds
<1>1. ASSUME NEW fd \in Fds, NEW u \in Users, NEW p \in Ports, SendRequest(fd, u, p)
      PROVE  SessionInv'
  <2>1. DescriptorsFit'
    BY <1>1 DEF SendRequest, TypeInv, TypeOK, SessionInv, DescriptorsFit
  <2>2. SessionsOnOpenPorts' /\ SessionsSeeAllData'
    BY <1>1 DEF SendRequest, SessionInv, SessionsOnOpenPorts, SessionsSeeAllData
  <2>3. [user |-> u, port |-> p] # None
    BY SessionsAssumption DEF ConnectRequest
  <2>4. EventsStayValid'
    BY <1>1, <2>3 DEF SendRequest, TypeInv, TypeOK, SessionInv, EventsStayValid, Readable
  <2>5. ClientsAreServed' /\ AnswersFit'
    BY <1>1 DEF SendRequest, TypeInv, TypeOK, SessionInv, ClientsAreServed, AnswersFit
  <2> QED BY <2>1, <2>2, <2>4, <2>5 DEF SessionInv
<1>2. ASSUME NEW fd \in Fds, ReadAnswer(fd) PROVE SessionInv'
  <2>1. portOf[fd] # None /\ peer[fd] # "none" /\ peer'[fd] \notin {"none", "closed"}
    BY <1>2 DEF ReadAnswer, TypeInv, TypeOK, SessionInv, AnswersFit
  <2>2. DescriptorsFit'
    BY <1>2, <2>1 DEF ReadAnswer, TypeInv, TypeOK, SessionInv, DescriptorsFit
  <2>3. SessionsOnOpenPorts' /\ SessionsSeeAllData'
    BY <1>2 DEF ReadAnswer, SessionInv, SessionsOnOpenPorts, SessionsSeeAllData
  <2>4. EventsStayValid'
    BY <1>2 DEF ReadAnswer, TypeInv, TypeOK, SessionInv, EventsStayValid, Readable
  <2>5. ClientsAreServed' /\ AnswersFit'
    BY <1>2, <2>1 DEF ReadAnswer, TypeInv, TypeOK, SessionInv, ClientsAreServed, AnswersFit
  <2> QED BY <2>2, <2>3, <2>4, <2>5 DEF SessionInv
<1>3. ASSUME NEW fd \in Fds, Type(fd) PROVE SessionInv'
  <2>1. DescriptorsFit' /\ SessionsOnOpenPorts' /\ SessionsSeeAllData'
    BY <1>3 DEF Type, SessionInv, DescriptorsFit, SessionsOnOpenPorts, SessionsSeeAllData
  <2>2. EventsStayValid'
    BY <1>3, SessionsAssumption
       DEF Type, TypeInv, TypeOK, SessionInv, EventsStayValid, Readable
  <2>3. ClientsAreServed' /\ AnswersFit'
    BY <1>3, SessionsAssumption
       DEF Type, TypeInv, TypeOK, SessionInv, ClientsAreServed, AnswersFit
  <2> QED BY <2>1, <2>2, <2>3 DEF SessionInv
<1>4. ASSUME NEW fd \in Fds, HangUp(fd) PROVE SessionInv'
  <2>1. DescriptorsFit'
    BY <1>4 DEF HangUp, TypeInv, TypeOK, SessionInv, DescriptorsFit
  <2>2. SessionsOnOpenPorts' /\ SessionsSeeAllData'
    BY <1>4 DEF HangUp, SessionInv, SessionsOnOpenPorts, SessionsSeeAllData
  <2>3. EventsStayValid'
    BY <1>4 DEF HangUp, TypeInv, TypeOK, SessionInv, EventsStayValid, Readable
  <2>4. ClientsAreServed' /\ AnswersFit'
    BY <1>4 DEF HangUp, TypeInv, TypeOK, SessionInv, ClientsAreServed, AnswersFit
  <2> QED BY <2>1, <2>2, <2>3, <2>4 DEF SessionInv
<1>5. ASSUME NEW fd \in Fds, AskAgain(fd) PROVE SessionInv'
  <2>1. DescriptorsFit'
    BY <1>5 DEF AskAgain, TypeInv, TypeOK, SessionInv, DescriptorsFit
  <2>2. SessionsOnOpenPorts' /\ SessionsSeeAllData'
    BY <1>5 DEF AskAgain, SessionInv, SessionsOnOpenPorts, SessionsSeeAllData
  <2>3. EventsStayValid'
    BY <1>5, SessionsAssumption
       DEF AskAgain, TypeInv, TypeOK, SessionInv, EventsStayValid, Readable
  <2>4. ClientsAreServed' /\ AnswersFit'
    BY <1>5, SessionsAssumption
       DEF AskAgain, TypeInv, TypeOK, SessionInv, ClientsAreServed, AnswersFit
  <2> QED BY <2>1, <2>2, <2>3, <2>4 DEF SessionInv
<1>6. ASSUME NEW p \in Ports, DeviceSends(p) \/ Unplug(p) PROVE SessionInv'
  BY <1>6 DEF DeviceSends, Unplug, SessionInv, DescriptorsFit, SessionsOnOpenPorts,
              SessionsSeeAllData, EventsStayValid, Readable, ClientsAreServed, AnswersFit
<1> QED BY <1>1, <1>2, <1>3, <1>4, <1>6, <1>5 DEF Client, Device

(* A handler that ends keeps its tables. *)
LEMMA StopsSessions ==
    ASSUME SessionInv, Stops, events' \subseteq events
    PROVE  SessionInv'
<1> USE DEF tables, serial, clients, data, bounds
<1>1. DescriptorsFit' /\ SessionsOnOpenPorts' /\ SessionsSeeAllData'
  BY DEF Stops, SessionInv, DescriptorsFit, SessionsOnOpenPorts, SessionsSeeAllData
<1>2. EventsStayValid' /\ ClientsAreServed' /\ AnswersFit'
  BY DEF Stops, SessionInv, EventsStayValid, Readable, ClientsAreServed, AnswersFit
<1> QED BY <1>1, <1>2 DEF SessionInv

(* A new connection gets a number no table knows. *)
LEMMA AcceptSessions ==
    ASSUME TypeInv, SessionInv, NEW fd \in Fds, Accept(fd)
    PROVE  SessionInv'
<1>1. /\ peer[fd] = "none" /\ fd \notin pending /\ portOf[fd] = None
      /\ answers[fd] = << >> /\ inbox[fd] = None
  BY DEF Accept, SessionInv, DescriptorsFit, AnswersFit
<1>2. /\ peer' = [peer EXCEPT ![fd] = "connected"] /\ pending' = pending \cup {fd}
      /\ events' = events \ {Listener}
      /\ UNCHANGED <<phase, portOf, sessions, opened, current, inbox, answers, asked, taken,
                     position>>
  BY <1>1 DEF Accept, Event, serial, data
<1> HIDE DEF Accept
<1>3. DescriptorsFit'
  BY <1>1, <1>2 DEF TypeInv, TypeOK, SessionInv, DescriptorsFit
<1>4. SessionsOnOpenPorts' /\ SessionsSeeAllData'
  BY <1>2 DEF SessionInv, SessionsOnOpenPorts, SessionsSeeAllData
<1>5. EventsStayValid'
  BY <1>1, <1>2 DEF TypeInv, TypeOK, SessionInv, EventsStayValid, Readable
<1>6. ClientsAreServed' /\ AnswersFit'
  BY <1>1, <1>2 DEF TypeInv, TypeOK, SessionInv, ClientsAreServed, AnswersFit
<1> QED BY <1>3, <1>4, <1>5, <1>6 DEF SessionInv

(* A request turns a pending connection into the session of one port,      *)
(* which is open then, and starts at what has been read from it.           *)
LEMMA ConnectSessions ==
    ASSUME TypeInv, SessionInv, NEW fd \in Fds, Connect(fd)
    PROVE  SessionInv'
<1> DEFINE p == inbox[fd].port
<1>1. p \in Ports /\ OpenPort(p)
  BY DEF Connect, ConnectRequest
<1>2. /\ fd \in pending /\ portOf[fd] = None /\ phase = "requests"
      /\ peer[fd] \notin {"none", "closed"}
  BY SessionsAssumption DEF Connect, Event, SessionInv, EventsStayValid, DescriptorsFit
<1>3. peer[fd] # "connected" /\ p = asked[fd]
  <2>1. inbox[fd] \in ConnectRequest /\ inbox[fd] # None
    BY SessionsAssumption DEF Connect
  <2> QED BY <2>1 DEF SessionInv, AnswersFit
<1>4. /\ pending' = pending \ {fd} /\ portOf' = [portOf EXCEPT ![fd] = p]
      /\ sessions' = [sessions EXCEPT ![p] = sessions[p] \cup {fd}]
      /\ position' = [position EXCEPT ![fd] = taken[p]]
      /\ inbox' = [inbox EXCEPT ![fd] = None]
      /\ answers' = [answers EXCEPT ![fd] = AnswersTo(inbox[fd])]
      /\ events' = events \ {fd} /\ UNCHANGED <<phase, peer, asked, taken>>
  BY DEF Connect, Event
<1>5. /\ opened' \in [Ports -> BOOLEAN] /\ opened'[p] /\ current'[p] = 1
      /\ \A q \in Ports \ {p} : opened'[q] = opened[q] /\ current'[q] = current[q]
  <2>1. CASE (opened[p] \/ current[p] > 0) /\ UNCHANGED serial
    BY <1>1, <2>1 DEF serial, TypeInv, TypeOK, SessionInv, SessionsOnOpenPorts
  <2>2. CASE /\ current[p] = 0 /\ opened' = [opened EXCEPT ![p] = TRUE]
             /\ current' = [current EXCEPT ![p] = current[p] + 1]
    <3>1. current' = [current EXCEPT ![p] = 1]
      BY <2>2
    <3> QED BY <1>1, <2>2, <3>1 DEF TypeInv, TypeOK
  <2> QED BY <1>1, <2>1, <2>2 DEF OpenPort
<1> HIDE DEF p
<1>6. p # None
  BY <1>1, SessionsAssumption
<1>7. \A q \in Ports, f \in Fds : f \in sessions'[q] <=> f \in sessions[q] \/ (f = fd /\ q = p)
  BY <1>1, <1>4 DEF TypeInv, TypeOK
<1>8. \A f \in Fds : portOf'[f] = IF f = fd THEN p ELSE portOf[f]
  BY <1>4 DEF TypeInv, TypeOK
<1>9. DescriptorsFit'
  <2>1. \A q \in Ports, f \in Fds : f \in sessions'[q] <=> portOf'[f] = q
    BY <1>2, <1>6, <1>7, <1>8, SessionsAssumption DEF SessionInv, DescriptorsFit
  <2>2. \A f \in Fds : peer'[f] = "none" <=> f \notin pending' /\ portOf'[f] = None
    BY <1>2, <1>4, <1>6, <1>8 DEF SessionInv, DescriptorsFit
  <2>3. \A f \in pending' : portOf'[f] = None
    BY <1>4, <1>8 DEF TypeInv, TypeOK, SessionInv, DescriptorsFit
  <2> QED BY <2>1, <2>2, <2>3 DEF DescriptorsFit
<1>10. SessionsOnOpenPorts'
  BY <1>1, <1>4, <1>5 DEF TypeInv, TypeOK, SessionInv, SessionsOnOpenPorts
<1>11. SessionsSeeAllData'
  <2>1. ASSUME NEW q \in Ports, NEW f \in sessions'[q] PROVE position'[f] = taken'[q]
    <3>1. f \in Fds
      BY <1>1, <1>4, <2>1 DEF TypeInv, TypeOK
    <3>2. CASE f = fd
      <4>1. q = p
        BY <1>2, <1>7, <2>1, <3>1, <3>2, SessionsAssumption DEF SessionInv, DescriptorsFit
      <4> QED BY <1>4, <3>1, <3>2, <4>1 DEF TypeInv, TypeOK
    <3>3. CASE f # fd
      <4>1. f \in sessions[q]
        BY <1>7, <2>1, <3>1, <3>3
      <4> QED BY <1>4, <3>1, <3>3, <4>1 DEF TypeInv, TypeOK, SessionInv, SessionsSeeAllData
    <3> QED BY <3>2, <3>3
  <2> QED BY <2>1 DEF SessionsSeeAllData
<1>12. EventsStayValid'
  BY <1>2, <1>4 DEF TypeInv, TypeOK, SessionInv, EventsStayValid, Readable
<1>13. ClientsAreServed' /\ AnswersFit'
  <2>1. \A f \in Fds : f # fd => /\ portOf'[f] = portOf[f] /\ inbox'[f] = inbox[f]
                                 /\ answers'[f] = answers[f]
    BY <1>4 DEF TypeInv, TypeOK
  <2>2. portOf'[fd] = p /\ inbox'[fd] = None /\ None \notin ConnectRequest
    BY <1>4, SessionsAssumption DEF TypeInv, TypeOK
  <2> QED BY <1>2, <1>4, <1>6, <1>3, <2>1, <2>2 DEF SessionInv, ClientsAreServed, AnswersFit
<1> QED BY <1>9, <1>10, <1>11, <1>12, <1>13 DEF SessionInv

(* The events of the server socket. *)
LEMMA RequestsSessions == ASSUME TypeInv, SessionInv, RequestsPart PROVE SessionInv'
<1>1. CASE AcceptFails
  BY <1>1, StopsSessions DEF AcceptFails, Event
<1>2. ASSUME NEW fd \in Fds, ReadsNothing(fd) \/ ConnectFails(fd) PROVE SessionInv'
  BY <1>2, StopsSessions DEF ReadsNothing, ConnectFails, Event
<1> QED BY <1>1, <1>2, AcceptSessions, ConnectSessions DEF RequestsPart

(* The poll of the sessions delivers sessions only. *)
LEMMA PollSessionsFits ==
    ASSUME SessionInv, PollSessions, UNCHANGED <<tables, serial, clients, data>>
    PROVE  SessionInv'
<1> USE DEF tables, serial, clients, data
<1>1. EventsStayValid'
  BY DEF PollSessions, EventsStayValid, Readable
<1>2. DescriptorsFit' /\ SessionsOnOpenPorts' /\ SessionsSeeAllData'
  BY DEF SessionInv, DescriptorsFit, SessionsOnOpenPorts, SessionsSeeAllData
<1>3. ClientsAreServed' /\ AnswersFit'
  BY DEF SessionInv, ClientsAreServed, AnswersFit
<1> QED BY <1>1, <1>2, <1>3 DEF SessionInv

(* A message of the server. *)
LEMMA MessageSessions == ASSUME SessionInv, MessagePart PROVE SessionInv'
<1>1. CASE NoMessage
  BY <1>1, PollSessionsFits DEF NoMessage
<1>2. CASE ServeMessage
  BY <1>2, PollSessionsFits DEF ServeMessage
<1>3. CASE BadMessage
  BY <1>3, StopsSessions DEF BadMessage
<1> QED BY <1>1, <1>2, <1>3 DEF MessagePart

(* Closing a session takes its number out of every table. *)
LEMMA CloseSessions ==
    ASSUME TypeInv, SessionInv, NEW fd \in Fds, Event(fd, "sessions"), CloseSession(fd),
           UNCHANGED <<phase, pending, serial, data>>
    PROVE  SessionInv'
<1> DEFINE p == portOf[fd]
<1>1. p \in Ports /\ fd \notin pending
  BY SessionsAssumption
     DEF Event, TypeInv, TypeOK, SessionInv, EventsStayValid, DescriptorsFit
<1>2. /\ portOf' = [portOf EXCEPT ![fd] = None]
      /\ sessions' = [sessions EXCEPT ![p] = sessions[p] \ {fd}]
      /\ peer' = [peer EXCEPT ![fd] = "none"] /\ inbox' = [inbox EXCEPT ![fd] = None]
      /\ answers' = [answers EXCEPT ![fd] = << >>] /\ asked' = [asked EXCEPT ![fd] = None]
      /\ events' = events \ {fd} /\ phase = "sessions"
      /\ UNCHANGED <<phase, pending, opened, current, taken, position>>
  BY DEF CloseSession, Event, serial, data
<1>3. \A q \in Ports : sessions'[q] = sessions[q] \ {fd}
  BY <1>1, <1>2 DEF TypeInv, TypeOK, SessionInv, DescriptorsFit
<1>4. DescriptorsFit'
  BY <1>1, <1>2, <1>3, SessionsAssumption DEF TypeInv, TypeOK, SessionInv, DescriptorsFit
<1>5. SessionsOnOpenPorts' /\ SessionsSeeAllData'
  BY <1>2, <1>3 DEF SessionInv, SessionsOnOpenPorts, SessionsSeeAllData
<1>6. EventsStayValid'
  BY <1>2 DEF TypeInv, TypeOK, SessionInv, EventsStayValid, Readable
<1>7. ClientsAreServed' /\ AnswersFit'
  BY <1>2, SessionsAssumption DEF TypeInv, TypeOK, SessionInv, ClientsAreServed, AnswersFit
<1> QED BY <1>4, <1>5, <1>6, <1>7 DEF SessionInv

(* The events of the sessions. *)
LEMMA SessionsSessions == ASSUME TypeInv, SessionInv, SessionsPart PROVE SessionInv'
<1>1. ASSUME NEW fd \in Fds, SessionEnds(fd) \/ SessionFails(fd) PROVE SessionInv'
  BY <1>1, CloseSessions DEF SessionEnds, SessionFails
<1>2. ASSUME NEW fd \in Fds, SessionWrites(fd) PROVE SessionInv'
  <2> USE DEF tables, serial, data
  <2>1. DescriptorsFit' /\ SessionsOnOpenPorts' /\ SessionsSeeAllData'
    BY <1>2 DEF SessionWrites, SessionInv, DescriptorsFit, SessionsOnOpenPorts,
                SessionsSeeAllData
  <2>2. EventsStayValid'
    BY <1>2 DEF SessionWrites, Event, TypeInv, TypeOK, SessionInv, EventsStayValid, Readable
  <2>3. ClientsAreServed' /\ AnswersFit'
    BY <1>2, SessionsAssumption
       DEF SessionWrites, TypeInv, TypeOK, SessionInv, ClientsAreServed, AnswersFit
  <2> QED BY <2>1, <2>2, <2>3 DEF SessionInv
<1>3. CASE SessionsDone
  BY <1>3 DEF SessionsDone, tables, serial, clients, data, SessionInv, DescriptorsFit,
              SessionsOnOpenPorts, SessionsSeeAllData, EventsStayValid, ClientsAreServed,
              AnswersFit
<1> QED BY <1>1, <1>2, <1>3 DEF SessionsPart

(* The poll of the server socket delivers pending connections only. *)
LEMMA PollRequestsFits ==
    ASSUME PollRequests, UNCHANGED <<tables, clients>>
    PROVE  EventsStayValid'
<1>1. PICK waiting \in {{}, IF conns < MaxConns THEN {Listener} ELSE {}} :
           events' = waiting \cup {fd \in pending : Readable(fd)}
  BY DEF PollRequests
<1>2. \A fd \in events' \ {Listener} : fd \in pending /\ Readable(fd)
  BY <1>1
<1> QED BY <1>2 DEF PollRequests, EventsStayValid, Readable, tables, clients

(* While the ports are read, no event of a session is left. *)
LEMMA PortsSessions == ASSUME TypeInv, SessionInv, PortsPart PROVE SessionInv'
<1> USE DEF tables, serial, clients
<1>1. CASE RoundEnds
  <2>1. EventsStayValid'
    BY <1>1, PollRequestsFits DEF RoundEnds
  <2>2. DescriptorsFit' /\ SessionsOnOpenPorts' /\ SessionsSeeAllData'
    BY <1>1 DEF RoundEnds, data, SessionInv, DescriptorsFit, SessionsOnOpenPorts,
                SessionsSeeAllData
  <2>3. ClientsAreServed' /\ AnswersFit'
    BY <1>1 DEF RoundEnds, SessionInv, ClientsAreServed, AnswersFit
  <2> QED BY <2>1, <2>2, <2>3 DEF SessionInv
<1>2. CASE PortFails
  BY <1>2, StopsSessions DEF PortFails
<1>3. CASE PortServes
  <2>1. EventsStayValid'
    <3>1. CASE LastPort(cursor)
      BY <1>3, <3>1, PollRequestsFits DEF PortServes
    <3>2. CASE ~LastPort(cursor)
      BY <1>3, <3>2 DEF PortServes, SessionInv, EventsStayValid, Readable
    <3> QED BY <3>1, <3>2
  <2>2. DescriptorsFit' /\ SessionsOnOpenPorts'
    BY <1>3 DEF PortServes, SessionInv, DescriptorsFit, SessionsOnOpenPorts
  <2>3. SessionsSeeAllData'
    <3>1. /\ taken' = [taken EXCEPT ![cursor] = arrived[cursor]]
          /\ position' = [fd \in Fds |-> IF fd \in sessions[cursor] THEN arrived[cursor]
                                         ELSE position[fd]]
          /\ UNCHANGED sessions
      BY <1>3 DEF PortServes, Sent
    <3>2. \A p \in Ports \ {cursor} : sessions[p] \cap sessions[cursor] = {}
      BY DEF TypeInv, TypeOK, SessionInv, DescriptorsFit
    <3> QED BY <3>1, <3>2 DEF TypeInv, TypeOK, SessionInv, SessionsSeeAllData
  <2>4. ClientsAreServed' /\ AnswersFit'
    BY <1>3 DEF PortServes, SessionInv, ClientsAreServed, AnswersFit
  <2> QED BY <2>1, <2>2, <2>3, <2>4 DEF SessionInv
<1> QED BY <1>1, <1>2, <1>3 DEF PortsPart

(* Every step keeps the invariant. *)
LEMMA NextSessions == TypeInv /\ SessionInv /\ [Next]_vars => SessionInv'
<1> SUFFICES ASSUME TypeInv, SessionInv, [Next]_vars PROVE SessionInv'
  OBVIOUS
<1>1. CASE HandlerLoop
  BY <1>1, RequestsSessions, MessageSessions, SessionsSessions, PortsSessions DEF HandlerLoop
<1>2. CASE (\E fd \in Fds : Client(fd)) \/ (\E p \in Ports : Device(p))
  BY <1>2, EnvironmentSessions
<1>3. CASE UNCHANGED vars
  BY <1>3 DEF vars, loop, tables, serial, clients, data, SessionInv, DescriptorsFit,
              SessionsOnOpenPorts, SessionsSeeAllData, EventsStayValid, Readable,
              ClientsAreServed, AnswersFit
<1> QED BY <1>1, <1>2, <1>3 DEF Next

(* The invariant of the sessions holds always.   *)
LEMMA SessionInvariant == Spec => []SessionInv
BY InitType, NextType, InitSessions, NextSessions, PTL DEF Spec

(* A descriptor is in one table at most, and one that was closed is in     *)
(* none: _accept_new_client never meets the trace of an old connection.    *)
THEOREM TablesOfDescriptorsFit == Spec => []DescriptorsFit
<1>1. SessionInv => DescriptorsFit
  BY DEF SessionInv
<1> QED BY <1>1, SessionInvariant, PTL

(* No event of a poll is stale when the loop comes to it, whatever the     *)
(* events before it closed or moved.                                       *)
THEOREM PolledEventsStayValid == Spec => []EventsStayValid
<1>1. SessionInv => EventsStayValid
  BY DEF SessionInv
<1> QED BY <1>1, SessionInvariant, PTL

(* Every session is on an open port, although the count of its users never *)
(* grows beyond one and never falls.                                       *)
THEOREM SessionsHaveOpenPorts == Spec => []SessionsOnOpenPorts
<1>1. SessionInv => SessionsOnOpenPorts
  BY DEF SessionInv
<1> QED BY <1>1, SessionInvariant, PTL

(* _handle_serial_port_data leaves out no session: each has been sent all  *)
(* the data read from its port since it joined.                            *)
THEOREM SessionsMissNothing == Spec => []SessionsSeeAllData
<1>1. SessionInv => SessionsSeeAllData
  BY DEF SessionInv
<1> QED BY <1>1, SessionInvariant, PTL

(* A client that was told "OK" has a session on the port it asked for      *)
(* until the handler closes it.                                            *)
THEOREM ServedClientsHaveSessions == Spec => []ClientsAreServed
<1>1. SessionInv => ClientsAreServed
  BY DEF SessionInv
<1> QED BY <1>1, SessionInvariant, PTL

=============================================================================
