---------------------------- MODULE StartupProofs ----------------------------
(***************************************************************************)
(* Theorems about the start-up, for any number of handlers, any ports and  *)
(* any number of clients that reach a handler too early.                   *)
(*                                                                         *)
(* The argument is one inductive invariant.  In each pass a handler stands *)
(* at one of three places: it has not answered (Waiting), its answer is on *)
(* the way (Answered), or the server has taken it (Taken).  What is in its *)
(* two queues and in its tables follows from the pass and the place, and a *)
(* pass ends when every handler is at the third.                           *)
(***************************************************************************)
EXTENDS StartupProperties, TLAPS

Passes == {"starting", "handlers", "accounts", "ports"}

(* The event of each pass; the first two wait for the same one. *)
EventOf(p) ==
    IF p = "accounts" THEN "init_default_account"
    ELSE IF p = "ports" THEN "init_serial_port" ELSE "init_handler"

AdminTable(ports) ==
    [users |-> {Admin}, groups |-> {DefaultGroup},
     member |-> {<<Admin, DefaultGroup>>}, ports |-> ports]

(* The table of a handler before and after it has answered in a pass. *)
Before(p, h) == IF p = "ports" THEN AdminTable({}) ELSE EmptyTable

After(p, h) ==
    IF p \in {"starting", "handlers"} THEN EmptyTable
    ELSE IF p = "accounts" THEN AdminTable({}) ELSE AdminTable(DefaultPorts(h))

Question(p) == IF p \in {"accounts", "ports"} THEN <<EventOf(p)>> ELSE <<>>

Waiting(h) ==
    /\ h \notin done
    /\ queue[h] = Question(phase)
    /\ replies[h] = <<>>
    /\ hdb[h] = Before(phase, h)
    /\ phase \in {"starting", "handlers"} => handler[h] # "running"
    /\ phase \in {"accounts", "ports"} => handler[h] \in {"running", "stopped"}

Answered(h) ==
    /\ h \notin done
    /\ queue[h] = <<>>
    /\ replies[h] = <<[event |-> EventOf(phase), ok |-> TRUE]>>
    /\ hdb[h] = After(phase, h)
    /\ handler[h] \in {"running", "stopped"}

Taken(h) ==
    /\ h \in done
    /\ queue[h] = <<>>
    /\ replies[h] = <<>>
    /\ hdb[h] = After(phase, h)
    /\ handler[h] \in {"running", "stopped"}

AdminServerTable(ports) ==
    [users |-> {Admin}, groups |-> {DefaultGroup},
     member |-> {<<Admin, DefaultGroup>>}, ports |-> ports,
     role |-> [u \in Users |-> IF u = Admin THEN "admin" ELSE NoRole],
     groupRole |-> [g \in Groups |-> IF g = DefaultGroup THEN "admin" ELSE NoRole]]

PortsDone == UNION {DefaultPorts(h) : h \in done}

Progress ==
    /\ phase \in Passes \cup {"serving"}
    /\ phase = "starting" => done = {}
    /\ phase = "serving" => done = Handlers
    /\ config = IF phase \in {"starting", "handlers"} THEN EmptyServerTable
                ELSE AdminServerTable({})
    /\ op = IF phase \in {"ports", "serving"} THEN AdminServerTable(PortsDone)
            ELSE EmptyServerTable

Places ==
    \A h \in Handlers :
        IF phase = "serving" THEN Taken(h) ELSE Waiting(h) \/ Answered(h) \/ Taken(h)

StartInv == TypeOK /\ Progress /\ Places

-----------------------------------------------------------------------------
(* Tables *)

(* A port belongs to a handler. *)
LEMMA HandlerOfType == \A p \in Ports : HandlerOf(p) \in Handlers
BY StartupAssumption DEF HandlerOf, Handlers

LEMMA DefaultPortsType == \A h \in Handlers : DefaultPorts(h) \subseteq Ports \X Groups
BY StartupAssumption DEF DefaultPorts, PortsOf

(* A table that has no port of the handler takes all of them. *)
LEMMA AllPortsNew ==
    ASSUME NEW db, NEW h \in Handlers, db.ports \cap DefaultPorts(h) = {}
    PROVE  NewPorts(db, h) = DefaultPorts(h)
BY DEF NewPorts, DefaultPorts, CanPortJoin

(* The ports of a handler that is not done are not in the operation DB. *)
LEMMA NotDoneNotThere ==
    ASSUME NEW h \in Handlers, h \notin done
    PROVE  PortsDone \cap DefaultPorts(h) = {}
BY DEF PortsDone, DefaultPorts, PortsOf

LEMMA ShortQueues ==
    ASSUME NEW x
    PROVE  /\ Append(<<>>, x) = <<x>>
           /\ Head(<<x>>) = x /\ Tail(<<x>>) = <<>> /\ <<x>> # <<>>
OBVIOUS

(* add_user_account, field by field. *)
LEMMA AddUserToHandlerTable ==
    ASSUME NEW u, NEW g, NEW us, NEW gs, NEW ms, NEW ps
    PROVE  AddUserIn([users |-> us, groups |-> gs, member |-> ms, ports |-> ps], u, g)
             = [users |-> us \cup {u}, groups |-> gs, member |-> ms \cup {<<u, g>>}, ports |-> ps]
<1> DEFINE t    == [users |-> us, groups |-> gs, member |-> ms, ports |-> ps]
           half == [t EXCEPT !.users = @ \cup {u}]
<1>1. half = [users |-> us \cup {u}, groups |-> gs, member |-> ms, ports |-> ps]
  OBVIOUS
<1>2. AddUserIn(t, u, g) = [half EXCEPT !.member = @ \cup {<<u, g>>}]
  BY DEF AddUserIn
<1> HIDE DEF half
<1>3. [half EXCEPT !.member = @ \cup {<<u, g>>}]
        = [users |-> us \cup {u}, groups |-> gs, member |-> ms \cup {<<u, g>>}, ports |-> ps]
  BY <1>1
<1> QED
  BY <1>2, <1>3

LEMMA AddUserToServerTable ==
    ASSUME NEW u, NEW g, NEW us, NEW gs, NEW ms, NEW ps, NEW r, NEW gr
    PROVE  AddUserIn([users |-> us, groups |-> gs, member |-> ms, ports |-> ps,
                      role |-> r, groupRole |-> gr], u, g)
             = [users |-> us \cup {u}, groups |-> gs, member |-> ms \cup {<<u, g>>},
                ports |-> ps, role |-> r, groupRole |-> gr]
<1> DEFINE t    == [users |-> us, groups |-> gs, member |-> ms, ports |-> ps,
                    role |-> r, groupRole |-> gr]
           half == [t EXCEPT !.users = @ \cup {u}]
<1>1. half = [users |-> us \cup {u}, groups |-> gs, member |-> ms, ports |-> ps,
              role |-> r, groupRole |-> gr]
  OBVIOUS
<1>2. AddUserIn(t, u, g) = [half EXCEPT !.member = @ \cup {<<u, g>>}]
  BY DEF AddUserIn
<1> HIDE DEF half
<1>3. [half EXCEPT !.member = @ \cup {<<u, g>>}]
        = [users |-> us \cup {u}, groups |-> gs, member |-> ms \cup {<<u, g>>},
           ports |-> ps, role |-> r, groupRole |-> gr]
  BY <1>1
<1> QED
  BY <1>2, <1>3

(* The roles of a user and a group. *)
LEMMA NameRoles ==
    ASSUME NEW u, NEW g, NEW us, NEW gs, NEW ms, NEW ps, NEW r, NEW gr, NEW x
    PROVE  [[users |-> us, groups |-> gs, member |-> ms, ports |-> ps,
             role |-> r, groupRole |-> gr] EXCEPT !.role[u] = x, !.groupRole[g] = x]
             = [users |-> us, groups |-> gs, member |-> ms, ports |-> ps,
                role |-> [r EXCEPT ![u] = x], groupRole |-> [gr EXCEPT ![g] = x]]
<1> DEFINE t    == [users |-> us, groups |-> gs, member |-> ms, ports |-> ps,
                    role |-> r, groupRole |-> gr]
           half == [t EXCEPT !.role[u] = x]
           ru   == [r EXCEPT ![u] = x]
           rg   == [gr EXCEPT ![g] = x]
<1>1. half = [t EXCEPT !.role = ru]
  OBVIOUS
<1>2. [t EXCEPT !.role[u] = x, !.groupRole[g] = x] = [half EXCEPT !.groupRole[g] = x]
  OBVIOUS
<1> HIDE DEF ru
<1>3. half = [users |-> us, groups |-> gs, member |-> ms, ports |-> ps,
              role |-> ru, groupRole |-> gr]
  BY <1>1
<1> HIDE DEF half
<1>4. [half EXCEPT !.groupRole[g] = x] = [half EXCEPT !.groupRole = rg]
  BY <1>3
<1> HIDE DEF rg
<1>5. [half EXCEPT !.groupRole = rg]
        = [users |-> us, groups |-> gs, member |-> ms, ports |-> ps,
           role |-> ru, groupRole |-> rg]
  BY <1>3
<1> QED
  BY <1>2, <1>4, <1>5 DEF ru, rg

(* create_group and add_user_account on a table without users and groups:  *)
(* of a handler, then of the server.                                       *)
LEMMA AdminIntoHandlerTable ==
    AddUserIn(CreateGroupIn(EmptyTable, DefaultGroup), Admin, DefaultGroup) = AdminTable({})
<1>1. CreateGroupIn(EmptyTable, DefaultGroup)
        = [users |-> {}, groups |-> {DefaultGroup}, member |-> {}, ports |-> {}]
  BY DEF CreateGroupIn, EmptyTable
<1>2. {} \cup {Admin} = {Admin} /\ {} \cup {<<Admin, DefaultGroup>>} = {<<Admin, DefaultGroup>>}
  OBVIOUS
<1> QED
  BY <1>1, <1>2, AddUserToHandlerTable DEF AdminTable

LEMMA AdminIntoEmpty ==
    /\ CanHaveAdmin(EmptyServerTable)
    /\ WithAdmin(EmptyServerTable) = AdminServerTable({})
<1> USE StartupAssumption
<1> DEFINE roles      == [u \in Users |-> NoRole]
           groupRoles == [g \in Groups |-> NoRole]
           added == AddUserIn(CreateGroupIn(EmptyServerTable, DefaultGroup), Admin, DefaultGroup)
<1>1. CanHaveAdmin(EmptyServerTable)
  BY DEF CanHaveAdmin, EmptyServerTable, CanCreateGroup, CreateGroupIn, CanAddUser
<1>2. CreateGroupIn(EmptyServerTable, DefaultGroup)
        = [users |-> {}, groups |-> {DefaultGroup}, member |-> {}, ports |-> {},
           role |-> roles, groupRole |-> groupRoles]
  BY DEF CreateGroupIn, EmptyServerTable
<1>3. [roles EXCEPT ![Admin] = "admin"]
        = [u \in Users |-> IF u = Admin THEN "admin" ELSE NoRole]
  OBVIOUS
<1>4. [groupRoles EXCEPT ![DefaultGroup] = "admin"]
        = [g \in Groups |-> IF g = DefaultGroup THEN "admin" ELSE NoRole]
  OBVIOUS
<1>5. {} \cup {Admin} = {Admin} /\ {} \cup {<<Admin, DefaultGroup>>} = {<<Admin, DefaultGroup>>}
  OBVIOUS
<1> HIDE DEF roles, groupRoles
<1>6. added = [users |-> {Admin}, groups |-> {DefaultGroup},
               member |-> {<<Admin, DefaultGroup>>}, ports |-> {},
               role |-> roles, groupRole |-> groupRoles]
  BY <1>2, <1>5, AddUserToServerTable
<1>7. WithAdmin(EmptyServerTable)
        = [added EXCEPT !.role[Admin] = "admin", !.groupRole[DefaultGroup] = "admin"]
  BY DEF WithAdmin
<1> HIDE DEF added
<1> QED
  BY <1>1, <1>3, <1>4, <1>6, <1>7, NameRoles DEF AdminServerTable

LEMMA AdminTakesPorts ==
    ASSUME NEW db, db = AdminTable({}), NEW ports
    PROVE  [db EXCEPT !.ports = db.ports \cup ports] = AdminTable(ports)
<1>1. db.ports = {} /\ {} \cup ports = ports
  BY DEF AdminTable
<1> QED
  BY <1>1 DEF AdminTable

LEMMA EmptyTablesTyped == EmptyTable \in Table /\ EmptyServerTable \in ServerTable
BY DEF EmptyTable, Table, EmptyServerTable, ServerTable, RoleNames

LEMMA AdminTablesTyped ==
    ASSUME NEW ports \in SUBSET (Ports \X Groups)
    PROVE  AdminTable(ports) \in Table /\ AdminServerTable(ports) \in ServerTable
BY StartupAssumption
   DEF AdminTable, Table, AdminServerTable, ServerTable, RoleNames, ValidRoles

LEMMA PortsDoneType == done \subseteq Handlers => PortsDone \in SUBSET (Ports \X Groups)
BY DefaultPortsType DEF PortsDone

-----------------------------------------------------------------------------
LEMMA InitStartInv == Init => StartInv
<1> SUFFICES ASSUME Init PROVE StartInv
  OBVIOUS
<1> USE DEF Init
<1>1. TypeOK
  BY EmptyTablesTyped, StartupAssumption DEF TypeOK
<1>2. Progress
  BY DEF Progress, Passes
<1>3. Places
  BY DEF Places, Waiting, Question, Before
<1> QED
  BY <1>1, <1>2, <1>3 DEF StartInv

(* Nothing that a place mentions changes for handler k. *)
Untouched(k) ==
    /\ phase' = phase
    /\ k \in done' <=> k \in done
    /\ queue'[k] = queue[k] /\ replies'[k] = replies[k]
    /\ hdb'[k] = hdb[k] /\ handler'[k] = handler[k]

Place(k) ==
    IF phase = "serving" THEN Taken(k) ELSE Waiting(k) \/ Answered(k) \/ Taken(k)

LEMMA UntouchedKeepsPlace ==
    ASSUME NEW k \in Handlers, Place(k), Untouched(k)
    PROVE  Place(k)'
BY DEF Place, Untouched, Waiting, Answered, Taken, Before, After, Question

LEMMA PlacesAre == Places <=> \A k \in Handlers : Place(k)
BY DEF Places, Place

(* Every process started has a place that survives the end of the process. *)
LEMMA StopKeepsPlace ==
    ASSUME NEW h \in Handlers, TypeOK, Place(h), handler[h] \in {"starting", "running"},
           handler' = [handler EXCEPT ![h] = "stopped"],
           UNCHANGED <<phase, done, config, op, hdb, queue, replies>>
    PROVE  Place(h)'
<1>1. handler'[h] = "stopped"
  BY DEF TypeOK
<1> QED
  BY <1>1 DEF Place, Waiting, Answered, Taken, Before, After, Question

-----------------------------------------------------------------------------
(***************************************************************************)
(* The invariant is kept.  The server's steps that begin a pass move every *)
(* handler from the third place to the first; every other step moves one   *)
(* handler and touches no other.                                           *)
(***************************************************************************)
LEMMA StartHandlerKeeps ==
    ASSUME StartInv, NEW h \in Handlers, StartHandler(h)
    PROVE  Progress' /\ Places'
<1> USE DEF StartInv, StartHandler
<1>1. Progress'
  BY DEF Progress, Passes, PortsDone, TypeOK
<1>2. ASSUME NEW k \in Handlers PROVE Place(k)'
  <2>1. Place(k)
    BY PlacesAre
  <2>2. Waiting(h)
    BY PlacesAre DEF Place, Answered, Taken, Waiting
  <2>3. handler'[k] = IF k = h THEN "starting" ELSE handler[k]
    BY DEF TypeOK
  <2> QED
    BY <2>1, <2>2, <2>3 DEF Place, Waiting, Answered, Taken, Question, Before, After, EventOf
<1> QED
  BY <1>1, <1>2, PlacesAre DEF Places, Place

LEMMA HandlerStartsKeeps ==
    ASSUME StartInv, NEW h \in Handlers, HandlerStarts(h)
    PROVE  Progress' /\ Places'
<1> USE DEF StartInv, HandlerStarts
<1>1. Progress'
  BY DEF Progress, Passes, PortsDone
<1>2. Waiting(h) /\ phase \in {"starting", "handlers"}
  BY PlacesAre DEF Place, Waiting, Answered, Taken, Progress, Passes
<1>3. ASSUME NEW k \in Handlers PROVE Place(k)'
  <2>1. CASE k = h
    <3>1. replies'[h] = <<[event |-> "init_handler", ok |-> TRUE]>> /\ handler'[h] = "running"
      BY <1>2, ShortQueues DEF Answer, TypeOK, Waiting
    <3>2. Answered(h)'
      BY <1>2, <3>1 DEF Answered, Waiting, Question, Before, After, EventOf
    <3> QED
      BY <2>1, <3>2, <1>2 DEF Place
  <2>2. CASE k # h
    BY <2>2, UntouchedKeepsPlace, PlacesAre DEF Untouched, Answer, TypeOK
  <2> QED
    BY <2>1, <2>2
<1> QED
  BY <1>1, <1>3, PlacesAre DEF Places, Place

LEMMA StopsKeeps ==
    ASSUME StartInv, NEW h \in Handlers, handler[h] \in {"starting", "running"},
           handler' = [handler EXCEPT ![h] = "stopped"],
           UNCHANGED <<phase, done, config, op, hdb, queue, replies>>
    PROVE  Progress' /\ Places'
<1> USE DEF StartInv
<1>1. Progress'
  BY DEF Progress, Passes, PortsDone
<1>2. ASSUME NEW k \in Handlers PROVE Place(k)'
  <2>1. CASE k = h
    BY <2>1, StopKeepsPlace, PlacesAre
  <2>2. CASE k # h
    BY <2>2, UntouchedKeepsPlace, PlacesAre DEF Untouched, TypeOK
  <2> QED
    BY <2>1, <2>2
<1> QED
  BY <1>1, <1>2, PlacesAre DEF Places, Place

LEMMA InitAccountKeeps ==
    ASSUME StartInv, NEW h \in Handlers, InitAccount(h)
    PROVE  Progress' /\ Places'
<1> USE DEF StartInv, InitAccount, Takes
<1>1. Progress'
  BY DEF Progress, Passes, PortsDone
<1>2. Waiting(h) /\ phase = "accounts"
  BY PlacesAre DEF Place, Waiting, Answered, Taken, Progress, Passes, Question, EventOf
<1>3. hdb[h] = EmptyTable /\ queue[h] = <<"init_default_account">>
  BY <1>2 DEF Waiting, Before, Question, EventOf
<1>4. CanCreateGroup(hdb[h], DefaultGroup)
      /\ CanAddUser(CreateGroupIn(hdb[h], DefaultGroup), Admin, DefaultGroup)
  BY <1>3 DEF CanCreateGroup, CanAddUser, CreateGroupIn, EmptyTable
<1>5. AddUserIn(CreateGroupIn(hdb[h], DefaultGroup), Admin, DefaultGroup) = AdminTable({})
  BY <1>3, AdminIntoHandlerTable
<1>6. ASSUME NEW k \in Handlers PROVE Place(k)'
  <2>1. CASE k = h
    <3>1. hdb'[h] = AdminTable({})
      BY <1>4, <1>5 DEF TypeOK
    <3>2. replies'[h] = <<[event |-> "init_default_account", ok |-> TRUE]>> /\ queue'[h] = <<>>
      BY <1>2, <1>3, <1>4, ShortQueues DEF Answer, TypeOK, Waiting
    <3>3. Answered(h)'
      BY <1>2, <3>1, <3>2 DEF Answered, Waiting, After, EventOf
    <3> QED
      BY <2>1, <3>3, <1>2 DEF Place
  <2>2. CASE k # h
    BY <2>2, UntouchedKeepsPlace, PlacesAre DEF Untouched, Answer, TypeOK
  <2> QED
    BY <2>1, <2>2
<1> QED
  BY <1>1, <1>6, PlacesAre DEF Places, Place

LEMMA InitPortsKeeps ==
    ASSUME StartInv, NEW h \in Handlers, InitPorts(h)
    PROVE  Progress' /\ Places'
<1> USE DEF StartInv, InitPorts, Takes
<1>1. Progress'
  BY DEF Progress, Passes, PortsDone
<1>2. Waiting(h) /\ phase = "ports"
  BY PlacesAre DEF Place, Waiting, Answered, Taken, Progress, Passes, Question, EventOf
<1>3. hdb[h] = AdminTable({}) /\ queue[h] = <<"init_serial_port">>
  BY <1>2 DEF Waiting, Before, Question, EventOf
<1>4. NewPorts(hdb[h], h) = DefaultPorts(h)
  BY <1>3, AllPortsNew DEF AdminTable
<1>5. ASSUME NEW k \in Handlers PROVE Place(k)'
  <2>1. CASE k = h
    <3>1. hdb'[h] = [hdb[h] EXCEPT !.ports = hdb[h].ports \cup DefaultPorts(h)]
      BY <1>4 DEF TypeOK
    <3>2. hdb'[h] = AdminTable(DefaultPorts(h))
      BY <3>1, <1>3, AdminTakesPorts
    <3>3. replies'[h] = <<[event |-> "init_serial_port", ok |-> TRUE]>> /\ queue'[h] = <<>>
      BY <1>2, <1>3, <1>4, ShortQueues DEF Answer, TypeOK, Waiting
    <3>4. Answered(h)'
      BY <1>2, <3>2, <3>3 DEF Answered, Waiting, After, EventOf
    <3> QED
      BY <2>1, <3>4, <1>2 DEF Place
  <2>2. CASE k # h
    BY <2>2, UntouchedKeepsPlace, PlacesAre DEF Untouched, Answer, TypeOK
  <2> QED
    BY <2>1, <2>2
<1> QED
  BY <1>1, <1>5, PlacesAre DEF Places, Place

LEMMA ServerTakesKeeps ==
    ASSUME StartInv, NEW h \in Handlers, ServerTakes(h)
    PROVE  Progress' /\ Places'
<1> USE DEF StartInv, ServerTakes
<1>1. Answered(h) /\ phase \in {"handlers", "accounts", "ports"}
  BY PlacesAre DEF Place, Waiting, Answered, Taken, Awaited
<1>2. IsGood(Head(replies[h])) /\ Tail(replies[h]) = <<>>
  BY <1>1, ShortQueues DEF Answered, IsGood, Awaited, EventOf
<1>3. done' = done \cup {h} /\ h \notin done
  BY <1>2
<1>4. phase' = phase /\ op' = IF phase = "ports" THEN AdminServerTable(PortsDone') ELSE op
  <2>1. CASE phase # "ports"
    BY <1>2, <2>1
  <2>2. CASE phase = "ports"
    <3>1. op = AdminServerTable(PortsDone)
      BY <2>2 DEF Progress
    <3>2. op.ports = PortsDone
      BY <3>1 DEF AdminServerTable
    <3>3. NewPorts(op, h) = DefaultPorts(h)
      BY <1>3, <3>2, NotDoneNotThere, AllPortsNew
    <3>4. phase' = phase /\ op' = [op EXCEPT !.ports = @ \cup DefaultPorts(h)]
      BY <1>2, <2>2, <3>3
    <3>5. PortsDone' = PortsDone \cup DefaultPorts(h)
      BY <1>3 DEF PortsDone
    <3>6. op' = AdminServerTable(PortsDone \cup DefaultPorts(h))
      BY <3>1, <3>2, <3>4 DEF AdminServerTable
    <3> QED
      BY <2>2, <3>4, <3>5, <3>6
  <2> QED
    BY <2>1, <2>2
<1>5. Progress'
  BY <1>1, <1>4 DEF Progress, Passes
<1>6. ASSUME NEW k \in Handlers PROVE Place(k)'
  <2>1. CASE k = h
    <3>1. replies'[h] = <<>>
      BY <1>2 DEF TypeOK
    <3>2. Taken(h)'
      BY <1>1, <1>3, <1>4, <3>1 DEF Taken, Answered, After
    <3> QED
      BY <2>1, <3>2, <1>1, <1>4 DEF Place
  <2>2. CASE k # h
    BY <1>3, <1>4, <2>2, UntouchedKeepsPlace, PlacesAre DEF Untouched, TypeOK
  <2> QED
    BY <2>1, <2>2
<1> QED
  BY <1>5, <1>6, PlacesAre DEF Places, Place

(* When a pass ends every handler is at the third place. *)
LEMMA PassOver ==
    ASSUME StartInv, done = Handlers, NEW k \in Handlers
    PROVE  Taken(k)
BY PlacesAre DEF StartInv, Place, Waiting, Answered

LEMMA SendAccountsKeeps ==
    ASSUME StartInv, SendAccounts
    PROVE  Progress' /\ Places'
<1> USE DEF StartInv, SendAccounts, PassEnds
<1>1. config = EmptyServerTable /\ op = EmptyServerTable
  BY DEF Progress
<1>2. /\ config' = AdminServerTable({}) /\ phase' = "accounts" /\ done' = {}
      /\ queue' = [k \in Handlers |-> Append(queue[k], "init_default_account")]
  BY <1>1, AdminIntoEmpty DEF Broadcast
<1>3. Progress'
  BY <1>1, <1>2 DEF Progress, Passes
<1>4. ASSUME NEW k \in Handlers PROVE Place(k)'
  <2>1. Taken(k)
    BY PassOver
  <2>2. queue'[k] = <<"init_default_account">>
    BY <1>2, <2>1, ShortQueues DEF Taken
  <2>3. Waiting(k)'
    BY <1>2, <2>1, <2>2 DEF Waiting, Taken, Question, EventOf, Before, After
  <2> QED
    BY <1>2, <2>3 DEF Place
<1> QED
  BY <1>3, <1>4, PlacesAre DEF Places, Place

LEMMA SendPortsKeeps ==
    ASSUME StartInv, SendPorts
    PROVE  Progress' /\ Places'
<1> USE DEF StartInv, SendPorts, PassEnds
<1>1. config = AdminServerTable({}) /\ op = EmptyServerTable
  BY DEF Progress
<1>2. /\ op' = AdminServerTable({}) /\ phase' = "ports" /\ done' = {}
      /\ queue' = [k \in Handlers |-> Append(queue[k], "init_serial_port")]
  BY <1>1, AdminIntoEmpty DEF Broadcast
<1>3. Progress'
  <2>1. PortsDone' = {}
    BY <1>2 DEF PortsDone
  <2> QED
    BY <1>1, <1>2, <2>1 DEF Progress, Passes
<1>4. ASSUME NEW k \in Handlers PROVE Place(k)'
  <2>1. Taken(k)
    BY PassOver
  <2>2. queue'[k] = <<"init_serial_port">>
    BY <1>2, <2>1, ShortQueues DEF Taken
  <2>3. Waiting(k)'
    BY <1>2, <2>1, <2>2 DEF Waiting, Taken, Question, EventOf, Before, After
  <2> QED
    BY <1>2, <2>3 DEF Place
<1> QED
  BY <1>3, <1>4, PlacesAre DEF Places, Place

LEMMA ServeKeeps ==
    ASSUME StartInv, Serve
    PROVE  Progress' /\ Places'
<1> USE DEF StartInv, Serve, PassEnds
<1>1. Progress'
  BY DEF Progress, Passes, PortsDone
<1>2. ASSUME NEW k \in Handlers PROVE Taken(k)'
  <2>1. Taken(k)
    BY PassOver
  <2> QED
    BY <2>1 DEF Taken, After
<1> QED
  BY <1>1, <1>2 DEF Places

-----------------------------------------------------------------------------
(* Types *)

LEMMA TypesKept ==
    ASSUME StartInv, Next, Progress', Places'
    PROVE  TypeOK'
<1> USE DEF StartInv
<1>1. done' \in SUBSET Handlers
  BY DEF TypeOK, Next, ServerStep, HandlerStep, EarlyStep, StartHandler, ServerTakes,
         SendAccounts, SendPorts, Serve, HandlerStarts, HandlerCannotStart, InitAccount,
         InitPorts, Takes, EarlyRequest, EarlyHangUp, EarlyClient
<1>2. config' \in ServerTable /\ op' \in ServerTable
  <2>1. PortsDone' \in SUBSET (Ports \X Groups)
    BY <1>1, DefaultPortsType DEF PortsDone
  <2> QED
    BY <2>1, EmptyTablesTyped, AdminTablesTyped DEF Progress
<1>3. phase' \in {"starting", "handlers", "accounts", "ports", "serving", "ended"}
  BY DEF Progress, Passes
<1>4. handler' \in [Handlers -> {"none", "starting", "running", "stopped"}]
  BY DEF TypeOK, Next, ServerStep, HandlerStep, EarlyStep, StartHandler, ServerTakes,
         SendAccounts, SendPorts, Serve, HandlerStarts, HandlerCannotStart, InitAccount,
         InitPorts, Takes, EarlyRequest, EarlyHangUp, EarlyClient
<1>5. hdb' \in [Handlers -> Table]
  <2>1. \A k \in Handlers : hdb'[k] \in Table
    <3>1. \A k \in Handlers, p \in Passes \cup {"serving"} :
             Before(p, k) \in Table /\ After(p, k) \in Table
      BY EmptyTablesTyped, AdminTablesTyped, DefaultPortsType DEF Before, After
    <3> QED
      BY <3>1 DEF Progress, Places, Waiting, Answered, Taken
  <2>2. \/ hdb' = hdb
        \/ \E h \in Handlers : \E t : hdb' = [hdb EXCEPT ![h] = t]
    <3>1. ASSUME NEW h \in Handlers, InitAccount(h)
          PROVE  \E t : hdb' = [hdb EXCEPT ![h] = t]
      BY <3>1 DEF InitAccount
    <3>2. ASSUME NEW h \in Handlers, InitPorts(h)
          PROVE  \E t : hdb' = [hdb EXCEPT ![h] = t]
      BY <3>2 DEF InitPorts
    <3> QED
      BY <3>1, <3>2 DEF Next, ServerStep, HandlerStep, EarlyStep, StartHandler, ServerTakes,
         SendAccounts, SendPorts, Serve, HandlerStarts, HandlerCannotStart,
         EarlyRequest, EarlyHangUp, EarlyClient
  <2> QED
    BY <2>1, <2>2 DEF TypeOK
<1>6. queue' \in [Handlers -> Seq(Events)]
  <2>1. ASSUME NEW e \in Events, Broadcast(e) PROVE queue' \in [Handlers -> Seq(Events)]
    BY <2>1 DEF Broadcast, TypeOK
  <2>2. ASSUME NEW h \in Handlers, NEW e, Takes(h, e) PROVE queue' \in [Handlers -> Seq(Events)]
    BY <2>2 DEF Takes, TypeOK
  <2> QED
    BY <2>1, <2>2
       DEF TypeOK, Next, ServerStep, HandlerStep, EarlyStep, StartHandler, ServerTakes,
           SendAccounts, SendPorts, Serve, HandlerStarts, HandlerCannotStart, InitAccount,
           InitPorts, EarlyRequest, EarlyHangUp, EarlyClient, Events
<1>7. replies' \in [Handlers -> Seq([event : Events, ok : BOOLEAN])]
  <2>1. ASSUME NEW h \in Handlers, NEW e \in Events, NEW ok \in BOOLEAN, Answer(h, e, ok)
        PROVE  replies' \in [Handlers -> Seq([event : Events, ok : BOOLEAN])]
    <3> DEFINE Replies == [event : Events, ok : BOOLEAN]
               reply   == [event |-> e, ok |-> ok]
    <3>1. reply \in Replies /\ replies \in [Handlers -> Seq(Replies)]
      BY DEF TypeOK
    <3>2. replies' = [replies EXCEPT ![h] = Append(@, reply)]
      BY <2>1 DEF Answer
    <3> HIDE DEF Replies, reply
    <3>3. replies' \in [Handlers -> Seq(Replies)]
      BY <3>1, <3>2
    <3> QED
      BY <3>3 DEF Replies
  <2>2. ASSUME NEW h \in Handlers, ServerTakes(h)
        PROVE  replies' \in [Handlers -> Seq([event : Events, ok : BOOLEAN])]
    <3> DEFINE Replies == [event : Events, ok : BOOLEAN]
    <3>1. replies \in [Handlers -> Seq(Replies)] /\ replies[h] # <<>>
          /\ replies' = [replies EXCEPT ![h] = Tail(@)]
      BY <2>2 DEF TypeOK, ServerTakes
    <3> HIDE DEF Replies
    <3>2. replies' \in [Handlers -> Seq(Replies)]
      BY <3>1
    <3> QED
      BY <3>2 DEF Replies
  <2>3. ASSUME NEW h \in Handlers, InitAccount(h)
        PROVE  replies' \in [Handlers -> Seq([event : Events, ok : BOOLEAN])]
    BY <2>1, <2>3 DEF InitAccount, Events, CanCreateGroup, CanAddUser
  <2>4. ASSUME NEW h \in Handlers, InitPorts(h)
        PROVE  replies' \in [Handlers -> Seq([event : Events, ok : BOOLEAN])]
    BY <2>1, <2>4 DEF InitPorts, Events
  <2>5. ASSUME NEW h \in Handlers, HandlerStarts(h)
        PROVE  replies' \in [Handlers -> Seq([event : Events, ok : BOOLEAN])]
    BY <2>1, <2>5 DEF HandlerStarts, Events
  <2> QED
    BY <2>2, <2>3, <2>4, <2>5
       DEF TypeOK, Next, ServerStep, HandlerStep, EarlyStep, StartHandler,
           SendAccounts, SendPorts, Serve, HandlerCannotStart,
           EarlyRequest, EarlyHangUp, EarlyClient
<1>8. early' \in 0..MaxEarly
  <2>1. early' = early \/ (early < MaxEarly /\ early' = early + 1)
    BY DEF Next, ServerStep, HandlerStep, EarlyStep, StartHandler, ServerTakes,
           SendAccounts, SendPorts, Serve, HandlerStarts, HandlerCannotStart, InitAccount,
           InitPorts, Takes, EarlyRequest, EarlyHangUp, EarlyClient
  <2> QED
    BY <2>1, StartupAssumption DEF TypeOK
<1> QED
  BY <1>1, <1>2, <1>3, <1>4, <1>5, <1>6, <1>7, <1>8 DEF TypeOK

LEMMA StutterKeeps == ASSUME StartInv, UNCHANGED vars PROVE StartInv'
<1> USE DEF StartInv, vars
<1>1. TypeOK'
  BY DEF TypeOK
<1>2. Progress'
  BY DEF Progress, PortsDone
<1>3. ASSUME NEW k \in Handlers PROVE Place(k)'
  BY UntouchedKeepsPlace, PlacesAre DEF Untouched
<1> QED
  BY <1>1, <1>2, <1>3, PlacesAre DEF Places, Place

LEMMA NextKeepsStartInv == ASSUME StartInv, [Next]_vars PROVE StartInv'
<1>1. ASSUME Next PROVE Progress' /\ Places'
  <2>1. ASSUME NEW h \in Handlers, HandlerStep(h) PROVE Progress' /\ Places'
    <3>1. CASE HandlerStarts(h)
      BY <3>1, HandlerStartsKeeps
    <3>2. CASE HandlerCannotStart(h)
      BY <3>2, StopsKeeps DEF HandlerCannotStart
    <3>3. CASE InitAccount(h)
      BY <3>3, InitAccountKeeps
    <3>4. CASE InitPorts(h)
      BY <3>4, InitPortsKeeps
    <3> QED
      BY <2>1, <3>1, <3>2, <3>3, <3>4 DEF HandlerStep
  <2>2. ASSUME NEW h \in Handlers, EarlyStep(h) PROVE Progress' /\ Places'
    <3>1. UNCHANGED <<phase, done, config, op, hdb, queue, replies>>
      BY <2>2 DEF EarlyStep, EarlyRequest, EarlyHangUp, EarlyClient
    <3>2. CASE handler' = handler
      <4>1. Progress'
        BY <3>1 DEF StartInv, Progress, PortsDone
      <4>2. ASSUME NEW k \in Handlers PROVE Place(k)'
        BY <3>1, <3>2, UntouchedKeepsPlace, PlacesAre DEF Untouched, StartInv
      <4> QED
        BY <4>1, <4>2, PlacesAre DEF Places, Place
    <3>3. CASE handler[h] = "running" /\ handler' = [handler EXCEPT ![h] = "stopped"]
      BY <3>1, <3>3, StopsKeeps
    <3> QED
      BY <2>2, <3>2, <3>3 DEF EarlyStep, EarlyRequest, EarlyHangUp, EarlyClient
  <2>3. ASSUME ServerStep PROVE Progress' /\ Places'
    BY <2>3, StartHandlerKeeps, ServerTakesKeeps, SendAccountsKeeps, SendPortsKeeps, ServeKeeps
       DEF ServerStep
  <2> QED
    BY <1>1, <2>1, <2>2, <2>3 DEF Next
<1>2. CASE Next
  BY <1>1, <1>2, TypesKept DEF StartInv
<1>3. CASE UNCHANGED vars
  BY <1>3, StutterKeeps
<1> QED
  BY <1>2, <1>3

(* The invariant holds throughout. *)
LEMMA StartInvHolds == Spec => []StartInv
BY InitStartInv, NextKeepsStartInv, PTL DEF Spec

-----------------------------------------------------------------------------
(* Type correctness of the start-up (__init__ and run of both classes). *)
THEOREM StartupTypeCorrect == Spec => []TypeOK
<1>1. StartInv => TypeOK
  BY DEF StartInv
<1> QED
  BY <1>1, StartInvHolds, PTL

(* For any number of handlers and any ports, the main loop begins in the   *)
(* state ConsoleServer starts from (run() of ConsoleServer).               *)
THEOREM StartupEndsInServerInit == Spec => []ServingMatchesServer
<1>1. ASSUME StartInv, phase = "serving" PROVE Server!Init
  <2> USE <1>1 DEF StartInv
  <2>1. \A k \in Handlers : Taken(k)
    BY DEF Places
  <2>2. PortsDone = {<<p, DefaultGroup>> : p \in Ports}
    BY HandlerOfType DEF Progress, PortsDone, DefaultPorts, PortsOf
  <2>3. config = Server!WithRoles(Server!InitialTable({}))
    BY DEF Progress, AdminServerTable, Server!WithRoles, Server!InitialTable,
           Server!NoRole, NoRole
  <2>4. op = Server!WithRoles(Server!InitialTable(Ports))
    BY <2>2 DEF Progress, AdminServerTable, Server!WithRoles, Server!InitialTable,
                Server!NoRole, NoRole
  <2>5. Server!Handlers = Handlers
    BY DEF Server!Handlers, Handlers
  <2>6. hdb = [h \in Handlers |-> Server!InitialTable({p \in Ports : Server!HandlerOf(p) = h})]
    <3>1. \A h \in Handlers :
             hdb[h] = Server!InitialTable({p \in Ports : Server!HandlerOf(p) = h})
      BY <2>1 DEF Taken, After, AdminTable, DefaultPorts, PortsOf, HandlerOf,
                  Server!InitialTable, Server!HandlerOf
    <3> QED
      BY <3>1 DEF TypeOK
  <2>7. queue = [h \in Handlers |-> <<>>] /\ replies = [h \in Handlers |-> <<>>]
    BY <2>1 DEF Taken, TypeOK
  <2> QED
    BY <2>3, <2>4, <2>5, <2>6, <2>7 DEF Server!Init, Server!NoRequest
<1>2. StartInv => ServingMatchesServer
  BY <1>1 DEF ServingMatchesServer
<1> QED
  BY <1>2, StartInvHolds, PTL

(* No table refuses anything during the start-up, whichever handlers end   *)
(* meanwhile (_init_handle_admin_user, _init_handle_serial_port).          *)
THEOREM StartupIsNeverRefused == Spec => []NothingIsRefused
<1>1. StartInv => NothingIsRefused
  BY DEF StartInv, Progress, Passes, Places, Waiting, Answered, Taken, NothingIsRefused
<1> QED
  BY <1>1, StartInvHolds, PTL

(* A pass meets only replies to its own question (the three polling loops  *)
(* of the server).                                                         *)
THEOREM StartupRepliesAwaited == Spec => []RepliesAreAwaited
<1>1. StartInv => RepliesAreAwaited
  <2> SUFFICES ASSUME StartInv, NEW h \in Handlers, replies[h] # <<>>
               PROVE  /\ h \notin done
                      /\ Len(replies[h]) = 1
                      /\ phase = "starting" => replies[h][1].event = "init_handler"
                      /\ phase # "starting" => phase \in DOMAIN Awaited /\ IsGood(replies[h][1])
    BY DEF RepliesAreAwaited
  <2>1. Answered(h) /\ phase # "serving"
    BY DEF StartInv, Places, Waiting, Taken
  <2>2. replies[h][1] = [event |-> EventOf(phase), ok |-> TRUE] /\ Len(replies[h]) = 1
    BY <2>1 DEF Answered
  <2>3. phase # "starting" => phase \in DOMAIN Awaited /\ Awaited[phase] = EventOf(phase)
    BY <2>1 DEF StartInv, Progress, Passes, Awaited, EventOf
  <2> QED
    BY <2>1, <2>2, <2>3 DEF Answered, IsGood, EventOf
<1> QED
  BY <1>1, StartInvHolds, PTL

(* The operation DB is never ahead of the handlers in the ports it names   *)
(* (_init_handle_serial_port).                                             *)
THEOREM StartupPortsExist == Spec => []PortsExistAtHandlers
<1>1. StartInv => PortsExistAtHandlers
  <2> SUFFICES ASSUME StartInv, NEW p \in Ports, <<p, DefaultGroup>> \in op.ports
               PROVE  <<p, DefaultGroup>> \in hdb[HandlerOf(p)].ports
    BY DEF PortsExistAtHandlers
  <2> DEFINE h == HandlerOf(p)
  <2>1. phase \in {"ports", "serving"} /\ <<p, DefaultGroup>> \in PortsDone
    BY DEF StartInv, Progress, AdminServerTable, EmptyServerTable
  <2>2. h \in Handlers /\ h \in done
    BY <2>1, HandlerOfType DEF PortsDone, DefaultPorts, PortsOf
  <2>3. Taken(h)
    BY <2>2 DEF StartInv, Places, Waiting, Answered
  <2> QED
    BY <2>1, <2>3 DEF Taken, After, AdminTable, DefaultPorts, PortsOf
<1> QED
  BY <1>1, StartInvHolds, PTL

(* A handler that ends before its reply is taken stops the start-up for    *)
(* good (_check_handler_init_complete and the two loops like it).          *)
THEOREM StartupBlocks == Spec => LostHandlerBlocks
<1>1. ASSUME StartInv, [Next]_vars, NEW h \in Handlers, Lost(h)
      PROVE  Lost(h)' /\ (phase' = phase \/ phase = "starting")
  <2> USE <1>1 DEF Lost, StartInv
  <2>1. ASSUME NEW k \in Handlers, StartHandler(k) PROVE Lost(h)' /\ phase = "starting"
    BY <2>1 DEF StartHandler, TypeOK
  <2>2. ASSUME NEW k \in Handlers, ServerTakes(k) PROVE Lost(h)' /\ phase' = phase
    <3>1. phase' # "ended"
      BY <2>2, ServerTakesKeeps DEF Progress, Passes
    <3> QED
      BY <2>2, <3>1 DEF ServerTakes, TypeOK
  <2>3. ~SendAccounts /\ ~SendPorts /\ ~Serve
    BY DEF SendAccounts, SendPorts, Serve, PassEnds
  <2>4. ASSUME NEW k \in Handlers, HandlerStep(k) PROVE Lost(h)' /\ phase' = phase
    BY <2>4 DEF HandlerStep, HandlerStarts, HandlerCannotStart, InitAccount, InitPorts, Takes,
                Answer, TypeOK
  <2>5. ASSUME NEW k \in Handlers, EarlyStep(k) PROVE Lost(h)' /\ phase' = phase
    BY <2>5 DEF EarlyStep, EarlyRequest, EarlyHangUp, EarlyClient, TypeOK
  <2>6. CASE UNCHANGED vars
    BY <2>6 DEF vars
  <2> QED
    BY <2>1, <2>2, <2>3, <2>4, <2>5, <2>6 DEF Next, ServerStep
<1>2. StartInv /\ [Next]_vars =>
         [\A h \in Handlers : Lost(h) => Lost(h)' /\ (phase' = phase \/ phase = "starting")]_vars
  BY <1>1
<1> QED
  BY <1>2, StartInvHolds, PTL DEF Spec, LostHandlerBlocks

=============================================================================
