# Console server: TLA+ models and proofs

This directory keeps the formal model of the console server: what its processes
promise each other, checked with TLC on small instances and proved with TLAPS for
every number of handlers, ports, users, groups and requests. Line numbers refer to
the files under `src/`; CS is `src/src/console_server/processing/console_server.py`, H is
`console_server_handler.py` and PORT `console_server_port.py` next to it, SUB is
`src/src/ssh_server/ssh_server_subsystem.py`, SH `ssh_server_handler.py` next to it, SC is
`src/src/server_control/server_control.py` and SCH `server_control_handler.py` next to it.

## The system

A console server lets users reach the serial ports of a machine over SSH. The script
`server` starts a console server process (8 handler processes, 48 serial ports) and an
SSH server thread; `config` and `show` are command line tools.

| Part | State | Operations | Talks to |
|---|---|---|---|
| Console server (CS) | configuration DB and operation DB (users, groups, roles, port groups, port settings), the management clients with the request each is waiting for | account, group, port and query requests; replies of the handlers; start-up | management socket; one pair of queues per handler |
| Console server handler (H), one process each | users, groups and port groups of its own; pending connections; sessions; serial ports | account messages, connect requests, data between sessions and ports | its queue pair; its own socket; the serial devices |
| Serial port (`console_server_port.py`) | device, rate, count of users | open, close, read, write | a handler |
| Messages and queues (`common/`) | two FIFO queues per handler | send, receive without waiting | server and handlers |
| SSH server (`ssh_server/`) | nine listeners (one with passwords, eight without for six ports each), eight workers, a handler object and a thread for each session | accept, handshake, hand over, visit, close, forget | menus, by flags of the handler objects |
| Menus (`server_control/`) | the menu a session is in, its line, its connection to a handler | a visit: a few keys, one reply or one read | management socket, handler sockets |
| Command line tools | none | one request and its reply | management socket |
| DB server (`db/`) | tables and records | create, insert, query | nothing: it is never started |

What makes it hard:

* **Three copies of the accounts.** The configuration DB is written when a request is
  read, each handler when it serves its message, the operation DB when the last handler
  has replied. Requests of several clients overlap, and checks read different copies.
* **Replies are matched by socket descriptor**, which the kernel reuses.
* **Exceptions** are caught by the loop of the server (CS 2105-2117), which drops what
  it was doing, and by nothing in a handler, whose process ends.
* **A start-up in passes** that wait for one reply of every handler, without a limit of
  time, while handlers already take clients.
* **Sessions shared by flags**: the listener, a worker and the thread of the session read
  and write five flags of one object without a lock.
* **One stream for replies and output** between a session and its handler, cut anywhere,
  where a client that is refused asks again and one request may get two replies.
* **Descriptors and sessions of a handler** pass through several dictionaries and two
  epoll sets; any error returned to its loop ends it (H 1070-1105).

What makes each part correct: handlers end with the accounts of the configuration DB; a
request is completed by replies to that request; roles follow the groups; sessions see
the data of their port and only that; the server starts serving with every table in step or
waits; a session is run by one thread, closed once and then forgotten; a line is what was
typed, and a session can be left.

## Modules

| Module | Contents |
|---|---|
| `AccountDb` | The account tables as records of sets, one operator per method of the three DB classes (CS 23-271, CS 274-407, H 16-211), and the role rules (`_sync_user_role`, CS 1050). |
| `ConsoleServer` | The server, its handlers, queues and clients. EXTENDS `AccountDb`. |
| `ConsoleServerProperties` | Invariants, action properties and liveness. |
| `AccountReplication` | Abstract specification: a primary set of users and backups that take its numbered changes in order. |
| `ConsoleServerRefinement` | The mapping under which `ConsoleServer` implements it. |
| `MCConsoleServer` | The root module of the runs. |
| `ConsoleServerProofs` | Its types, and what a request can do at all. |
| `ReplyProofs` | Theorems about replies and about what reaches the operation DB. |
| `AccountProofs` | Theorems about the accounts of the handlers, and the refinement. |
| `HandlerSessions` | The main loop of one handler with its connections, sessions, ports, clients and devices. EXTENDS `AccountDb`. |
| `SessionProperties`, `MCHandlerSessions`, `SessionProofs` | Its properties, runs and theorems. |
| `Startup` | From the first handler process to the main loop, with the handlers' side and clients that come too early. EXTENDS `AccountDb`. |
| `StartupProperties`, `MCStartup`, `StartupProofs` | Its properties, run and theorems; an INSTANCE of `ConsoleServer` states where it has to end. |
| `SshSubsystem` | A listener of either kind, its workers and the threads of its sessions. |
| `SshProperties`, `MCSsh`, `SshProofs` | Its properties, run and theorems. |
| `DirectAccess` | One session on a serial port without a menu: client, stream, handler, user. |
| `DirectProperties`, `MCDirect`, `DirectProofs` | Its properties, run and theorems. |
| `MenuInput` | The menus of a session with a password: line editor, decisions, ends. |
| `MenuProperties`, `MCMenu`, `MenuProofs` | Its properties, run and theorems. |

The two machines meet in three places: both apply the messages of the server to a handler's
table with `Succeeds` and `Effect` of `AccountDb`; every action of `HandlerSessions` that
`Stops` the process is `HandlerStops` in `ConsoleServer`; and the message that ends a handler
there (`HandlerCrashes`) is `BadMessage` here.

The others join them at their ends. `Startup` ends in the initial state of `ConsoleServer`
(`ServingMatchesServer`). What a visit to a session is in `SshSubsystem` (it succeeds, fails,
shuts the session down, raises or does not return) is what a sequence of actions of `MenuInput`, or
of `Client` in `DirectAccess`, does in detail, and `VisitsEnd` says that it returns in the second.
What the other sessions of the same thread do to one of these is its `HoldUp`: from then on the
thread does not come back to it. The handler of `DirectAccess` is the one of
`HandlerSessions` as one connection sees it, with the bytes that are left out there.

### How `ConsoleServer` corresponds to the code

*State.* `config`, `op` and `hdb[h]` are the account parts of `_ConsoleServerConfigDb`,
`_ConsoleServerOpDb` and `_ConsolerServerHandlerDb`; `queue[h]` and `replies[h]` are the
two directions of `BiMsgQueue`; `stored[fd]` is the request the operation DB keeps with a
client socket, with the `ready` and `status` dictionaries of CS 1227-1232; `client[fd]`
is the socket; `alive[h]` whether the handler's process still runs.

*Atomicity.* The server is one thread, so one request handler or one reply handler, run
to its end, is one action. A handler process is one thread as well; an action serves one
message. Between them everything interleaves. One access is shared outside the queues:
the server adds keys to a request dictionary after it has put it on the queues, and the
feeder threads pickle it before or after that. The model takes this as a choice
(`ReplyRecorded` with everything ready, or `ReplyCompletes`).

*Actions.*

| Action | Code |
|---|---|
| `Accept`, `PeerClose`, `CloseClient` | CS 1961-2013; the client side of `config` and of the menus |
| `Denied` | `_check_permission` and the refusals of `_handler_server_message` (CS 1861-1912); a refusal for the role raises, since its reply is built from a string |
| `CreateGroup`, `DestroyGroup`, `ModifyGroup` | CS 1188-1390 |
| `AddUser`, `DelUser`, `ModifyUserRole` | CS 1432-1610 |
| `UserJoin`, `UserLeave` | CS 1650-1773 |
| `PortJoin`, `PortLeave`, `SetBaudRate` | CS 1775-1859, 1074-1123 |
| `HandlerServes`, `HandlerCrashes` | H 399-702 |
| `HandlerStops` | the other ways out of the loop of a handler, H 1075-1105 |
| `ReplyIgnored`, `ReplyRaises`, `ReplyRecorded`, `ReplyCompletes` | the four ways through `_handle_client_reply` (CS 866-999) |

*Left out of these actions.* Alias names, baud rates and the query requests (`show`),
which change no account state; the text of messages and replies; the JSON coding. The
`id` of a message is the number of its request: the code sends none, and only bounds
and properties read it. A group list is a set: nothing depends on its order except which
of two errors of `_sync_user_role` comes first, and that is a choice. Clients wait for
the reply to a request before they send another, as the tools and the menus do. A
`send` to a closed socket fails, to an open one succeeds.

### How `HandlerSessions` corresponds to the code

*State.* `pending`, `portOf` and `sessions` are `_pending_conn_dict`, the port field of
`_client_socket_dict` and the `fd_dict` of each port, all keyed by descriptor; a descriptor is
in an epoll set exactly while it is in the dictionary next to it. `opened` and `current` are
`is_open` and `_current_user` of a serial port. `phase`, `events` and `cursor` say where the
loop is: which of its parts, the events its poll returned and that wait for their turn, the
port it looks at. `peer`, `inbox` and `answers` are the other end of each connection. `arrived`
and `taken` count the pieces of data of a device. `position`, the last piece a session was sent, and
`asked`, the port a client has asked for, are history.

*Atomicity.* The process is one thread. An action is the handling of one event, of one
message, or of one port; clients and devices act between any two of them. A poll happens in
the action that ends the part before.

| Action | Code |
|---|---|
| `SendRequest`, `ReadAnswer`, `AskAgain`, `Type`, `HangUp` | `ServerControlSerialAccessMode` (SC 107-148, 402-499); a refused client sends its request again on the same connection |
| `Accept`, `AcceptFails` | H 848-864 |
| `ReadsNothing`, `Connect`, `ConnectFails` | H 746-890 |
| `NoMessage`, `ServeMessage`, `BadMessage` | H 661-702 |
| `SessionEnds`, `SessionWrites`, `SessionFails` | H 927-953, 995-1020 |
| `RoundEnds`, `PortServes`, `PortFails` | H 983-993, 1022-1064 |
| `DeviceSends`, `Unplug` | the devices, as `in_waiting` and the failing calls of PORT 134-188 see them |

*Left out.* The bytes; requests that are not a connect request, or no request at all (no
client sends one); a request to a port of another handler (the menu computes the handler from
the port); sends that block; the rate. What a process leaves behind when it ends is left as it
was: nothing reads it.

### How `Startup` corresponds to the code

*State.* `phase` is the pass the server is in, `done` its `status_dict`, reduced to the handlers
that have replied; `config`, `op`, `hdb`, `queue` and `replies` are those of `ConsoleServer`;
`handler` is the process of each handler.

| Action | Code |
|---|---|
| `StartHandler` | `_init_console_handler`, CS 514-534 |
| `ServerTakes` | one turn of the waiting loops, CS 536-590, 673-716, 754-785 |
| `SendAccounts`, `SendPorts`, `Serve` | the end of a pass and what is sent next, CS 631-671, 722-752, 787-799, 2087-2104 |
| `HandlerStarts`, `HandlerCannotStart` | H 263-304 |
| `InitAccount`, `InitPorts` | H 317-397 |
| `EarlyRequest`, `EarlyHangUp` | H 746-890 at a handler that has not been told its users or ports |

*Atomicity.* Taking a reply and looking at it is one action of the server, and so is everything
between two passes: nothing else reads or writes the databases before the main loop. A pass
takes the handlers in the order of their numbers; the model lets it take them in any order, of
which the code's is one.

### How `SshSubsystem` corresponds to the code

*State.* `handlers` is `_server_handler_dict`; `tasks` the lists of the workers; `running`,
`complete`, `shutdown`, `clear` and `inQueue` the sessions whose handler object has the flag;
`thread` where the thread of a session is; `cursor` and `place` where the loops over the lists are;
`refused` the sessions whose menu fails at the moment. `closes` is history.

*Atomicity.* The flags are single attributes, so an action is what one thread does with one
handler object. Between two of them every thread can run; a list is read through its position,
as Python's loops over a list that grows do.

| Action | Code |
|---|---|
| `NoTransport`, `NoChannel`, `OpenChannel`, `Verified`, `NotVerified`, `BuildMenu` | SH 35-118, 137-146, 168-178 |
| `NoClient`, `Accept`, `AcceptReset`, `Save`, `SaveFails` | SUB 244-269, 324-350 |
| `Assign` | the loop of the listener with passwords, SUB 271-292, and SUB 187-192 |
| `Serve` | the loop of the listener without, SUB 352-371 |
| `Work`, `Rest` | a worker, SUB 200-218 |
| `Forget`, `NothingToForget` | `_clean_client`, SUB 100-127 |
| `Refuse`, `Admit` | what a menu depends on: accounts, the console server, a handler |

*Left out.* The cryptography and the protocol of SSH, whose outcomes are choices.
`delete_server_handler` and the branch that calls it (SUB 283-288): `running` and `complete` are
never reset, so it is never taken, and the lists of the workers only grow. `force` of
`_clean_client`, which no caller sets, and `clean_subsystem`, which has no caller.

### How `DirectAccess` corresponds to the code

*State.* `step` is where the client is between two looks at a socket; `toGet`, `dataStr` are
`receive_size` and `data_str` of the receive loop; `stream` and `inbox` are the two directions
of the connection; `outgoing` is what the handler still has to send. `screen`, `written`,
`cut` (output that a send to the user has cut off), `refused` (the client has read a refusal)
and `pieces` are history. `held` says that the listener does not come back: a session before
this one fails at every visit, another one has raised, or a send waits for a user who does not read.
The size of a reply is one unit, its text is `BodySize` units that arrive in any pieces; a unit of
output is the smallest piece that a read or a send ever cuts off.

| Action | Code |
|---|---|
| `Login`, `Ask` | SCH 215-236, SC 402-416, 452-459 |
| `ReadSize`, `SizeClosed`, `ReadText` | `_receive_uds_socket_reply_data`, SC 107-148 |
| `Exit`, `CarryText`, `NothingTyped`, `CarryOutput` | SC 418-451, 483-499 |
| `Answer`, `Send`, `Sent` | H 708-830 |
| `Write`, `PortSends`, `Closes` | H 235-250, 983-1020; what is typed while the port is busy is dropped (H 1005-1011) |
| `HoldUp` | SUB 352-371: a failing session ends the round, one that raises ends the listener |

`Channel.send` may take only a part of what it is given and returns how much; SC 445 does not look
at the number, so `Show` loses the rest.

*Left out.* The branch for a stream that ends within a text (SC 127-130): the handler sends a
size and its text in one function (H 726-744), and a size is cut from its text only by the end of the
process from outside. Encodings: what a user types and a port sends is passed on as it is. A size that is
itself cut, which a stream socket on the same machine does not do to four bytes; a size that is
not a reply's ends the model in a step that `TypeOK` rules out.

### How `MenuInput` corresponds to the code

*State.* `menu` and `login` are `_current_menu` and `_login`; `line` and `escape` are `_input_buffer` and
`_enable_escape_key`; `over` is how the session ends; `channel` what was typed and not read; `chunk` the rest of
`read_str`, the keys a visit has read and not handled; `entered` is history. `held` says that the
worker does not come back, because of its other sessions or because a send waits for good. Keys stand
for classes of keys: `5` for the items 3 to 5, `space` for whatever counts as white space, `x` for any
key no other class has. What a line asks for is what `rstrip` and `int` make of it: `Stripped` drops
the white space at the end, `ReadsAs` finds one digit with white space around it, a sign and zeros
before it and single underscores behind these zeros.

| Action | Code |
|---|---|
| `VisitTop` | the beginning of a visit: `handler` (SCH 29-70), which draws the menu if that is due, and the read of `run_system` (SC 196-198) |
| `EscapeKey`, `PrintingKey`, `BackKey`, `EnterKey` | one turn of the loop of `run_system` (SC 199-213, and the same of the access menu), by the key it finds: SC 37-50, 84-87, 77-81, 52-76 with 157-194 and the change of the menu in `handler` (SCH 71-200) |
| `VisitBelow` | entering a menu below, SC 310-362: its request lacks an argument, which raises |
| `Type`, `Leave` | the user, through the channel of the SSH library |
| `HoldUp` | SUB 204-217: a failing session ends the round, one that raises ends the worker |

*Atomicity.* The worker is one thread, and an action of it is the beginning of a visit or one key of
the chunk that the visit has read; the user types and leaves between any two of them, so that an echo
may fail in the middle of a chunk. What is typed behind a key that leaves the menu is read with it and lost.

### Bounds

`MaxRequests` and `MaxConns` bound the requests read and the connections accepted;
`Kinds` and `RoleChoices` select the requests of a run. Two handlers are enough for two
of them to differ, two descriptors for requests to overlap and for a descriptor to be
reused, one user and one group besides the defaults for every check on them to go both
ways. Four or five requests reach every disagreement listed below, the longest of which
takes four. `MayStop` names the handlers that may end for reasons of their sessions: one of
the two, so that the other goes on alone.

In `HandlerSessions`, `MaxConns` bounds the connections, `MaxChunks` the pieces a device sends,
`MaxMessages` and `Kinds` the messages of the server. Two ports are enough for one to stand
before the other; two descriptors and three connections for a number to be reused while another
session goes on; two pieces for a session to join between them; one message that takes the
group from a user, or ends the process, for the two sides of every check of the table.

`Startup` has four handlers, five ports (one handler has two, so that its list can be half
done) and `MaxEarly` clients that come too early, three: one more than it takes to end two handlers. `SshSubsystem`
has three sessions, two workers and a `CleanDepth` of two (8 and 5 in the code): three
sessions put two on one worker and let the third stand behind the first two in cleaning. The
listener without authentication has two ports and two sessions, which may come to one port or both. `DirectAccess` cuts a text of five units, the shortest
in which three pieces can be cut short in more than one way, and has three pieces of output, so that
a send can cut off one between two others or two at once, and
two of typing. `MenuInput` reads two keys in a visit (5 in the code), so that four keys need
several visits and a key can be behind the one that leaves; with all classes of keys four are
enough for a line such as `01`, `Q` and a space, or `0_1`, and its Enter.

Deadlock is not checked: clients may stop sending, users may leave, and the bounds end every
behaviour.

## Runs

| Run | Shows |
|---|---|
| `accounts` | No handler ever fails an add or a delete of a user, whatever is in flight (`HandlerAccountsAgree`); ready marks are behind everything in flight (`ReadyMeansServed`); the server implements `AccountReplication`. |
| `membership` | Handlers hold no membership the configuration DB lacks; handlers at the same point of their queues have the same accounts; the default user and group stay. |
| `roles` | A role of the operation DB changes only to the explicit role the configuration DB has at that moment or, without one, to the strongest role of a group of the user there; unknown roles and partial failures included. |
| `ports` | The two port requests next to group requests: a handler has every group of the configuration DB (`HandlerGroupsCoverConfig`), also when it has refused a destroy; a baud rate request ends a handler, after which the operation DB never changes again; every live handler ends with the users of the configuration DB. |
| `sessions` | The tables of descriptors fit together when numbers are reused; a polled event is never stale; a session is on an open port and has been sent everything read from it since it joined; who was told "OK" has a session, on the port it asked for. |
| `sessions_live` | A request is read, the session of a client that has gone is closed, the first port is read, or the process ends. |
| `startup` | The main loop begins with everything in step (`ServingMatchesServer`); no reply is dropped that is waited for; the operation DB is not ahead of the handlers. A handler that has ended before its reply is waited for without end, and only that keeps the server from its main loop. |
| `ssh` | Two threads never run one menu, and a worker never meets a menu that is not built; no connection is closed twice, or dropped before it is closed. A verified session gets a worker; one that is left is closed, unless its worker has ended or a failing session stands before it; a closed one among the first of its list is forgotten. |
| `direct` | However replies are cut, the client never takes a part of one thing for another; a text in one or two pieces is read whole (a third ends the listener); the user sees the output in order, no piece twice and nothing else, and misses only what a partial send cut off; a request ends up at the serial port only for a client that has read a refusal, first and once. No visit lasts for ever, and the exit key is served unless other sessions keep the listener away. |
| `menu` | The line is what was typed and not erased, over all visits, and only Q with nothing but white space behind it leaves; keys act one by one in the order they were typed, and only the Enter that leaves a menu loses keys, no more than the rest of its chunk; Q and Enter leave, unless ESC came before, after which nothing does, or the worker is held up. |

*Fairness.* In `ports`, weak fairness of `HandlerStep(h)` and `ServerTakesReply(h)`: a live handler polls its
queue in each iteration of its loop, and the server polls the reply queue of every handler in
each of its own. Nothing makes clients send, close or be accepted, or a handler stop. In `sessions_live`, weak
fairness of `HandlerLoop`: the loop of a handler waits for nothing, since its polls time out and
its queue is read without waiting; its sends to clients are assumed not to block. In `startup`, weak
fairness of the server and of each handler, which poll for ever; nothing makes an early client come. In
`ssh`, weak fairness of each thread: the waits of a session's thread have limits (30 seconds for a
channel, 10 for the shell), the listener's polls time out, workers sleep 10 ms. In `direct`, weak fairness of the
client and of the handler's work for it; the user, the port and the
end of the handler are not fair. In `menu`, weak fairness of `AtTop`: the loop over the keys of a visit waits for nothing.
In both, the visits come again and again only until `HoldUp`, which may happen at any time and disables
them: a session that fails ends the round, so that those behind it are not visited (SUB 217, 370), and one
that raises ends the thread. `ExitIsServed` and `QuitIsServed` have it as their exception; within a visit
the thread looks at no other session, so `VisitsEnd` needs no exception.

### Where the code does not do what it says

Each of these runs has one property, taken from a comment or a message, and TLC finds a
counterexample.

| Run | The source says | What happens |
|---|---|---|
| `find_served` | CS 910 "Update DB if handler handles the request successful" | The key `ready` is deleted from a reply that may lack it: a create that every handler has served never reaches the operation DB, and the client waits for ever. |
| `find_replies` | CS 813 "Check if the request data is the same with the handler reply" | A reply to the request of a client that has gone counts for the next client on the descriptor. |

Other places where the code departs from its comments or from what it seems to intend are in the
models as the code has them and are plain from a reading, without a run of their own.

In the console server and its handlers: the statuses of the replies are never read (CS 910); a destroy
asks the operation DB, which a join still in flight has not reached (CS 1259); the default user may leave the default group,
the refusal being in the join (CS 1655, 1725); a leave does not recompute the role (CS 1725); the
condition on shared groups is inverted, so that who shares a group with the port is refused (H 782), but
registered and accepted all the same (H 771, 791); the loop over the ports returns at the first that is
closed or silent (H 1030); a connection closed before its request ends the handler (H 877), and so does
a failed accept (H 853); "Handler {} init fail." (CS 582-590) is never logged, since the wait has no limit.

In the SSH server: "wait SSH connection completely" (SUB 348) does not hold, as `complete` is set before the menu is
built, and the listener without authentication does not look at whether the thread is over; the branch for
`shutdown` of the other listener is dead, so the lists of the workers only grow; a handler that never
got a channel keeps `init` and is never cleaned, and five of them at the start of a list end the cleaning
of it; a session whose user disconnects without leaving is never shut down.

In the menus: `GetPortConfigRequest` is built without its user (SC 325), so that both menus below the top
raise and end their worker with all its sessions; the items 3 to 5 lead to the same menu again; the access menu shows an item 2 it does not
have; no key ends an escape sequence, since the buffer for its beginning is never written; what is typed
behind an Enter that leaves the menu and read with it is lost; Q with white space behind it leaves too, and `01` or `+1` is item 1; a send
to the user that takes only a part of the output loses the rest (SC 445); control-T (SC 424) drops the rest of what was read with it; the request
a refused client repeats is written to the serial port.

## Proofs

The constants are assumed to be as `ConstantsAssumption`, `SessionsAssumption`,
`StartupAssumption`, `SshAssumption`, `DirectAssumption` and `MenuAssumption` say and nothing more: any
number of handlers, ports and workers from one, any set of users, groups and descriptors, any length
of a reply, any number of keys in a visit, any bounds.

| Theorem | States |
|---|---|
| `TypeCorrect` | `Spec => []TypeOK` |
| `MarksAreServed` | `Spec => []ReadyMeansServed` |
| `DeadHandlerFreezesOp` | `Spec => OpFrozenByDeadHandler` |
| `AccountsAgree` | `Spec => []HandlerAccountsAgree` |
| `GroupsCoverConfig` | `Spec => []HandlerGroupsCoverConfig` |
| `DefaultsKept` | `Spec => []DefaultAccountKept` |
| `EqualAccounts` | `Spec => []EqualProgressEqualAccounts` |
| `MembershipsKnown` | `Spec => []HandlerMembershipsKnown` |
| `Implements` | `Spec => ImplementsReplication`, the refinement of `AccountReplication` |
| `RoleChangesFollow` | `Spec => RoleChangesFollowConfig` |
| `SessionsTypeCorrect` | `Spec => []TypeOK`, for `HandlerSessions` like the rest |
| `TablesOfDescriptorsFit` | `Spec => []DescriptorsFit` |
| `PolledEventsStayValid` | `Spec => []EventsStayValid` |
| `SessionsHaveOpenPorts` | `Spec => []SessionsOnOpenPorts` |
| `SessionsMissNothing` | `Spec => []SessionsSeeAllData` |
| `ServedClientsHaveSessions` | `Spec => []ClientsAreServed` |
| `StartupTypeCorrect` | `Spec => []TypeOK`, for `Startup` like the rest |
| `StartupEndsInServerInit` | `Spec => []ServingMatchesServer` |
| `StartupIsNeverRefused` | `Spec => []NothingIsRefused` |
| `StartupRepliesAwaited` | `Spec => []RepliesAreAwaited` |
| `StartupPortsExist` | `Spec => []PortsExistAtHandlers` |
| `StartupBlocks` | `Spec => LostHandlerBlocks` |
| `SshOneOwner` | `Spec => []OneOwner`, for `SshSubsystem` like the rest |
| `SshClosedOnce` | `Spec => []ClosedOnce` |
| `SshForgottenAreClosed` | `Spec => []ForgottenAreClosed` |
| `DirectInvariant` | `Spec => []IInv`, for `DirectAccess` like the rest |
| `InStep` | `Spec => []StaysInStep` |
| `ScreenShowsOutput` | `Spec => []ScreenIsOutput` |
| `TwoPiecesSuffice` | `Spec => []TwoPiecesAreRead` |
| `RequestsAreText` | `Spec => []RequestsAreTextOnlyOnceRefused` |
| `MenuInvariant` | `Spec => []IInv`, for `MenuInput` like the rest |
| `LineIsTyped` | `Spec => []LineIsWhatWasTyped` |
| `KeysInOrder` | `Spec => KeysActInOrder` |

How they go:

* *Types.* Each request first gets a lemma that it does no more than `RequestOutcome`,
  which lists how a request can leave the tables, the queues and the client; every later
  proof splits on that instead of the eleven requests.
* *`Numbered`* (`ReplyProofs`). Requests are numbered, queues are FIFO, so the numbers in
  `replies[h]` followed by those in `queue[h]` rise, and every mark of `h` in a stored
  request is below all of them. That a mark is below is only inductive together with the
  order of the two queues.
* *`Agreement`* (`AccountProofs`). The property speaks of handlers with nothing left to
  serve, which says nothing of the steps before. The invariant says where the rest of the
  queue leads: at each position, the last add or delete of a user before it decides
  whether the user exists there; an add finds no user, a delete finds one, at the end
  stands the configuration DB. Groups need it too, since an add of a user fails at a
  handler without the group; for groups the handler may have more than the queue says.
* *`DefaultsSafe`*. Only requests check for the default user and group, so no message or
  reply in transit may name one to delete.
* *`SameProgress`* (`AccountProofs`). The property compares two handlers only when they have the
  same left to serve; one that is ahead makes no promise. The invariant compares any two tables
  and queues at every number of a message: where the fan-out messages from that number on are the
  same ones, the tables have the same users and memberships once everything before it is served
  (`Holds`: the last message about a user decides). That a handler accepts a change where
  the other did needs `Agreement`.
* *`MembersKnown`* (`AccountProofs`). Likewise for the end of the queue: a membership that a handler
  will have when it has served everything, the configuration DB has.
* *`Implements`* (`AccountProofs`). Initial states map to initial states; then, action by action, an
  add or a delete of a user is a `Write`, a message about a user a `Deliver`, the end of a handler
  a `Stop`, and every other step leaves the mapped state alone. That a delivery makes a difference is
  `Agreement`, that it is of the oldest change is `Numbered`.
* *`RolesFit`* (`ReplyProofs`). A role is stored only if it is a valid one or the user has an
  explicit one; with that, the `CHOOSE` of the strongest role has a candidate.
* *`SessionInv`* (`SessionProofs`). None of the properties of the sessions is inductive alone.
  Which dictionary a descriptor is taken from depends on the events, so the tables fit only
  because polled events stay valid, and these stay valid only because the tables fit: an event
  is handled once, and nothing but its own handling takes its descriptor away. That a session
  misses nothing needs that no descriptor is the session of two ports. `AnswersFit` is added: a
  reply not yet read is for a session that exists, so that reading it makes no false promise.
* *`StartInv`* (`StartupProofs`). In each pass every handler stands at exactly one of three
  places: it has not answered (`Waiting`), its answer is on its way (`Answered`), the server has
  taken it (`Taken`). The pass and the place fix what is in its queues and its table, so an
  answer is always to the question of its pass; `done = Handlers` at the end of a pass means that
  all are `Taken`, which is where the next pass begins. The operation DB has the ports of
  exactly the handlers that are done.
* *`SshInv`* (`SshProofs`). The flags of a session are written by three threads without a lock;
  what keeps them apart is how far the session's own thread has come (`Stages`): it closes the
  connection only before `complete`, everybody else only after, because `shutdown` is set for a
  complete session alone. So nobody closes twice, and a session handed over, which is complete
  and whose thread is over, has its menu. `clear` and a finished thread never go back, so what
  was true of a session when the listener dropped it stays true.

* *The line of a direct session* (`DirectProofs`). What a handler may ever send stands on one line
  `At`: the refusal, the acceptance, the output. The invariant says that there is a
  place `at` on it such that what is in the stream, followed by what is still to be sent, is the section
  that starts there (`Section`); that the handler's state fixes where the section ends (`HandlerAt`); and that
  the client's step fixes where it starts (`ClientAt`, `TextAt`). How the socket cuts the section does not occur in it, except in
  `PiecesAt`, which counts what `TwoPiecesAreRead` speaks of. `MailAt` does the same for the other direction.
  `ScreenFits` adds to it that a piece stands on the screen no further before its place in the output than
  pieces have been cut off, and `RefusalFits` that a handler that has answered is asked again only by a client
  that has read the refusal.
* *The edit of a line* (`MenuProofs`). `Edited` counts the keys that are not erased, and an action cannot
  be followed through its `CHOOSE`. The invariant says instead that some rising `p` tells the
  keys of the line (`IsEdit`), and that behind the `n`-th of them there are exactly as many more
  printing keys than backspaces as the line has keys behind it: so the next backspace erases the last of them and
  no other. That such a `p` gives the line `Edited` describes is proved once (`EditIs`), by counting the places
  through a bijection.
* *The keys that wait* (`MenuProofs`). `KeysActInOrder` follows the rest of the chunk and the channel as
  one sequence. A visit only moves the border between them; that what Enter loses is less than a
  chunk needs that a chunk never is longer than `ChunkSize` (`ChunkFits`).

Every invariant of the passing runs is stated by a theorem, and so are their four action properties
(`OpFrozenByDeadHandler`, `RoleChangesFollowConfig`, `LostHandlerBlocks`, `KeysActInOrder`) and the refinement. Only
model-checked are the eleven liveness properties, since liveness under fairness is out of the
prover's reach: `HandlersConverge`, `RequestsAreRead`, `ClosedSessionsGo`, `FirstPortIsRead`,
`StartupCompletes`, `VerifiedGetWorker`, `ShutdownGetsClosed`, `ClosedAreForgotten`, `VisitsEnd`,
`ExitIsServed`, `QuitIsServed`.

What could be proved next: the steps the liveness properties rest on, as action properties (what
only the fair action can undo); an abstract specification of a session, from the port to the user, that
`DirectAccess` implements.

## Not modelled

* *Behind the menus below the top.* Their first visit raises (SC 325), so neither the rest of the
  port list, nor the configuration of ports, nor a serial port reached through a menu happens.
  The serial access mode is modelled where it is reached, in direct access.
* *The authenticators and the managers of the SSH server*: callbacks of the SSH library, and
  files and commands of the operating system. They share no state with several steps in
  it. One thing they do shows elsewhere: `create_account` of the account manager writes the
  default user again without `is_admin` at the first start, so either menu can be the top.
* *The DB server* (`db/`): no program imports or starts it.
* *The command line tools*: one request each, which are the clients of `ConsoleServer`.
* *Query requests, alias names, rates*: no state that anything else depends on.
* *Sends that block*: a client of a handler that does not read would stop the handler
  (H 985); the models have no size for the buffer of a socket.
* *Shutting down*: the stop event of the SSH server and the ends of the main loops, after which
  the processes end.
* *Logging, return codes, utilities*.
