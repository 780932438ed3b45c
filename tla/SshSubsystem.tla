----------------------------- MODULE SshSubsystem -----------------------------
(***************************************************************************)
(* An SSH listener with the threads that share its session handlers.       *)
(*                                                                         *)
(* The listener accepts connections and starts a thread for each, which    *)
(* does the SSH handshake.  From then on a handler object is shared by     *)
(* flags alone: the listener with password authentication hands it to one  *)
(* of its workers, which runs its menu; the listener without               *)
(* authentication runs it itself.  After the user has left, the same       *)
(* thread closes the connection and the listener forgets the handler.      *)
(*                                                                         *)
(* Each flag is one attribute, written and read without a lock, so an      *)
(* action is the handling of one handler object by one thread.             *)
(***************************************************************************)
EXTENDS Naturals, Sequences, SequencesExt

CONSTANTS
    PasswordPorts, (* ports of a listener with passwords: 1 in the code    *)
    NonePorts,     (* ports of one without: 6 in the code                  *)
    NumWorkers,    (* MAX_WORKER_GROUP, 8 in the code                      *)
    CleanDepth,    (* max_ssh_server_handler of _clean_client, 5           *)
    PasswordSessions, NoneSessions
                   (* bound: connections accepted by the one or the other  *)

ASSUME SshAssumption ==
    /\ PasswordPorts \in Nat \ {0} /\ NonePorts \in Nat \ {0}
    /\ NumWorkers \in Nat \ {0} /\ CleanDepth \in Nat \ {0}
    /\ PasswordSessions \in Nat /\ NoneSessions \in 0..PasswordSessions

(* The number of a session is its handler_id, counted from one here. *)
Sessions == 1..PasswordSessions

Workers == 0..(NumWorkers - 1)

VARIABLES
    auth,      (* "password" or "none": the class of the listener          *)
    at,        (* where the listener is: "poll", "accepted" (a thread has  *)
               (* been started, its handler is in no list yet), "visit",   *)
               (* "clean", or "ended"                                      *)
    port,      (* the port of this turn of its loop                        *)
    cursor,    (* <<port, position>> in the lists, while at = "visit"      *)
    handlers,  (* _server_handler_dict: a list for each port               *)
    accepted,  (* connections accepted so far                              *)
    thread,    (* of each session: "none", "connecting", "verifying",      *)
               (* "building" (the menu object), "over"                     *)
    running, complete, shutdown, clear, inQueue,
               (* the sessions with that flag; init is FALSE exactly when  *)
               (* running is TRUE, as far as _clean_client can tell        *)
    built,     (* the sessions whose _server_control_intf exists           *)
    refused,   (* the sessions whose menu fails at the moment: no account, *)
               (* no console server or handler to connect to, a refusal    *)
    tasks,     (* _server_handler_list of each worker                      *)
    place,     (* the position each worker looks at next                   *)
    halted,    (* the workers that an exception has ended, or that wait    *)
               (* for a reply that never comes                             *)
    next,      (* _next_worker_id                                          *)
    closes     (* calls of close_client for each session (history)         *)

listener == <<auth, at, port, cursor, handlers, accepted>>
flags == <<running, complete, shutdown, clear, inQueue, built>>
workers == <<tasks, place, halted, next>>

vars == <<listener, thread, flags, refused, workers, closes>>

MaxSessions == IF auth = "password" THEN PasswordSessions ELSE NoneSessions

NumPorts == IF auth = "password" THEN PasswordPorts ELSE NonePorts

Init ==
    /\ auth \in {"password", "none"}
    /\ at = "poll"
    /\ port = 1
    /\ cursor = <<1, 1>>
    /\ handlers = [p \in 1..NumPorts |-> <<>>]
    /\ accepted = 0
    /\ thread = [s \in Sessions |-> "none"]
    /\ running = {} /\ complete = {} /\ shutdown = {} /\ clear = {}
    /\ inQueue = {} /\ built = {}
    /\ refused = {}
    /\ tasks = [w \in Workers |-> <<>>]
    /\ place = [w \in Workers |-> 1]
    /\ halted = {}
    /\ next = 0
    /\ closes = [s \in Sessions |-> 0]

-----------------------------------------------------------------------------
(* The thread of a session *)

CloseClient(s) ==
    /\ clear' = clear \cup {s}
    /\ closes' = [closes EXCEPT ![s] = @ + 1]

ThreadGoes(s, from, to) ==
    /\ thread[s] = from
    /\ thread' = [thread EXCEPT ![s] = to]
    /\ UNCHANGED <<listener, shutdown, inQueue, refused, workers>>

(* create_transporter fails: nothing is closed. *)
NoTransport(s) ==
    /\ ThreadGoes(s, "connecting", "over")
    /\ UNCHANGED <<running, complete, clear, built, closes>>

(* serve_client or open_channel fails: the client is closed, and reading   *)
(* the missing channel ends the thread.                                    *)
NoChannel(s) ==
    /\ ThreadGoes(s, "connecting", "over")
    /\ CloseClient(s)
    /\ UNCHANGED <<running, complete, built>>

OpenChannel(s) ==
    /\ ThreadGoes(s, "connecting", "verifying")
    /\ running' = running \cup {s}
    /\ UNCHANGED <<complete, clear, built, closes>>

Verified(s) ==
    /\ ThreadGoes(s, "verifying", "building")
    /\ complete' = complete \cup {s}
    /\ UNCHANGED <<running, clear, built, closes>>

(* No shell was asked for in ten seconds.  The menu is built all the same. *)
NotVerified(s) ==
    /\ ThreadGoes(s, "verifying", "building")
    /\ CloseClient(s)
    /\ UNCHANGED <<running, complete, built>>

BuildMenu(s) ==
    /\ ThreadGoes(s, "building", "over")
    /\ built' = built \cup {s}
    /\ UNCHANGED <<running, complete, clear, closes>>

SessionThread(s) ==
    \/ NoTransport(s) \/ NoChannel(s) \/ OpenChannel(s)
    \/ Verified(s) \/ NotVerified(s) \/ BuildMenu(s)

-----------------------------------------------------------------------------
(* The menu of s runs when its turn comes. *)
Ready(s) == s \in running /\ s \in complete /\ s \notin shutdown

(* What a menu depends on: the accounts, the console server, the handlers. *)

Refuse(s) ==
    /\ Ready(s) /\ s \in built \ refused
    /\ refused' = refused \cup {s}
    /\ UNCHANGED <<listener, thread, flags, workers, closes>>

Admit(s) ==
    /\ s \in refused
    /\ refused' = refused \ {s}
    /\ UNCHANGED <<listener, thread, flags, workers, closes>>

-----------------------------------------------------------------------------
(***************************************************************************)
(* One visit to a session, by a worker or by the listener without          *)
(* authentication: it is closed if it has been shut down, and otherwise    *)
(* its menu runs.  `Goes` is where the loop stands after that, `Breaks`    *)
(* after a failure, `Halts` when the thread does not come back: the menu   *)
(* raises (a channel that is closed, a request built without its user, a   *)
(* menu object that is not there yet) or waits for ever.                   *)
(***************************************************************************)
RunMenu(s, Goes, Breaks, Halts) ==
    /\ Ready(s)
    /\ \/ /\ s \in built /\ s \notin refused
          /\ Goes
          /\ (UNCHANGED shutdown \/ shutdown' = shutdown \cup {s})
       \/ /\ s \in built /\ s \in refused
          /\ Breaks
          /\ UNCHANGED shutdown
       \/ Halts /\ UNCHANGED shutdown
    /\ UNCHANGED <<clear, closes>>

CloseShutdown(s, Goes) ==
    /\ s \in shutdown \ clear
    /\ CloseClient(s)
    /\ Goes
    /\ UNCHANGED shutdown

PassBy(s, Goes) ==
    /\ ~Ready(s) /\ s \notin shutdown \ clear
    /\ Goes
    /\ UNCHANGED <<shutdown, clear, closes>>

(* Wrong on purpose: the visit does not look at clear. *)
VisitClosesAgain(s, Goes, Breaks, Halts) ==
    \/ RunMenu(s, Goes, Breaks, Halts)
    \/ /\ s \in shutdown
       /\ CloseClient(s)
       /\ Goes
       /\ UNCHANGED shutdown
    \/ s \notin shutdown /\ PassBy(s, Goes)

Visit(s, Goes, Breaks, Halts) ==
    \/ RunMenu(s, Goes, Breaks, Halts)
    \/ CloseShutdown(s, Goes)
    \/ PassBy(s, Goes)

-----------------------------------------------------------------------------
(* The listener: where its loop over the lists of all ports stands *)

Visited == handlers[cursor[1]][cursor[2]]

(* From <<p, i>> on, the first place that has a session; after the last    *)
(* list, cleaning.                                                         *)
GoTo(p, i) ==
    IF i <= Len(handlers'[p])
    THEN at' = "visit" /\ cursor' = <<p, i>>
    ELSE LET later == {q \in (p + 1)..NumPorts : handlers'[q] # <<>>}
         IN  \/ later = {} /\ at' = "clean" /\ cursor' = <<1, 1>>
             \/ \E q \in later :
                   /\ \A r \in later : q <= r
                   /\ at' = "visit" /\ cursor' = <<q, 1>>

(* Wrong on purpose: the loop skips a session. *)
NextSessionSkips == GoTo(cursor[1], cursor[2] + 2)

NextSession == GoTo(cursor[1], cursor[2] + 1)

NextList == GoTo(cursor[1], Len(handlers[cursor[1]]) + 1)

-----------------------------------------------------------------------------
(* The listener: a client at the port of this turn *)

ListenerKeeps ==
    UNCHANGED <<auth, refused, place, halted, running, complete, built>>

SessionsKept ==
    /\ ListenerKeeps
    /\ UNCHANGED <<shutdown, clear, inQueue, tasks, next, closes>>

NoClient ==
    /\ at = "poll"
    /\ UNCHANGED handlers
    /\ GoTo(1, 1)
    /\ UNCHANGED <<port, accepted, thread>>
    /\ SessionsKept

(* getpeername raises for a client that has reset its connection, and the  *)
(* OSError reaches run.                                                    *)
AcceptReset ==
    /\ at = "poll" /\ accepted < MaxSessions
    /\ at' = "ended"
    /\ UNCHANGED <<port, cursor, handlers, accepted, thread>>
    /\ SessionsKept

Accept ==
    /\ at = "poll" /\ accepted < MaxSessions
    /\ at' = "accepted"
    /\ accepted' = accepted + 1
    /\ thread' = [thread EXCEPT ![accepted + 1] = "connecting"]
    /\ UNCHANGED <<port, cursor, handlers>>
    /\ SessionsKept

Save ==
    /\ at = "accepted" /\ accepted \notin clear
    /\ handlers' = [handlers EXCEPT ![port] = Append(@, accepted)]
    /\ GoTo(1, 1)
    /\ UNCHANGED <<port, accepted, thread>>
    /\ SessionsKept

(* The second getpeername, for the log, fails if the client has gone, or   *)
(* the new thread has closed its socket, by then.                          *)
SaveFails ==
    /\ at = "accepted"
    /\ at' = "ended"
    /\ UNCHANGED <<port, cursor, handlers, accepted, thread>>
    /\ SessionsKept

-----------------------------------------------------------------------------
(* The listener: one session of its lists *)

(* Wrong on purpose: in_queue is not looked at. *)
IsWaitingAgain(s) == s \in running /\ s \in complete /\ thread[s] = "over"

IsWaiting(s) ==
    /\ s \in running /\ s \in complete
    /\ thread[s] = "over" /\ s \notin inQueue

AddServerHandler(s) ==
    /\ tasks' = [tasks EXCEPT ![next] = Append(@, s)]
    /\ inQueue' = inQueue \cup {s}
    /\ next' = (next + 1) % NumWorkers

(* With passwords.  The branch for shutdown is never taken: running and    *)
(* complete are never reset, and only a session that has both is shut down. *)
Assign ==
    /\ auth = "password" /\ at = "visit"
    /\ UNCHANGED handlers
    /\ NextSession
    /\ IF IsWaiting(Visited)
       THEN AddServerHandler(Visited)
       ELSE UNCHANGED <<tasks, inQueue, next>>
    /\ UNCHANGED <<port, accepted, thread, shutdown, clear, closes>>
    /\ ListenerKeeps

(* Without authentication. *)
Serve ==
    /\ auth = "none" /\ at = "visit"
    /\ UNCHANGED handlers
    /\ Visit(Visited, NextSession, NextList, at' = "ended" /\ UNCHANGED cursor)
    /\ UNCHANGED <<auth, port, accepted, thread, refused, running, complete,
                   inQueue, built, workers>>

-----------------------------------------------------------------------------
(* The listener: _clean_client *)

(* Wrong on purpose: the user has left, the client is not closed yet. *)
MayForgetShutdown(s) == s \in running /\ s \in shutdown \cup clear

MayForget(s) == s \in running /\ s \in clear

(* Wrong on purpose: the loop ends one session early. *)
CleanedShort(p) ==
    {i \in 1..Len(handlers[p]) : i < CleanDepth /\ MayForget(handlers[p][i])}

Cleaned(p) ==
    {i \in 1..Len(handlers[p]) : i <= CleanDepth /\ MayForget(handlers[p][i])}

NextTurn ==
    /\ at = "clean"
    /\ at' = "poll"
    /\ port' = 1 + (port % NumPorts)
    /\ UNCHANGED <<cursor, accepted, thread>>
    /\ SessionsKept

(* The first session found, after its thread (join). *)
Forget ==
    /\ \E i \in Cleaned(port) :
          /\ \A j \in Cleaned(port) : i <= j
          /\ thread[handlers[port][i]] = "over"
          /\ handlers' = [handlers EXCEPT ![port] = RemoveAt(@, i)]
    /\ NextTurn

NothingToForget ==
    /\ Cleaned(port) = {}
    /\ UNCHANGED handlers
    /\ NextTurn

Listen ==
    \/ NoClient \/ AcceptReset \/ Accept \/ Save \/ SaveFails
    \/ Assign \/ Serve \/ Forget \/ NothingToForget

-----------------------------------------------------------------------------
(* A worker *)

RoundOver(w) == place[w] > Len(tasks[w])

Work(w) ==
    /\ w \notin halted
    /\ ~RoundOver(w)
    /\ Visit(tasks[w][place[w]],
             place' = [place EXCEPT ![w] = @ + 1] /\ UNCHANGED halted,
             place' = [place EXCEPT ![w] = 1] /\ UNCHANGED halted,
             halted' = halted \cup {w} /\ UNCHANGED place)
    /\ UNCHANGED <<listener, thread, refused, running, complete, inQueue, built, tasks, next>>

(* Wrong on purpose: one round only, and then tasks that are new. *)
RestAtEnd(w) ==
    /\ w \notin halted
    /\ RoundOver(w) /\ place[w] > 1
    /\ UNCHANGED vars

(* The end of the list, and a short sleep. *)
Rest(w) ==
    /\ w \notin halted
    /\ RoundOver(w) /\ place[w] > 1
    /\ place' = [place EXCEPT ![w] = 1]
    /\ UNCHANGED <<listener, thread, refused, flags, tasks, halted, next, closes>>

Worker(w) == Work(w) \/ Rest(w)

-----------------------------------------------------------------------------
Next ==
    \/ Listen
    \/ \E w \in Workers : Worker(w)
    \/ \E s \in Sessions : SessionThread(s) \/ Refuse(s) \/ Admit(s)

Spec == Init /\ [][Next]_vars

(* Every thread runs; the waits of a session's thread have time limits. *)
FairSpec ==
    /\ Spec
    /\ WF_vars(Listen)
    /\ \A w \in Workers : WF_vars(Worker(w))
    /\ \A s \in Sessions : WF_vars(SessionThread(s))

=============================================================================
