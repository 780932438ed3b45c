----------------------------- MODULE SshProperties -----------------------------
(* What the sharing of session handlers by flags keeps.                    *)
EXTENDS SshSubsystem

Places == {"poll", "accepted", "visit", "clean", "ended"}

(* Every variable has its type, and no thread visits a session past the    *)
(* end of a list.                                                          *)
TypeOK ==
    /\ auth \in {"password", "none"}
    /\ at \in Places
    /\ port \in 1..NumPorts
    /\ handlers \in [1..NumPorts -> Seq(Sessions)]
    /\ cursor \in (1..NumPorts) \X (Nat \ {0})
    /\ at = "visit" => cursor[2] <= Len(handlers[cursor[1]])
    /\ accepted \in 0..MaxSessions
    /\ at = "accepted" => accepted # 0
    /\ thread \in [Sessions -> {"none", "connecting", "verifying", "building", "over"}]
    /\ running \subseteq Sessions /\ complete \subseteq Sessions
    /\ shutdown \subseteq Sessions /\ clear \subseteq Sessions
    /\ inQueue \subseteq Sessions /\ built \subseteq Sessions
    /\ refused \subseteq Sessions
    /\ tasks \in [Workers -> Seq(Sessions)]
    /\ place \in [Workers -> Nat \ {0}]
    /\ \A w \in Workers : place[w] <= Len(tasks[w]) + 1
    /\ halted \subseteq Workers
    /\ next \in Workers
    /\ closes \in [Sessions -> Nat]

(* Two workers never have the same session, and none has it twice: the     *)
(* menu object of a session, which has no lock, is run by one thread.      *)
(* Nor does a worker meet a session whose own thread is still building the *)
(* menu (the listener without authentication does, see README), and a      *)
(* session marked as handed over does have its worker.                     *)
OneOwner ==
    /\ TypeOK
    /\ \A v, w \in Workers : \A i \in DOMAIN tasks[v], j \in DOMAIN tasks[w] :
          tasks[v][i] = tasks[w][j] => v = w /\ i = j
    /\ \A w \in Workers : ToSet(tasks[w]) \subseteq built \cap inQueue
    /\ \A s \in inQueue : \E w \in Workers : s \in ToSet(tasks[w])

(* No connection is closed twice, by the thread that opened it after a     *)
(* failure and by the one that serves it.                                  *)
ClosedOnce == \A s \in Sessions : closes[s] <= 1

(* A session that the listener has dropped from its lists has been closed  *)
(* and its thread is over, unless the listener has ended before it saved   *)
(* the session: nobody else would ever close it.                           *)
ForgottenAreClosed ==
    \A s \in 1..accepted :
        \/ \E p \in 1..NumPorts : s \in ToSet(handlers[p])
        \/ s = accepted /\ at \in {"accepted", "ended"}
        \/ s \in clear /\ thread[s] = "over"

-----------------------------------------------------------------------------
(* A verified session of the listener with passwords gets a worker, or the *)
(* listener has ended: sessions that never get through the handshake do    *)
(* not hold it up.                                                         *)
VerifiedGetWorker ==
    \A s \in Sessions :
        auth = "password" /\ s \in complete ~> s \in inQueue \/ at = "ended"

(* The session at place i of worker w can be kept from its turn. *)
HeldUp(w, i) ==
    \/ w \in halted
    \/ \E j \in 1..(i - 1) : tasks[w][j] \in refused

(* A session whose user has left the menu is closed, unless its worker has *)
(* ended or a session ahead of it in the worker's list fails.              *)
ShutdownGetsClosed ==
    \A s \in Sessions :
        auth = "password" /\ s \in shutdown ~>
            \/ s \in clear
            \/ \E w \in Workers : \E i \in DOMAIN tasks[w] : tasks[w][i] = s /\ HeldUp(w, i)

(* A closed session among the first of its port's list is forgotten.       *)
ClosedAreForgotten ==
    \A s \in Sessions :
        (\E p \in 1..NumPorts : \E i \in DOMAIN handlers[p] :
            handlers[p][i] = s /\ i <= CleanDepth /\ s \in running \cap clear) ~>
            \/ at = "ended"
            \/ \A p \in 1..NumPorts : s \notin ToSet(handlers[p])

=============================================================================
