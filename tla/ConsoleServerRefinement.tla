----------------------- MODULE ConsoleServerRefinement -----------------------
(* The server and its handlers implement AccountReplication.               *)
EXTENDS ConsoleServerProperties

IsChange(m) == m.kind \in {"add_user", "del_user"}

ChangeOf(m) == [number |-> m.id, kind |-> m.kind, user |-> m.user]

(* What the messages of a queue mean for the set of accounts. *)
Changes(q) == {ChangeOf(q[i]) : i \in {j \in 1..Len(q) : IsChange(q[j])}}

Replication ==
    INSTANCE AccountReplication
    WITH Backups <- Handlers, Numbers <- 1..MaxRequests, accounts <- config.users,
         backup <- [h \in Handlers |-> hdb[h].users],
         lag <- [h \in Handlers |-> Changes(queue[h])],
         up <- alive

(* The account changes of _process_add_user_account and                    *)
(* _process_del_user_account reach every handler in order, and a handler   *)
(* neither refuses one nor changes its set of users for another reason.    *)
ImplementsReplication == Replication!Spec

=============================================================================
