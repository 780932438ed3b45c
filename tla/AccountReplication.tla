-------------------------- MODULE AccountReplication --------------------------
(***************************************************************************)
(* What the server promises about user accounts, without requests, groups, *)
(* replies or clients: every backup receives the changes of the primary    *)
(* set one by one, in their order, each exactly once, and takes each of    *)
(* them.  A backup may stop; nothing else may go wrong.                    *)
(***************************************************************************)
EXTENDS Naturals

CONSTANTS Users, Admin, Backups,
          Numbers     (* numbers for the changes, some of Nat              *)

VARIABLES
    accounts,   (* the primary set                                         *)
    backup,     (* the set of each backup                                  *)
    lag,        (* the changes each backup has not made yet                *)
    up          (* FALSE for a backup that has stopped                     *)

vars == <<accounts, backup, lag, up>>

Change == [number : Numbers, kind : {"add_user", "del_user"}, user : Users]

After(S, c) == IF c.kind = "add_user" THEN S \cup {c.user} ELSE S \ {c.user}

Init ==
    /\ accounts = {Admin}
    /\ backup = [b \in Backups |-> {Admin}]
    /\ lag = [b \in Backups |-> {}]
    /\ up = [b \in Backups |-> TRUE]

(* A change is a real one, newer than all that are on their way, and never *)
(* removes the default account.                                            *)
Write(c) ==
    /\ c.user # Admin
    /\ \A b \in Backups : \A d \in lag[b] : d.number < c.number
    /\ accounts' = After(accounts, c)
    /\ accounts' # accounts
    /\ lag' = [b \in Backups |-> lag[b] \cup {c}]
    /\ UNCHANGED <<backup, up>>

(* The oldest change first, and it makes a difference. *)
Deliver(b) ==
    /\ up[b]
    /\ \E c \in lag[b] :
          /\ \A d \in lag[b] \ {c} : c.number < d.number
          /\ After(backup[b], c) # backup[b]
          /\ backup' = [backup EXCEPT ![b] = After(@, c)]
          /\ lag' = [lag EXCEPT ![b] = @ \ {c}]
    /\ UNCHANGED <<accounts, up>>

Stop(b) ==
    /\ up[b]
    /\ up' = [up EXCEPT ![b] = FALSE]
    /\ UNCHANGED <<accounts, backup, lag>>

Next == (\E c \in Change : Write(c)) \/ \E b \in Backups : Deliver(b) \/ Stop(b)

Spec == Init /\ [][Next]_vars

=============================================================================
