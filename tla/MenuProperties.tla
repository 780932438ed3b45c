---------------------------- MODULE MenuProperties ----------------------------
(* What a user can count on at the menus.                                  *)
EXTENDS MenuInput, FiniteSets

Below == {"ports"} \cup (IF admin THEN {"config"} ELSE {})

(* Every variable has its type; only an account of an administrator gets   *)
(* to the configuration of the ports.                                      *)
TypeOK ==
    /\ admin \in BOOLEAN
    /\ menu \in {"none", Top} \cup Below
    /\ login \in BOOLEAN /\ escape \in BOOLEAN /\ gone \in BOOLEAN /\ held \in BOOLEAN
    /\ line \in Seq(Printing)
    /\ over \in {"runs", "exit", "raised"}
    /\ channel \in Seq(Keys) /\ chunk \in Seq(Keys)
    /\ typed \in 0..MaxTyped
    /\ entered \in Seq(Printing \cup {"back"})

(* The keys at place i of what was entered are erased by a backspace that  *)
(* has as many keys between as there are backspaces.                       *)
CountOf(keys, from, to, set) == Cardinality({i \in from..to : keys[i] \in set})

IsErased(keys, i) ==
    \E j \in (i + 1)..Len(keys) :
        CountOf(keys, i + 1, j, {"back"}) > CountOf(keys, i + 1, j, Printing)

Places(keys) == {i \in DOMAIN keys : keys[i] \in Printing /\ ~IsErased(keys, i)}

Edited(keys) == [n \in 1..Cardinality(Places(keys)) |->
    keys[CHOOSE i \in Places(keys) : Cardinality({k \in Places(keys) : k <= i}) = n]]

(* The line is what the user has typed and not erased since the last one,  *)
(* over however many visits the keys came; and a session is left by such a *)
(* line with Q in it and nothing else but white space behind that          *)
(* (_parse_system_control_ascii_value).                                    *)
LineIsWhatWasTyped ==
    /\ TypeOK
    /\ over = "runs" => line = Edited(entered)
    /\ over = "exit" => Stripped(Edited(entered)) = <<"Q">>

-----------------------------------------------------------------------------
(* What the user has typed and no visit has handled.                       *)
waiting == chunk \o channel

(* What the key does to what was entered: a key behind ESC nothing, Enter  *)
(* ends it.                                                                *)
ActsOnEntered(key) ==
    \/ (escape \/ key = "esc") /\ UNCHANGED entered
    \/ ~escape /\ key \in Printing \cup {"back"} /\ entered' = Append(entered, key)
    \/ ~escape /\ key = "enter"

(* The menu is left, or the session.                                       *)
Leaves == (login /\ ~login') \/ over' # over

KeyIsHandled ==
    \/ waiting' = waiting /\ UNCHANGED <<line, entered>>
    \/ /\ \E key \in Keys : waiting' = Append(waiting, key)
       /\ UNCHANGED <<line, entered, menu, over>>
    \/ /\ waiting # <<>> /\ waiting' = Tail(waiting)
       /\ ActsOnEntered(Head(waiting))
    \/ /\ waiting # <<>> /\ Head(waiting) = "enter" /\ Leaves
       /\ \E lost \in 1..(ChunkSize - 1) :
             waiting' = SubSeq(waiting, lost + 2, Len(waiting))

(* Keys are handled one by one in the order they were typed, over however  *)
(* many visits; a visit that reads only some of them, a redraw of the menu *)
(* or a user who leaves loses none, and the Enter that leaves the menu     *)
(* loses no more than the rest of what its own visit has read              *)
(* (run_system, which returns out of the middle of what it has read).      *)
KeysActInOrder == [][KeyIsHandled]_vars

(* Q and Enter leave the menu at the top, in however many visits they are  *)
(* read, if no ESC came before and as long as nothing holds the worker up. *)
QuitIsServed ==
    /\ menu = Top /\ login /\ ~escape
    /\ Stripped(line) = <<"Q">>
    /\ waiting # <<>> /\ Head(waiting) = "enter"
    ~> over # "runs" \/ held

=============================================================================
