------------------------------ MODULE MenuInput ------------------------------
(***************************************************************************)
(* The menus of a session of the listener with passwords: what its worker  *)
(* does with the keys the user types.                                      *)
(*                                                                         *)
(* A visit of the worker (ServerControlHandlerMenuMode.handler) draws the   *)
(* menu if that is due, reads a few keys from the channel and handles them *)
(* one by one, while the user goes on typing or leaves.  The two menus at  *)
(* the top edit a line and act on it; the two below them end their worker  *)
(* as soon as they are entered, and so does whatever is sent to a user who *)
(* has gone.  Its other sessions may keep the worker from this one for     *)
(* good.                                                                   *)
(***************************************************************************)
EXTENDS Naturals, Sequences

CONSTANTS
    ChunkSize,   (* keys taken by a visit: 5 in the code                   *)
    Keys,        (* the keys users type, of those below                    *)
    MaxTyped     (* bound: keys typed                                      *)

(* "Q" stands for q as well, "5" for the items 3 to 5, "space" for         *)
(* whatever counts as white space, and "x" for any key that none of the    *)
(* others stands for.                                                      *)
Printing == {"Q", "1", "2", "5", "0", "+", "_", "space", "x"}

ASSUME MenuAssumption ==
    /\ ChunkSize \in Nat \ {0} /\ MaxTyped \in Nat
    /\ Keys \subseteq Printing \cup {"enter", "back", "esc"}

VARIABLES
    admin,     (* _is_admin of the account the server runs as              *)
    menu,      (* _current_menu, and the class of _server_control_mode:    *)
               (* "none", "mgmt", "access", "ports", "config"              *)
    login,     (* _login                                                   *)
    line,      (* _input_buffer                                            *)
    escape,    (* _enable_escape_key                                       *)
    over,      (* "runs", "exit" (EXIT_PROCESS), "raised"                  *)
    channel,   (* keys typed and not read                                  *)
    chunk,     (* read_str: keys read by this visit and not handled        *)
    typed,     (* keys typed so far (bound)                                *)
    gone,      (* the SSH connection is closed                             *)
    held,      (* the worker does not come back: another session of it     *)
               (* raises or fails at every round, or a send waits for good *)
    entered    (* keys read since the line was last empty by decision      *)
               (* (history)                                                *)

vars == <<admin, menu, login, line, escape, over, channel, chunk, typed, gone, held, entered>>

Init ==
    /\ admin \in BOOLEAN
    /\ menu = "none"
    /\ login = FALSE
    /\ line = <<>>
    /\ escape = FALSE
    /\ over = "runs"
    /\ channel = <<>>
    /\ chunk = <<>>
    /\ typed = 0
    /\ gone = FALSE
    /\ held = FALSE
    /\ entered = <<>>

Top == IF admin THEN "mgmt" ELSE "access"

-----------------------------------------------------------------------------
(* What a line asks for *)

(* The white space at the end is not looked at (rstrip).                   *)
Ending(text) == {n \in 0..Len(text) :
    /\ \A i \in (n + 1)..Len(text) : text[i] = "space"
    /\ n # 0 => text[n] # "space"}

Stripped(text) == SubSeq(text, 1, CHOOSE n \in Ending(text) : TRUE)

(* The text is that of a number of one digit (int): white space around it  *)
(* is not looked at, nor is a sign, nor zeros before the digit, each with  *)
(* an underscore behind it or not.                                         *)
ReadsAs(text, digit) ==
    \E b, e \in DOMAIN text :
        /\ \A i \in DOMAIN text \ (b..e) : text[i] = "space"
        /\ b <= e /\ text[e] = digit
        /\ text[b] \in {"+", "0"} \/ b = e
        /\ \A i \in (b + 1)..(e - 1) :
              text[i] = "0" \/ (text[i] = "_" /\ text[i - 1] = "0")

(* The items 3 to 5 change to menus that no case names: the old one is     *)
(* entered again.                                                          *)
Decision(text) ==
    CASE Stripped(text) = <<"Q">> -> "exit"
      [] ReadsAs(text, "1") -> "ports"
      [] ReadsAs(text, "2") /\ admin -> "config"
      [] ReadsAs(text, "5") /\ admin -> "same"
      [] OTHER -> "redraw"

-----------------------------------------------------------------------------
(* A visit of the worker *)

(* Wrong on purpose: a visit waits for as many keys as it can take. *)
ChunkFull == IF Len(channel) < ChunkSize THEN <<>> ELSE SubSeq(channel, 1, ChunkSize)

Chunk == SubSeq(channel, 1, IF Len(channel) < ChunkSize THEN Len(channel) ELSE ChunkSize)

(* Drawing a menu comes first, and raises when the user has gone; an       *)
(* account that is not known, which never changes, gets nowhere.           *)
VisitTop ==
    /\ over = "runs" /\ ~held /\ menu \in {"none", "mgmt", "access"} /\ chunk = <<>>
    /\ menu' = Top
    /\ \/ /\ login \/ ~gone
          /\ login' = TRUE
          /\ chunk' = Chunk
          /\ channel' = SubSeq(channel, Len(Chunk) + 1, Len(channel))
          /\ UNCHANGED over
       \/ /\ ~login /\ gone
          /\ over' = "raised"
          /\ UNCHANGED <<login, channel, chunk>>
    /\ UNCHANGED <<admin, line, escape, typed, gone, held, entered>>

-----------------------------------------------------------------------------
(* What a visit does with one key *)

Handling == over = "runs" /\ ~held /\ chunk # <<>>

(* Whatever is echoed raises when the user has gone. *)
Echoed == over' = IF gone THEN "raised" ELSE over

(* A key behind ESC is parsed as a whole sequence by itself, which it      *)
(* never is: what ESC enables stays enabled.                               *)
EscapeKey ==
    /\ Handling /\ (escape \/ Head(chunk) = "esc")
    /\ escape' = TRUE
    /\ chunk' = Tail(chunk)
    /\ UNCHANGED <<admin, menu, login, line, over, channel, typed, gone, held, entered>>

PrintingKey ==
    /\ Handling /\ ~escape /\ Head(chunk) \in Printing
    /\ line' = Append(line, Head(chunk))
    /\ entered' = Append(entered, Head(chunk))
    /\ Echoed
    /\ chunk' = Tail(chunk)
    /\ UNCHANGED <<admin, menu, login, escape, channel, typed, gone, held>>

(* Wrong on purpose: what is erased is the line. *)
ErasedAll == line' = <<>> /\ Echoed

Erased ==
    IF line = <<>> THEN UNCHANGED <<line, over>>
    ELSE line' = SubSeq(line, 1, Len(line) - 1) /\ Echoed

BackKey ==
    /\ Handling /\ ~escape /\ Head(chunk) = "back"
    /\ Erased
    /\ entered' = Append(entered, "back")
    /\ chunk' = Tail(chunk)
    /\ UNCHANGED <<admin, menu, login, escape, channel, typed, gone, held>>

(* Wrong on purpose: whatever a line asks for ends the visit. *)
KeptNever(decision) == <<>>

(* A line that leaves the menu ends the visit: what has been read and is   *)
(* not handled is lost.                                                    *)
Kept(decision) == IF decision = "redraw" THEN Tail(chunk) ELSE <<>>

(* Only a change of the menu is not echoed.  The keys of the line that     *)
(* ends the session are kept, for the history.                             *)
EnterKey ==
    /\ Handling /\ ~escape /\ Head(chunk) = "enter"
    /\ \/ /\ Decision(line) = "redraw"
          /\ Echoed
          /\ entered' = <<>>
          /\ UNCHANGED <<menu, login>>
       \/ /\ Decision(line) = "exit"
          /\ over' = IF gone THEN "raised" ELSE "exit"
          /\ UNCHANGED <<menu, login, entered>>
       \/ /\ Decision(line) \in {"ports", "config", "same"}
          /\ login' = FALSE
          /\ menu' = IF Decision(line) = "same" THEN menu ELSE Decision(line)
          /\ entered' = <<>>
          /\ UNCHANGED over
    /\ line' = IF over' = "raised" THEN line ELSE <<>>
    /\ chunk' = Kept(Decision(line))
    /\ UNCHANGED <<admin, escape, channel, typed, gone, held>>

AtTop == VisitTop \/ EscapeKey \/ PrintingKey \/ BackKey \/ EnterKey

-----------------------------------------------------------------------------
(* Below the top *)

(* The console server is connected to, or the visit fails and the next one *)
(* tries again; then the list of the ports is asked for with a request     *)
(* that lacks its user.                                                    *)
VisitBelow ==
    /\ over = "runs" /\ ~held /\ menu \in {"ports", "config"}
    /\ over' = "raised"
    /\ UNCHANGED <<admin, menu, login, line, escape, channel, chunk, typed, gone, held, entered>>

-----------------------------------------------------------------------------
(* The user, and the other sessions of the worker *)

Type(key) ==
    /\ ~gone /\ typed < MaxTyped
    /\ channel' = Append(channel, key)
    /\ typed' = typed + 1
    /\ UNCHANGED <<admin, menu, login, line, escape, over, chunk, gone, held, entered>>

Leave ==
    /\ ~gone
    /\ gone' = TRUE
    /\ UNCHANGED <<admin, menu, login, line, escape, over, channel, chunk, typed, held, entered>>

(* A round over the sessions ends at the first that fails, and the worker  *)
(* with the first that raises: those behind it are not visited.  A send to *)
(* a user who takes nothing waits.                                         *)
HoldUp ==
    /\ ~held
    /\ held' = TRUE
    /\ UNCHANGED <<admin, menu, login, line, escape, over, channel, chunk, typed, gone, entered>>

Next ==
    \/ AtTop
    \/ VisitBelow
    \/ \E key \in Keys : Type(key)
    \/ Leave
    \/ HoldUp

Spec == Init /\ [][Next]_vars

(* The worker visits the session again and again, until it is held up. *)
FairSpec == Spec /\ WF_vars(AtTop)

=============================================================================
