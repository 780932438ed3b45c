----------------------------- MODULE DirectAccess -----------------------------
(***************************************************************************)
(* A session of the listener without authentication on a serial port: the  *)
(* client of a handler's socket, with the handler and the user at its two  *)
(* ends.                                                                   *)
(*                                                                         *)
(* The client asks for the port and reads the reply, blocking; then it     *)
(* carries what the user types to the handler and what the handler sends   *)
(* to the user.  Replies and output of the port share one stream, where    *)
(* only the sizes sent ahead of the replies tell them apart.  The listener *)
(* visits the session again and again, whatever the last visit returned;   *)
(* an action is what a visit does between two looks at a socket.           *)
(***************************************************************************)
EXTENDS Naturals, Sequences

CONSTANTS
    BodySize,   (* units of the text of a reply, which the kernel delivers *)
                (* whole; its size is one unit of its own                  *)
    MaxData,    (* bound: pieces of output of the port                     *)
    MaxTyped    (* bound: what the user types                              *)

ASSUME DirectAssumption ==
    BodySize \in Nat \ {0} /\ MaxData \in Nat /\ MaxTyped \in Nat

Results == {"OK", "Fail"}

(* The stream: the size of a reply, a unit of its text, output of the port. *)
SizeOf(result) == [kind |-> "size", result |-> result, number |-> 0]
TextOf(result) == [i \in 1..BodySize |-> [kind |-> "text", result |-> result, number |-> i]]
Output(n) == [kind |-> "output", result |-> "none", number |-> n]

Reply(result) == <<SizeOf(result)>> \o TextOf(result)

VARIABLES
    (* the client (ServerControlHandlerDirectAccessMode) *)
    step,      (* "login", "ask", "size", "text", "relay", "output",       *)
               (* "over" (EXIT_PROCESS), "raised" (ends the listener)      *)
    toGet,     (* receive_size                                             *)
    dataStr,   (* data_str: the units read of a text                       *)
    screen,    (* what the user has been sent, in the smallest pieces a    *)
               (* read or a send ever cuts the output into                 *)
    cut,       (* pieces that a send to the user has cut off (history)     *)
    refused,   (* the client has read a refusal (history)                  *)
    (* the connection with the handler, and the handler *)
    handler,   (* "pending", "accepts", "fails", "session", "closed"       *)
    outgoing,  (* what the handler is sending                              *)
    stream,    (* sent and not read                                        *)
    pieces,    (* pieces in which each text has been sent (history)        *)
    inbox,     (* sent to the handler and not read                         *)
    written,   (* what the handler has written to the port                 *)
    outputs,   (* pieces of output so far (bound)                          *)
    (* the user *)
    typed,     (* "nothing", "text", "exit" (with control-T in it)         *)
    texts,     (* how much has been typed so far (bound)                   *)
    gone,      (* the SSH connection is closed                             *)
    (* the other sessions of the listener *)
    held       (* they keep the listener from this one, for good           *)

history == <<cut, refused>>
client == <<step, toGet, dataStr, screen, history>>
server == <<handler, outgoing, pieces, written, outputs>>
user == <<typed, texts, gone, held>>

vars == <<client, server, stream, inbox, user>>

Init ==
    /\ step = "login" /\ toGet = 0 /\ dataStr = <<>> /\ screen = <<>>
    /\ cut = 0 /\ refused = FALSE
    /\ handler = "pending" /\ outgoing = <<>> /\ stream = <<>> /\ pieces = [r \in Results |-> 0]
    /\ inbox = <<>> /\ written = <<>> /\ outputs = 0
    /\ typed = "nothing" /\ texts = 0 /\ gone = FALSE
    /\ held = FALSE

-----------------------------------------------------------------------------
(* The client asks for the port *)

ClientKeeps == UNCHANGED <<server, user>>

(* A visit: the listener leaves the round over its sessions where one of   *)
(* them fails, ends where one raises, and waits where one waits.  Within a *)
(* visit it does not look at the others.                                   *)
Visited == ~held

(* A handler that has ended is tried again at every visit. *)
Login ==
    /\ Visited /\ step = "login" /\ handler # "closed"
    /\ step' = IF gone THEN "raised" ELSE "ask"
    /\ UNCHANGED <<toGet, dataStr, screen, history, stream, inbox>>
    /\ ClientKeeps

(* A send to a connection that is closed fails, at every visit. *)
Ask ==
    /\ Visited /\ step = "ask" /\ handler # "closed"
    /\ step' = "size"
    /\ inbox' = Append(inbox, "request")
    /\ UNCHANGED <<toGet, dataStr, screen, history, stream>>
    /\ ClientKeeps

StartText == toGet' = BodySize

ReadSize ==
    /\ step = "size" /\ stream # <<>>
    /\ IF Head(stream).kind = "size"
       THEN step' = "text" /\ StartText
       ELSE step' = "astray" /\ UNCHANGED toGet
    /\ dataStr' = <<>>
    /\ stream' = Tail(stream)
    /\ UNCHANGED <<screen, history, inbox>>
    /\ ClientKeeps

(* The end of the stream is read as the size zero, and an empty text is no *)
(* JSON; a reset, when the handler had something left to read, is an error *)
(* that the next visit forgets.                                            *)
SizeClosed ==
    /\ step = "size" /\ stream = <<>> /\ handler = "closed"
    /\ \/ step' = "raised"
       \/ inbox # <<>> /\ step' = "ask"
    /\ UNCHANGED <<toGet, dataStr, screen, history, stream, inbox>>
    /\ ClientKeeps

(* Wrong on purpose: no result is the one that is looked for. *)
ParsedAgain(text) == IF text \in {TextOf("OK"), TextOf("Fail")} THEN "ask" ELSE "raised"

(* A text that is cut is no JSON.  Only "OK" opens the session. *)
Parsed(text) ==
    IF text = TextOf("OK") THEN "relay"
    ELSE IF text = TextOf("Fail") THEN "ask" ELSE "raised"

(* Wrong on purpose: one read is enough. *)
StillToGetNone(read) == 0

(* Wrong on purpose: the size is never reduced. *)
StillToGetAll(read) == toGet

(* The size still to get is reduced by all that has been read so far. *)
StillToGet(read) == IF Len(read) < toGet THEN toGet - Len(read) ELSE 0

(* recv returns what there is, up to the size asked for.  The end of the   *)
(* stream is not met here: who sends a size sends its text before he closes. *)
ReadText ==
    /\ step = "text" /\ stream # <<>>
    /\ LET n    == IF Len(stream) < toGet THEN Len(stream) ELSE toGet
           read == dataStr \o SubSeq(stream, 1, n)
       IN  /\ dataStr' = read
           /\ stream' = SubSeq(stream, n + 1, Len(stream))
           /\ toGet' = StillToGet(read)
           /\ step' = IF StillToGet(read) = 0 THEN Parsed(read) ELSE "text"
           /\ refused' = (refused \/ read = TextOf("Fail"))
    /\ UNCHANGED <<screen, cut, inbox>>
    /\ ClientKeeps

-----------------------------------------------------------------------------
(* The client carries data: first what the user has typed, then output *)

(* Wrong on purpose: a connection that is closed cannot be left. *)
ExitOnlyOpen ==
    /\ Visited /\ step = "relay" /\ typed = "exit" /\ handler # "closed"
    /\ step' = "over"
    /\ typed' = "nothing"
    /\ UNCHANGED <<toGet, dataStr, screen, history, server, stream, inbox, texts, gone, held>>

(* Control-T anywhere in what was read; the rest of it is dropped. *)
Exit ==
    /\ Visited /\ step = "relay" /\ typed = "exit"
    /\ step' = "over"
    /\ typed' = "nothing"
    /\ UNCHANGED <<toGet, dataStr, screen, history, server, stream, inbox, texts, gone, held>>

CarryText ==
    /\ Visited /\ step = "relay" /\ typed = "text"
    /\ typed' = "nothing"
    /\ IF handler = "closed"
       THEN UNCHANGED <<step, inbox>>
       ELSE step' = "output" /\ inbox' = Append(inbox, "text")
    /\ UNCHANGED <<toGet, dataStr, screen, history, server, stream, texts, gone, held>>

NothingTyped ==
    /\ Visited /\ step = "relay" /\ typed = "nothing"
    /\ step' = "output"
    /\ UNCHANGED <<toGet, dataStr, screen, history, stream, inbox>>
    /\ ClientKeeps

(* Wrong on purpose: what a send has cut off is read once more, from the   *)
(* start of what was read.                                                 *)
ShowAgain ==
    \E n \in 1..Len(stream) : \E k \in 1..n :
        /\ screen' = screen \o SubSeq(stream, 1, k)
        /\ stream' = IF k = n THEN SubSeq(stream, n + 1, Len(stream)) ELSE stream
        /\ UNCHANGED history

(* recv returns part of what there is, and send takes part of that: the    *)
(* number it returns is not looked at, and what it has not taken is lost.  *)
Show ==
    \E n \in 1..Len(stream) : \E k \in 1..n :
        /\ screen' = screen \o SubSeq(stream, 1, k)
        /\ cut' = cut + (n - k)
        /\ stream' = SubSeq(stream, n + 1, Len(stream))
        /\ UNCHANGED refused

(* Output for a user who has gone raises, and so does the empty text that  *)
(* the end of the stream is taken for.                                     *)
CarryOutput ==
    /\ Visited /\ step = "output"
    /\ \/ /\ stream # <<>> /\ ~gone
          /\ Show
          /\ step' = "relay"
       \/ /\ stream = <<>> /\ ~(gone /\ handler = "closed" /\ inbox = <<>>)
          /\ step' = "relay"
          /\ UNCHANGED <<screen, history, stream>>
       \/ /\ gone /\ (stream # <<>> \/ handler = "closed")
          /\ step' = "raised"
          /\ UNCHANGED <<screen, history, stream>>
    /\ UNCHANGED <<toGet, dataStr, inbox>>
    /\ ClientKeeps

Client ==
    \/ Login \/ Ask \/ ReadSize \/ SizeClosed \/ ReadText
    \/ Exit \/ CarryText \/ NothingTyped \/ CarryOutput

-----------------------------------------------------------------------------
(* The handler, see HandlerSessions; its sends do not block *)

HandlerKeeps == UNCHANGED <<client, user>>

(* Wrong on purpose: the handler stops at the refusal. *)
AnswersOnce == {Reply("OK"), Reply("Fail")}

(* A user who shares a group with the port is refused and then accepted. *)
Answers == {Reply("OK"), Reply("Fail") \o Reply("OK")}

(* A request of a connection that has no session yet.  Without an account, *)
(* or a port that opens, the handler ends.                                 *)
Answer ==
    /\ handler = "pending" /\ inbox # <<>>
    /\ inbox' = Tail(inbox)
    /\ \/ /\ handler' = "accepts"
          /\ outgoing' \in Answers
       \/ /\ handler' = "fails"
          /\ outgoing' \in {<<>>, Reply("Fail")}
    /\ UNCHANGED <<stream, pieces, written, outputs>>
    /\ HandlerKeeps

(* The size is sent first, then the text in as many pieces as it takes. *)
Send ==
    /\ handler \in {"accepts", "fails"} /\ outgoing # <<>>
    /\ \E n \in 1..Len(outgoing) :
          /\ \A i \in 1..n : Head(outgoing).kind = "size" => i = 1
          /\ \A i \in 2..n : outgoing[i].kind # "size"
          /\ stream' = stream \o SubSeq(outgoing, 1, n)
          /\ outgoing' = SubSeq(outgoing, n + 1, Len(outgoing))
    /\ pieces' = IF Head(outgoing).kind = "size"
                 THEN pieces ELSE [pieces EXCEPT ![Head(outgoing).result] = @ + 1]
    /\ UNCHANGED <<handler, inbox, written, outputs>>
    /\ HandlerKeeps

Sent ==
    /\ handler \in {"accepts", "fails"} /\ outgoing = <<>>
    /\ handler' = IF handler = "accepts" THEN "session" ELSE "closed"
    /\ UNCHANGED <<outgoing, stream, pieces, inbox, written, outputs>>
    /\ HandlerKeeps

(* Whatever a session sends is typed text, which is dropped while the port *)
(* is busy.                                                                *)
Write ==
    /\ handler = "session" /\ inbox # <<>>
    /\ written' \in {written, Append(written, Head(inbox))}
    /\ inbox' = Tail(inbox)
    /\ UNCHANGED <<handler, outgoing, stream, pieces, outputs>>
    /\ HandlerKeeps

PortSends ==
    /\ handler = "session" /\ outputs < MaxData
    /\ outputs' = outputs + 1
    /\ stream' = Append(stream, Output(outputs + 1))
    /\ UNCHANGED <<handler, outgoing, pieces, inbox, written>>
    /\ HandlerKeeps

(* The handler ends, or closes a session whose port takes no data. *)
Closes ==
    /\ handler \in {"pending", "session"}
    /\ handler' = "closed"
    /\ UNCHANGED <<outgoing, stream, pieces, inbox, written, outputs>>
    /\ HandlerKeeps

HandlerWorks == Answer \/ Send \/ Sent \/ Write

-----------------------------------------------------------------------------
(* The user *)

Type(what) ==
    /\ ~gone /\ typed = "nothing" /\ texts < MaxTyped
    /\ typed' = what
    /\ texts' = texts + 1
    /\ UNCHANGED <<client, server, stream, inbox, gone, held>>

(* Nothing more is read from a channel that is closed. *)
Leave ==
    /\ ~gone
    /\ gone' = TRUE
    /\ UNCHANGED <<client, server, stream, inbox, typed, texts, held>>

-----------------------------------------------------------------------------
(* The other sessions: one that comes first fails at every visit, one has  *)
(* raised, or a send waits for a user who does not read (see SshSubsystem).  *)
HoldUp ==
    /\ ~held
    /\ held' = TRUE
    /\ UNCHANGED <<client, server, stream, inbox, typed, texts, gone>>

Next ==
    \/ Client
    \/ HandlerWorks \/ PortSends \/ Closes
    \/ Type("text") \/ Type("exit") \/ Leave
    \/ HoldUp

Spec == Init /\ [][Next]_vars

(* As long as nothing holds the listener up it comes by again and again,   *)
(* and the handler serves its sockets.                                     *)
FairSpec == Spec /\ WF_vars(Client) /\ WF_vars(HandlerWorks)

=============================================================================
