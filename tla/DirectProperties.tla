---------------------------- MODULE DirectProperties ----------------------------
(* What a session on a serial port keeps on its way through two sockets.   *)
EXTENDS DirectAccess

Units ==
    {SizeOf(r) : r \in Results} \cup {Output(n) : n \in 1..MaxData}
        \cup {TextOf(r)[i] : r \in Results, i \in 1..BodySize}

(* Every variable has its type. *)
TypeOK ==
    /\ step \in {"login", "ask", "size", "text", "relay", "output", "over", "raised"}
    /\ toGet \in 0..BodySize
    /\ dataStr \in Seq(Units) /\ screen \in Seq(Units)
    /\ cut \in Nat /\ refused \in BOOLEAN
    /\ handler \in {"pending", "accepts", "fails", "session", "closed"}
    /\ outgoing \in Seq(Units) /\ stream \in Seq(Units)
    /\ pieces \in [Results -> 0..BodySize]
    /\ inbox \in Seq({"request", "text"}) /\ written \in Seq({"request", "text"})
    /\ outputs \in 0..MaxData
    /\ typed \in {"nothing", "text", "exit"} /\ texts \in 0..MaxTyped
    /\ gone \in BOOLEAN /\ held \in BOOLEAN

(* Between two replies the client stands at the start of what comes next,  *)
(* however the texts were cut by the socket: it never takes a byte of the  *)
(* next reply, or of the output, for the text of this one, and never the   *)
(* text of a reply for a size (_receive_uds_socket_reply_data).            *)
StaysInStep ==
    /\ TypeOK
    /\ \A i \in DOMAIN dataStr : dataStr[i].kind = "text" /\ dataStr[i].number = i
    /\ step \in {"ask", "size", "relay", "output"} /\ stream # <<>>
         => Head(stream).kind # "text"

(* The user sees the output of the port, in order, no piece twice, and no  *)
(* reply, not even the second one to a request; what is missing is what a  *)
(* send has cut off, so that without such a send nothing is missing        *)
(* (_handle_console_server_data).                                          *)
ScreenIsOutput ==
    /\ \A i \in DOMAIN screen : \E n \in i..(i + cut) : screen[i] = Output(n)
    /\ \A i, j \in DOMAIN screen : i < j => screen[i].number < screen[j].number
    /\ step \in {"relay", "output"} => Len(screen) + cut + Len(stream) = outputs

(* A reply whose text is sent in one or two pieces is never cut short: the *)
(* arithmetic of the loop takes two, and a third ends the listener         *)
(* (_receive_uds_socket_reply_data).                                       *)
PiecesOf(result) ==
    pieces[result] + (IF \E i \in DOMAIN outgoing : outgoing[i] = TextOf(result)[BodySize]
                      THEN 1 ELSE 0)

TwoPiecesAreRead ==
    step = "raised" /\ Len(dataStr) \in 1..(BodySize - 1)
        => PiecesOf(dataStr[1].result) > 2

(* The handler writes a request to the serial port, as if it was typed,    *)
(* only for a client that has read a refusal and asks again, only once,    *)
(* and before anything the user has typed (_connect_serial_port).          *)
RequestsAreTextOnlyOnceRefused ==
    (\E i \in DOMAIN written : written[i] = "request")
        => /\ refused
           /\ written[1] = "request"
           /\ \A i \in 2..Len(written) : written[i] = "text"
           /\ step \notin {"login", "ask"}

-----------------------------------------------------------------------------
(* No visit lasts for ever: the listener, which has the sessions of six    *)
(* ports to visit, waits for a reply only if one is on its way or the      *)
(* connection is going to be closed.                                       *)
VisitsEnd == step \in {"size", "text"} ~> step \notin {"size", "text"}

(* Control-T ends a session that has its port, unless it ends the listener *)
(* first or other sessions keep the listener from it.                      *)
ExitIsServed ==
    step \in {"relay", "output"} /\ typed = "exit" ~> step \in {"over", "raised"} \/ held

=============================================================================
