---------------------------- MODULE DirectProofs ----------------------------
(***************************************************************************)
(* Proofs about a session on a serial port: the client stays in step with  *)
(* the stream, the user sees the output of the port and nothing else, a    *)
(* text in two pieces is read, and a request is only taken for typed text  *)
(* when the client has been refused.                                       *)
(***************************************************************************)
EXTENDS DirectProperties, TLAPS

-----------------------------------------------------------------------------
(***************************************************************************)
(* Everything a handler may ever send stands on one line: the refusal, the *)
(* acceptance, the output of the port.  What is between the two ends is a  *)
(* section of it, which starts at the place of the client.                 *)
(***************************************************************************)
Accepted == BodySize + 1
Session == 2 * BodySize + 2

At(p) ==
    IF p = 0 THEN SizeOf("Fail")
    ELSE IF p < Accepted THEN TextOf("Fail")[p]
    ELSE IF p = Accepted THEN SizeOf("OK")
    ELSE IF p < Session THEN TextOf("OK")[p - Accepted]
    ELSE Output((p - Session) + 1)

Start(result) == IF result = "OK" THEN Accepted ELSE 0

(* The place where the handler goes on sending, and where it will stand    *)
(* when it has sent all of it.                                             *)
Sending(at) == at + Len(stream)
Ending(at) == Sending(at) + Len(outgoing)

Section(at) ==
    /\ \A i \in 1..Len(stream) : stream[i] = At((at + i) - 1)
    /\ \A i \in 1..Len(outgoing) : outgoing[i] = At((Sending(at) + i) - 1)

(* The end of the section is what the handler has decided. *)
HandlerAt(at) ==
    /\ handler \in {"pending", "session", "closed"} => outgoing = <<>>
    /\ handler = "pending" => stream = <<>> /\ step \in {"login", "ask", "size", "raised"}
    /\ handler = "accepts" => Ending(at) = Session
    /\ handler \in {"pending", "fails"} => Ending(at) = Accepted
    /\ handler = "session" => Ending(at) = Session + outputs
    /\ handler = "closed" => Ending(at) \in {Accepted, Session + outputs}
    /\ handler \in {"pending", "accepts", "fails"} => outputs = 0

(* The start of it is where the client stands. *)
Reading(at, r) == at = Start(r) + Len(dataStr) + 1

ClientAt(at) ==
    /\ step \in {"login", "ask"} => at = Accepted
    /\ step = "size" => at \in {0, Accepted}
    /\ step \in {"login", "ask", "size", "text"} => screen = <<>>
    /\ step \in {"relay", "output"} => at = Session + (Len(screen) + cut)

(* What the user sees: no piece before its place in the output, and none   *)
(* further behind it than pieces have been cut off.                        *)
ScreenFits ==
    /\ \A i \in 1..Len(screen) : \E n \in i..(i + cut) : screen[i] = Output(n)
    /\ \A i, j \in 1..Len(screen) : i < j => screen[i].number < screen[j].number
    /\ step \in {"login", "ask", "size", "text"} => cut = 0

(* A handler that has a request before it, of a client it has answered,    *)
(* has it from one that has read a refusal.                                *)
Answering == handler \in {"accepts", "fails", "session"}

RefusalFits ==
    /\ Answering => step \notin {"login", "ask"} \/ refused
    /\ Answering => \A i \in 1..Len(inbox) : inbox[i] = "request" => refused
    /\ \A i \in 1..Len(written) : written[i] = "request" => refused

(* What has been read of a text. *)
DataFits ==
    /\ Len(dataStr) <= BodySize
    /\ \E r \in Results : \A i \in 1..Len(dataStr) : dataStr[i] = TextOf(r)[i]
    /\ step \notin {"text", "raised"} => Len(dataStr) \in {0, BodySize}

(* How much of a text has been sent when the client reads it: a read that  *)
(* leaves something to get has emptied the stream.                         *)
TextAt(at) ==
    step = "text" =>
        \E r \in Results :
            /\ Reading(at, r)
            /\ \A i \in 1..Len(dataStr) : dataStr[i] = TextOf(r)[i]
            /\ toGet \in 1..(BodySize - Len(dataStr))
            /\ \/ dataStr = <<>> /\ toGet = BodySize
               \/ /\ toGet = BodySize - Len(dataStr)
                  /\ pieces[r] >= 1 /\ PiecesOf(r) >= 2
                  /\ stream # <<>> => pieces[r] >= 2
               \/ PiecesOf(r) >= 3

(* No text has been sent in more pieces than units. *)
PiecesAt(at) ==
    /\ \A r \in Results :
          /\ pieces[r] <= BodySize
          /\ pieces[r] = 0 \/ pieces[r] + Start(r) + 1 <= Sending(at)
    /\ \A i \in 1..Len(stream) :
          stream[i].kind = "text" => pieces[stream[i].result] >= 1
    /\ handler = "pending" => \A r \in Results : pieces[r] = 0

(* The requests: the client asks again only when it has read the refusal.  *)
MailAt(at) ==
    /\ \A i \in 1..Len(written) : written[i] = "request" => i = 1
    /\ \A i \in 1..Len(inbox) : inbox[i] = "request" => i = 1 /\ written = <<>>
    /\ step \in {"login", "ask"} => written = <<>> /\ (inbox = <<>> \/ handler = "closed")
    /\ step \in {"size", "text"} /\ at < Accepted => written = <<>> /\ inbox = <<>>
    /\ handler = "pending" =>
          /\ written = <<>> /\ inbox \in {<<>>, <<"request">>}
          /\ step # "size" => inbox = <<>>
    /\ written # <<>> => Ending(at) >= Session

Place(at) ==
    /\ Section(at) /\ HandlerAt(at) /\ ClientAt(at)
    /\ TextAt(at) /\ PiecesAt(at) /\ MailAt(at)

IInv ==
    /\ TypeOK /\ DataFits /\ TwoPiecesAreRead /\ ScreenFits /\ RefusalFits
    /\ \E at \in Nat : Place(at)

-----------------------------------------------------------------------------
(* The line. *)

LEMMA Line ==
    /\ At(0) = SizeOf("Fail") /\ At(Accepted) = SizeOf("OK")
    /\ \A r \in Results, i \in 1..BodySize : At(Start(r) + i) = TextOf(r)[i]
    /\ \A n \in Nat : At(Session + n) = Output(n + 1)
<1>1. BodySize \in Nat \ {0}
  BY DirectAssumption
<1> QED BY <1>1 DEF At, Accepted, Session, Start, Results

(* A place in a text, and a place that is in none. *)
LEMMA LineKinds ==
    ASSUME NEW p \in Nat
    PROVE  /\ p \in {0, Accepted} => At(p).kind = "size"
           /\ p >= Session => At(p).kind = "output"
           /\ p \notin {0, Accepted} /\ p < Session =>
                 \E r \in Results, i \in 1..BodySize :
                    p = Start(r) + i /\ At(p) = TextOf(r)[i]
<1>1. BodySize \in Nat \ {0}
  BY DirectAssumption
<1>2. p \in {0, Accepted} => At(p).kind = "size"
  BY <1>1 DEF At, Accepted, SizeOf
<1>3. p >= Session => At(p).kind = "output"
  BY <1>1 DEF At, Accepted, Session, Output
<1>4. CASE p \notin {0, Accepted} /\ p < Accepted
  <2>1. p \in 1..BodySize /\ p = Start("Fail") + p
    BY <1>1, <1>4 DEF Accepted, Start
  <2> QED BY <1>2, <1>3, <2>1, Line, <1>4, <1>1 DEF Results, Session, Accepted
<1>5. CASE p > Accepted /\ p < Session
  <2>1. p - Accepted \in 1..BodySize /\ p = Start("OK") + (p - Accepted)
    BY <1>1, <1>5 DEF Accepted, Session, Start
  <2> QED BY <1>2, <1>3, <2>1, Line, <1>5, <1>1 DEF Results, Session, Accepted
<1> QED BY <1>1, <1>2, <1>3, <1>4, <1>5 DEF Session, Accepted

(* The units of a text. *)
LEMMA TextUnits ==
    ASSUME NEW r \in Results
    PROVE  /\ TextOf(r) \in Seq(Units) /\ Len(TextOf(r)) = BodySize
           /\ \A i \in 1..BodySize : /\ TextOf(r)[i].kind = "text"
                                    /\ TextOf(r)[i].result = r
                                    /\ TextOf(r)[i].number = i
           /\ SizeOf(r) \in Units
  BY DirectAssumption DEF TextOf, Units

(* A reply is a section of the line. *)
LEMMA ReplyUnits ==
    ASSUME NEW r \in Results
    PROVE  /\ Reply(r) \in Seq(Units) /\ Len(Reply(r)) = BodySize + 1
           /\ \A i \in 1..(BodySize + 1) : Reply(r)[i] = At((Start(r) + i) - 1)
<1>1. BodySize \in Nat \ {0}
  BY DirectAssumption
<1>2. <<SizeOf(r)>> \in Seq(Units) /\ Len(<<SizeOf(r)>>) = 1
  BY TextUnits
<1>3. /\ Reply(r) \in Seq(Units) /\ Len(Reply(r)) = BodySize + 1
      /\ Reply(r)[1] = SizeOf(r)
      /\ \A i \in 1..BodySize : Reply(r)[i + 1] = TextOf(r)[i]
  BY <1>1, <1>2, TextUnits DEF Reply
<1>4. \A i \in 1..(BodySize + 1) : i = 1 \/ (i - 1 \in 1..BodySize /\ i = (i - 1) + 1
                                          /\ Start(r) + (i - 1) = (Start(r) + i) - 1)
  BY <1>1 DEF Start, Accepted
<1>5. At(Start(r)) = SizeOf(r) /\ Start(r) = (Start(r) + 1) - 1
  BY <1>1, Line DEF Start, Results, Accepted
<1> QED BY <1>3, <1>4, <1>5, Line

-----------------------------------------------------------------------------
(* The first state, and the steps that leave the stream alone. *)

(* The client is at the acceptance: nothing has been refused yet. *)
LEMMA InitPlace == Init => IInv
<1> SUFFICES ASSUME Init PROVE IInv
  OBVIOUS
<1>1. BodySize \in Nat \ {0} /\ MaxData \in Nat /\ MaxTyped \in Nat /\ Accepted \in Nat
  BY DirectAssumption DEF Accepted
<1>2. TypeOK
  <2>1. pieces \in [Results -> 0..BodySize]
    BY <1>1 DEF Init
  <2>2. dataStr \in Seq(Units) /\ screen \in Seq(Units) /\ outgoing \in Seq(Units)
        /\ stream \in Seq(Units)
    BY DEF Init
  <2>3. inbox \in Seq({"request", "text"}) /\ written \in Seq({"request", "text"})
    BY DEF Init
  <2>4. toGet \in 0..BodySize /\ outputs \in 0..MaxData /\ texts \in 0..MaxTyped
    BY <1>1 DEF Init
  <2>5. /\ step \in {"login", "ask", "size", "text", "relay", "output", "over", "raised"}
        /\ handler \in {"pending", "accepts", "fails", "session", "closed"}
        /\ typed \in {"nothing", "text", "exit"} /\ gone \in BOOLEAN
        /\ cut \in Nat /\ refused \in BOOLEAN /\ held \in BOOLEAN
    BY DEF Init
  <2> QED BY <2>1, <2>2, <2>3, <2>4, <2>5 DEF TypeOK
<1>3. DataFits /\ TwoPiecesAreRead
  BY <1>1 DEF Init, DataFits, TwoPiecesAreRead, Results
<1>4. ScreenFits /\ RefusalFits
  BY DEF Init, ScreenFits, RefusalFits, Answering
<1>5. Place(Accepted)
  <2>1. Section(Accepted)
    BY DEF Init, Section
  <2>2. Sending(Accepted) = Accepted /\ Ending(Accepted) = Accepted
    BY <1>1 DEF Init, Sending, Ending
  <2>3. HandlerAt(Accepted) /\ ClientAt(Accepted) /\ TextAt(Accepted)
    BY <2>2 DEF Init, HandlerAt, ClientAt, TextAt
  <2>4. PiecesAt(Accepted) /\ MailAt(Accepted)
    BY <1>1, <2>2 DEF Init, PiecesAt, MailAt
  <2> QED BY <2>1, <2>3, <2>4 DEF Place
<1> QED BY <1>1, <1>2, <1>3, <1>5, <1>4 DEF IInv

(* Nothing is sent, and nothing of the stream is read. *)
LEMMA QuietStream ==
    ASSUME NEW at \in Nat, Section(at), UNCHANGED <<stream, outgoing>>
    PROVE  Section(at)' /\ Sending(at)' = Sending(at) /\ Ending(at)' = Ending(at)
  BY DEF Section, Sending, Ending

(* What is shown has been read. *)
LEMMA ShowReads ==
    ASSUME TypeOK, Show
    PROVE  stream' # stream /\ stream # <<>> /\ stream' \in Seq(Units)
<1>1. PICK n \in 1..Len(stream) : stream' = SubSeq(stream, n + 1, Len(stream))
  BY DEF Show
<1>2. stream \in Seq(Units) /\ Len(stream) \in Nat /\ n \in Nat /\ n >= 1 /\ n <= Len(stream)
  BY DEF TypeOK
<1>3. stream' \in Seq(Units) /\ Len(stream') = Len(stream) - n
  BY <1>1, <1>2
<1> QED BY <1>2, <1>3

(* The client moves on without reading. *)
LEMMA QuietClient ==
    ASSUME IInv, NEW at \in Nat, Place(at),
           Login \/ Ask \/ SizeClosed \/ Exit \/ CarryText \/ NothingTyped
             \/ (CarryOutput /\ stream' = stream)
             \/ Type("text") \/ Type("exit") \/ Leave \/ HoldUp
    PROVE  DataFits' /\ TwoPiecesAreRead' /\ Place(at)'
<1>1. CarryOutput /\ stream' = stream => ~Show
  BY ShowReads DEF IInv
<1>2. /\ stream' = stream /\ outgoing' = outgoing /\ pieces' = pieces /\ handler' = handler
      /\ outputs' = outputs /\ written' = written /\ dataStr' = dataStr /\ toGet' = toGet
      /\ screen' = screen /\ cut' = cut
  BY <1>1 DEF Login, Ask, SizeClosed, Exit, CarryText, NothingTyped, CarryOutput,
         Type, Leave, HoldUp, ClientKeeps, client, history, server, user
<1>3. /\ step' = "text" => step = "text" /\ inbox' = inbox
      /\ step = "text" => step' = "text"
  BY DEF Login, Ask, SizeClosed, Exit, CarryText, NothingTyped, CarryOutput,
         Type, Leave, HoldUp, ClientKeeps, client, server, user
<1>4. /\ step' = "login" => step = "login" /\ inbox' = inbox
      /\ step' = "ask" => \/ step \in {"login", "ask"} /\ inbox' = inbox
                          \/ step = "size" /\ handler = "closed" /\ stream = <<>> /\ inbox' = inbox
      /\ step' = "size" => \/ step = "size" /\ inbox' = inbox
                           \/ step = "ask" /\ inbox' = Append(inbox, "request") /\ handler # "closed"
      /\ step' \in {"relay", "output"} =>
            step \in {"relay", "output"} /\ inbox' \in {inbox, Append(inbox, "text")}
      /\ step' \in {"over", "raised"} => inbox' = inbox
      /\ step' = "over" => step \in {"over", "relay"}
      /\ step' = "raised" => step # "size" \/ handler = "closed"
  <2>1. CASE Login \/ Ask \/ SizeClosed
    BY <2>1 DEF Login, Ask, SizeClosed
  <2>2. CASE Exit \/ CarryText \/ NothingTyped
    BY <2>2 DEF Exit, CarryText, NothingTyped
  <2>3. CASE CarryOutput
    BY <2>3 DEF CarryOutput
  <2>4. CASE Type("text") \/ Type("exit") \/ Leave \/ HoldUp
    <3>1. step' = step /\ inbox' = inbox
      BY <2>4 DEF Type, Leave, HoldUp, client
    <3> QED BY <3>1 DEF IInv, TypeOK
  <2> QED BY <2>1, <2>2, <2>3, <2>4
<1>5. /\ BodySize \in Nat \ {0} /\ Accepted = BodySize + 1 /\ Session = 2 * BodySize + 2
      /\ Len(stream) \in Nat /\ Len(outgoing) \in Nat /\ outputs \in Nat
      /\ (stream = <<>> => Len(stream) = 0) /\ (outgoing = <<>> => Len(outgoing) = 0)
  BY DirectAssumption DEF IInv, TypeOK, Accepted, Session
<1>6. Section(at)' /\ Sending(at)' = Sending(at) /\ Ending(at)' = Ending(at)
  BY <1>2, QuietStream DEF Place
<1>7. step' # step => step' \in {"ask", "size", "relay", "output", "over", "raised"}
  BY DEF Login, Ask, SizeClosed, Exit, CarryText, NothingTyped, CarryOutput,
         Type, Leave, HoldUp, ClientKeeps, client, server, user
<1>8. DataFits'
  <2>1. step' \notin {"text", "raised"} => step \notin {"text", "raised"}
    BY <1>3, <1>4, <1>7
  <2> QED BY <1>2, <2>1 DEF IInv, DataFits
<1>9. \A r \in Results : PiecesOf(r)' = PiecesOf(r)
  BY <1>2 DEF PiecesOf
<1>10. TwoPiecesAreRead'
  <2>1. CASE step = "raised"
    <3>1. Len(dataStr) \in 1..(BodySize - 1) => dataStr[1].result \in Results
      BY <1>5, TextUnits DEF IInv, DataFits
    <3> QED BY <1>2, <1>9, <2>1, <3>1 DEF IInv, TwoPiecesAreRead
  <2>2. CASE step # "raised" /\ step' = "raised"
    <3>1. Len(dataStr) \in {0, BodySize}
      BY <1>3, <2>2 DEF IInv, DataFits
    <3> QED BY <1>2, <1>5, <3>1 DEF TwoPiecesAreRead
  <2>3. CASE step' # "raised"
    BY <2>3 DEF TwoPiecesAreRead
  <2> QED BY <2>1, <2>2, <2>3
<1>11. HandlerAt(at)'
  BY <1>2, <1>4, <1>6, <1>7 DEF Place, HandlerAt
<1>12. ClientAt(at)'
  <2>1. step' = "ask" => at = Accepted
    <3>1. CASE step = "size" /\ handler = "closed" /\ stream = <<>>
      <4>1. at = Ending(at)
        BY <1>5, <3>1 DEF Place, HandlerAt, Sending, Ending
      <4> QED BY <1>5, <3>1, <4>1 DEF Place, HandlerAt, ClientAt
    <3> QED BY <1>4, <3>1 DEF Place, ClientAt
  <2>2. /\ step' = "login" => at = Accepted
        /\ step' = "size" => at \in {0, Accepted}
        /\ step' \in {"relay", "output"} => at = Session + (Len(screen) + cut)
    BY <1>4 DEF Place, ClientAt
  <2>3. step' \in {"login", "ask", "size", "text"} => screen = <<>>
    BY <1>3, <1>4 DEF Place, ClientAt
  <2> QED BY <1>2, <2>1, <2>2, <2>3 DEF Place, ClientAt
<1>13. TextAt(at)'
  BY <1>2, <1>3, <1>9 DEF Place, TextAt, Reading
<1>14. PiecesAt(at)'
  BY <1>2, <1>6 DEF Place, PiecesAt
<1>15. MailAt(at)'
  <2>1. /\ inbox \in Seq({"request", "text"})
        /\ inbox' \in {inbox, Append(inbox, "text")} \/ (inbox = <<>> /\ written = <<>>
                                                         /\ inbox' = <<"request">>)
    <3>1. step' \in {"login", "ask", "size", "text", "relay", "output", "over", "raised"}
      BY <1>7 DEF IInv, TypeOK
    <3>2. step = "ask" /\ handler # "closed" => inbox = <<>> /\ written = <<>>
      BY DEF Place, MailAt
    <3>3. inbox = <<>> => Append(inbox, "request") = <<"request">>
      OBVIOUS
    <3>4. CASE step' = "size"
      BY <1>4, <3>2, <3>3, <3>4 DEF IInv, TypeOK
    <3>5. CASE step' # "size"
      BY <1>3, <1>4, <3>1, <3>5 DEF IInv, TypeOK
    <3> QED BY <3>4, <3>5
  <2>2. \A i \in 1..Len(inbox') : inbox'[i] = "request" => i = 1 /\ written = <<>>
    <3>1. CASE inbox' = Append(inbox, "text")
      BY <2>1, <3>1, "request" # "text" DEF Place, MailAt
    <3>2. CASE inbox = <<>> /\ written = <<>> /\ inbox' = <<"request">>
      BY <3>2
    <3> QED BY <2>1, <3>1, <3>2 DEF Place, MailAt
  <2>3. step' \in {"login", "ask"} => written = <<>> /\ (inbox' = <<>> \/ handler = "closed")
    <3>1. CASE step = "size" /\ handler = "closed" /\ stream = <<>>
      <4>1. at = Ending(at)
        BY <1>5, <3>1 DEF Place, HandlerAt, Sending, Ending
      <4>2. Ending(at) < Session
        BY <1>5, <3>1, <4>1 DEF Place, ClientAt
      <4>3. ~(Ending(at) >= Session)
        BY <1>5, <4>1, <4>2
      <4> QED BY <3>1, <4>3 DEF Place, MailAt
    <3> QED BY <1>4, <3>1 DEF Place, MailAt
  <2>4. step' \in {"size", "text"} /\ at < Accepted => written = <<>> /\ inbox' = <<>>
    BY <1>2, <1>3, <1>4, <1>5 DEF Place, MailAt, ClientAt
  <2>5. handler = "pending" => /\ inbox' \in {<<>>, <<"request">>}
                               /\ step' # "size" => inbox' = <<>>
    <3>1. handler = "pending" => step \in {"login", "ask", "size", "raised"}
                                 /\ step' \in {"login", "ask", "size", "raised"}
      BY <1>2, <1>11 DEF Place, HandlerAt
    <3>2. handler = "pending" /\ step' = "raised" => step # "size"
      BY <1>4
    <3>3. inbox = <<>> => Append(inbox, "request") = <<"request">>
      OBVIOUS
    <3> QED BY <1>4, <3>1, <3>2, <3>3 DEF Place, MailAt
  <2> QED BY <1>2, <1>6, <2>2, <2>3, <2>4, <2>5 DEF Place, MailAt
<1> QED BY <1>6, <1>8, <1>10, <1>11, <1>12, <1>13, <1>14, <1>15 DEF Place

(* The handler closes, or turns to its session, or writes to the port. *)
LEMMA QuietHandler ==
    ASSUME IInv, NEW at \in Nat, Place(at), Sent \/ Write \/ Closes
    PROVE  DataFits' /\ TwoPiecesAreRead' /\ Place(at)'
<1>1. /\ stream' = stream /\ outgoing' = outgoing /\ pieces' = pieces
      /\ outputs' = outputs /\ dataStr' = dataStr /\ toGet' = toGet /\ screen' = screen
      /\ step' = step /\ cut' = cut
  BY DEF Sent, Write, Closes, HandlerKeeps, client, history
<1>2. /\ BodySize \in Nat \ {0} /\ Accepted = BodySize + 1 /\ Session = 2 * BodySize + 2
      /\ Len(stream) \in Nat /\ Len(outgoing) \in Nat /\ outputs \in Nat
  BY DirectAssumption DEF IInv, TypeOK, Accepted, Session
<1>3. Section(at)' /\ Sending(at)' = Sending(at) /\ Ending(at)' = Ending(at)
  BY <1>1, QuietStream DEF Place
<1>4. DataFits' /\ ClientAt(at)'
  BY <1>1 DEF IInv, DataFits, Place, ClientAt
<1>5. \A r \in Results : PiecesOf(r)' = PiecesOf(r)
  BY <1>1 DEF PiecesOf
<1>6. TwoPiecesAreRead'
  <2>1. Len(dataStr) \in 1..(BodySize - 1) => dataStr[1].result \in Results
    <3>1. PICK r \in Results : \A i \in 1..Len(dataStr) : dataStr[i] = TextOf(r)[i]
      BY DEF IInv, DataFits
    <3>2. Len(dataStr) \in 1..(BodySize - 1) => 1 \in 1..Len(dataStr) /\ 1 \in 1..BodySize
      BY <1>2
    <3> QED BY <3>1, <3>2, TextUnits
  <2> QED BY <1>1, <1>5, <2>1 DEF IInv, TwoPiecesAreRead
<1>7. TextAt(at)'
  BY <1>1, <1>5 DEF Place, TextAt, Reading
<1>8. CASE Sent
  <2>1. /\ \/ handler = "accepts" /\ handler' = "session"
           \/ handler = "fails" /\ handler' = "closed"
        /\ outgoing = <<>> /\ inbox' = inbox /\ written' = written
    BY <1>8 DEF Sent
  <2>2. HandlerAt(at)'
    BY <1>1, <1>2, <1>3, <2>1 DEF Place, HandlerAt
  <2>3. PiecesAt(at)'
    BY <1>1, <1>3, <2>1 DEF Place, PiecesAt
  <2>4. MailAt(at)'
    BY <1>1, <1>3, <2>1 DEF Place, MailAt
  <2> QED BY <1>3, <1>4, <1>6, <1>7, <2>2, <2>3, <2>4 DEF Place
<1>9. CASE Closes
  <2>1. /\ handler \in {"pending", "session"} /\ handler' = "closed"
        /\ inbox' = inbox /\ written' = written
    BY <1>9 DEF Closes
  <2>2. HandlerAt(at)'
    BY <1>1, <1>2, <1>3, <2>1 DEF Place, HandlerAt
  <2>3. PiecesAt(at)'
    BY <1>1, <1>3, <2>1 DEF Place, PiecesAt
  <2>4. MailAt(at)'
    BY <1>1, <1>3, <2>1 DEF Place, MailAt
  <2> QED BY <1>3, <1>4, <1>6, <1>7, <2>2, <2>3, <2>4 DEF Place
<1>10. CASE Write
  <2>1. /\ handler = "session" /\ handler' = handler /\ inbox # <<>>
        /\ inbox' = Tail(inbox) /\ written' \in {written, Append(written, Head(inbox))}
    BY <1>10 DEF Write
  <2>2. HandlerAt(at)' /\ PiecesAt(at)'
    BY <1>1, <1>3, <2>1 DEF Place, HandlerAt, PiecesAt
  <2>3. /\ inbox \in Seq({"request", "text"}) /\ written \in Seq({"request", "text"})
    BY DEF IInv, TypeOK
  <2>4. Ending(at) >= Session
    BY <1>2, <2>1 DEF Place, HandlerAt
  <2>5. step \notin {"login", "ask"}
    BY <2>1 DEF Place, MailAt
  <2>6. ~(step \in {"size", "text"} /\ at < Accepted)
    BY <2>1 DEF Place, MailAt
  <2>7. \A i \in 1..Len(written') : written'[i] = "request" => i = 1
    <3>1. Head(inbox) = "request" => written = <<>>
      BY <2>1, <2>3 DEF Place, MailAt
    <3>2. CASE written' = written
      BY <3>2 DEF Place, MailAt
    <3>3. CASE written' = Append(written, Head(inbox))
      BY <2>1, <2>3, <3>1, <3>3 DEF Place, MailAt
    <3> QED BY <2>1, <3>2, <3>3
  <2>8. \A i \in 1..Len(inbox') : inbox'[i] # "request"
    BY <2>1, <2>3 DEF Place, MailAt
  <2>9. MailAt(at)'
    BY <1>1, <1>3, <2>1, <2>4, <2>5, <2>6, <2>7, <2>8 DEF MailAt
  <2> QED BY <1>3, <1>4, <1>6, <1>7, <2>2, <2>9 DEF Place
<1> QED BY <1>8, <1>9, <1>10

-----------------------------------------------------------------------------
(* The client reads. *)

(* Reading moves the near end of the section. *)
LEMMA Advance ==
    ASSUME TypeOK, NEW at \in Nat, Section(at), NEW n \in 0..Len(stream),
           stream' = SubSeq(stream, n + 1, Len(stream)), outgoing' = outgoing
    PROVE  /\ Len(stream') = Len(stream) - n
           /\ \A i \in 1..Len(stream') : n + i \in 1..Len(stream) /\ stream'[i] = stream[n + i]
           /\ at + n \in Nat
           /\ Section(at + n)'
           /\ Sending(at + n)' = Sending(at) /\ Ending(at + n)' = Ending(at)
<1>1. /\ stream \in Seq(Units) /\ Len(stream) \in Nat /\ Len(outgoing) \in Nat
  BY DEF TypeOK
<1>2. /\ Len(stream') = Len(stream) - n
      /\ \A i \in 1..Len(stream') : stream'[i] = stream[n + i] /\ n + i \in 1..Len(stream)
                                    /\ (at + (n + i)) - 1 = ((at + n) + i) - 1
  BY <1>1
<1>3. Sending(at + n)' = Sending(at) /\ Ending(at + n)' = Ending(at)
  <2>1. Len(stream') = Len(stream) - n /\ n \in Nat /\ Len(stream) \in Nat
    BY <1>1, <1>2
  <2>2. \A a, b \in Nat : a = b - n => (at + n) + a = at + b
    BY <2>1
  <2>3. Len(stream') \in Nat
    BY <1>1
  <2>4. (at + n) + Len(stream') = at + Len(stream)
    BY <2>1, <2>2, <2>3, Zenon
  <2> QED BY <2>4 DEF Sending, Ending
<1>4. Section(at + n)'
  <2>1. ASSUME NEW i \in 1..Len(stream')
        PROVE  stream'[i] = At(((at + n) + i) - 1)
    <3>1. stream[n + i] = At((at + (n + i)) - 1)
      BY <1>2, <2>1 DEF Section
    <3> QED BY <1>2, <2>1, <3>1, Zenon
  <2>2. \A i \in 1..Len(outgoing') : outgoing'[i] = At((Sending(at + n)' + i) - 1)
    BY <1>3 DEF Section
  <2> QED BY <2>1, <2>2 DEF Section
<1>5. at + n \in Nat
  BY <1>1
<1> QED BY <1>2, <1>3, <1>4, <1>5

(* Where a reply is looked for, what comes is a size. *)
LEMMA ReadSizePlace ==
    ASSUME IInv, NEW at \in Nat, Place(at), ReadSize
    PROVE  /\ step' = "text" /\ toGet' = BodySize
           /\ DataFits' /\ TwoPiecesAreRead' /\ \E to \in Nat : Place(to)'
<1>1. /\ stream \in Seq(Units) /\ stream # <<>> /\ 1 \in 1..Len(stream)
      /\ Head(stream) = stream[1] /\ Tail(stream) = SubSeq(stream, 1 + 1, Len(stream))
      /\ Len(stream) \in Nat /\ 1 \in 0..Len(stream)
  BY DEF ReadSize, IInv, TypeOK
<1>2. /\ BodySize \in Nat \ {0} /\ Accepted = BodySize + 1 /\ Session = 2 * BodySize + 2
      /\ Len(outgoing) \in Nat /\ outputs \in Nat
  BY DirectAssumption DEF IInv, TypeOK, Accepted, Session
<1>3. step = "size" /\ at \in {0, Accepted}
  BY DEF ReadSize, Place, ClientAt
<1>4. stream[1] = At(at)
  BY <1>1 DEF Place, Section
<1>5. Head(stream).kind = "size"
  BY <1>1, <1>3, <1>4, LineKinds
<1>6. /\ step' = "text" /\ toGet' = BodySize /\ dataStr' = <<>>
      /\ stream' = SubSeq(stream, 1 + 1, Len(stream))
      /\ screen' = screen /\ inbox' = inbox /\ outgoing' = outgoing /\ pieces' = pieces
      /\ handler' = handler /\ outputs' = outputs /\ written' = written /\ cut' = cut
  BY <1>1, <1>5 DEF ReadSize, StartText, ClientKeeps, server, history
<1>7. /\ Len(stream') = Len(stream) - 1 /\ at + 1 \in Nat /\ Section(at + 1)'
      /\ Sending(at + 1)' = Sending(at) /\ Ending(at + 1)' = Ending(at)
  BY <1>1, <1>6, Advance DEF IInv, Place
<1>8. DataFits' /\ TwoPiecesAreRead'
  BY <1>2, <1>6 DEF DataFits, TwoPiecesAreRead, Results
<1>9. HandlerAt(at + 1)'
  BY <1>1, <1>6, <1>7 DEF Place, HandlerAt
<1>10. ClientAt(at + 1)'
  BY <1>3, <1>6 DEF Place, ClientAt
<1>11. TextAt(at + 1)'
  <2>1. PICK r \in Results : at = Start(r)
    BY <1>3 DEF Start, Results
  <2>2. (at + 1) = Start(r) + Len(dataStr') + 1 /\ toGet' \in 1..(BodySize - Len(dataStr'))
    BY <1>2, <1>6, <2>1 DEF Start
  <2> QED BY <1>6, <2>2 DEF TextAt, Reading
<1>12. PiecesAt(at + 1)'
  <2>1. \A i \in 1..Len(stream') : i + 1 \in 1..Len(stream) /\ stream'[i] = stream[i + 1]
    BY <1>1, <1>6
  <2> QED BY <1>6, <1>7, <2>1 DEF Place, PiecesAt
<1>13. MailAt(at + 1)'
  <2>1. step' = "text" /\ at + 1 < Accepted => written = <<>> /\ inbox = <<>>
    BY <1>2, <1>3 DEF Place, MailAt
  <2>2. handler # "pending"
    BY <1>1 DEF Place, HandlerAt
  <2> QED BY <1>6, <1>7, <2>1, <2>2 DEF Place, MailAt
<1> QED BY <1>6, <1>7, <1>8, <1>9, <1>10, <1>11, <1>12, <1>13 DEF Place

(* A sequence with another one behind it. *)
LEMMA Joined ==
    ASSUME NEW s \in Seq(Units), NEW t \in Seq(Units)
    PROVE  /\ Len(s \o t) = Len(s) + Len(t)
           /\ \A i \in 1..Len(s \o t) :
                 \/ i \in 1..Len(s) /\ (s \o t)[i] = s[i]
                 \/ i - Len(s) \in 1..Len(t) /\ (s \o t)[i] = t[i - Len(s)]
<1>1. Len(s) \in Nat /\ Len(t) \in Nat /\ Len(s \o t) = Len(s) + Len(t)
  OBVIOUS
<1>2. ASSUME NEW i \in 1..Len(s \o t), i \notin 1..Len(s)
      PROVE  i - Len(s) \in 1..Len(t) /\ (s \o t)[i] = t[i - Len(s)]
  BY <1>1, <1>2
<1>3. ASSUME NEW i \in 1..Len(s)
      PROVE  (s \o t)[i] = s[i]
  BY <1>1
<1> QED BY <1>1, <1>2, <1>3

(* A visit reads part of the stream; it shows some of that, and the rest   *)
(* is cut off.                                                             *)
LEMMA ShowPlace ==
    ASSUME IInv, NEW at \in Nat, Place(at), CarryOutput, stream' # stream
    PROVE  DataFits' /\ TwoPiecesAreRead' /\ ScreenFits' /\ \E to \in Nat : Place(to)'
<1>1. /\ step = "output" /\ step' = "relay" /\ Show
      /\ inbox' = inbox /\ outgoing' = outgoing /\ pieces' = pieces /\ dataStr' = dataStr
      /\ handler' = handler /\ outputs' = outputs /\ written' = written
  BY DEF CarryOutput, ClientKeeps, server
<1>2. PICK n \in 1..Len(stream) : \E k \in 1..n :
         /\ screen' = screen \o SubSeq(stream, 1, k)
         /\ cut' = cut + (n - k)
         /\ stream' = SubSeq(stream, n + 1, Len(stream))
  BY <1>1 DEF Show
<1>3. PICK k \in 1..n :
         /\ screen' = screen \o SubSeq(stream, 1, k)
         /\ cut' = cut + (n - k)
         /\ stream' = SubSeq(stream, n + 1, Len(stream))
  BY <1>2
<1> DEFINE shown == Len(screen) + cut
<1>4. /\ stream \in Seq(Units) /\ screen \in Seq(Units) /\ n \in Nat /\ n \in 0..Len(stream)
      /\ k \in Nat /\ 1 <= k /\ k <= n /\ cut \in Nat /\ Len(screen) \in Nat /\ shown \in Nat
      /\ Len(stream) \in Nat
  BY DEF IInv, TypeOK
<1>5. BodySize \in Nat \ {0} /\ Accepted = BodySize + 1 /\ Session = 2 * BodySize + 2
  BY DirectAssumption DEF Accepted, Session
<1>6. at = Session + shown
  BY <1>1 DEF Place, ClientAt
<1>7. /\ at + n \in Nat /\ Section(at + n)'
      /\ Sending(at + n)' = Sending(at) /\ Ending(at + n)' = Ending(at)
  BY <1>1, <1>3, <1>4, Advance DEF IInv, Place
<1>8. DataFits' /\ TwoPiecesAreRead'
  BY <1>1 DEF IInv, DataFits, TwoPiecesAreRead
<1>9. HandlerAt(at + n)'
  BY <1>1, <1>7 DEF Place, HandlerAt
<1>10. /\ Len(screen') = Len(screen) + k
       /\ \A i \in 1..Len(screen') : \/ i \in 1..Len(screen) /\ screen'[i] = screen[i]
                                    \/ /\ i - Len(screen) \in 1..k
                                       /\ screen'[i] = stream[i - Len(screen)]
  <2> DEFINE part == SubSeq(stream, 1, k)
  <2>1. /\ part \in Seq(Units) /\ Len(part) = k
        /\ \A i \in 1..k : part[i] = stream[i]
    BY <1>4
  <2>2. screen' = screen \o part
    BY <1>3
  <2>3. screen \in Seq(Units) /\ Len(screen) \in Nat /\ k \in Nat
    BY <1>4
  <2> HIDE DEF part
  <2>4. /\ Len(screen \o part) = Len(screen) + Len(part)
        /\ \A i \in 1..Len(screen \o part) :
              \/ i \in 1..Len(screen) /\ (screen \o part)[i] = screen[i]
              \/ /\ i - Len(screen) \in 1..Len(part)
                 /\ (screen \o part)[i] = part[i - Len(screen)]
    BY <2>1, <2>3, Joined
  <2> QED BY <2>1, <2>2, <2>4
<1>11. ClientAt(at + n)'
  <2>1. shown' = shown + n
    BY <1>3, <1>4, <1>10
  <2>2. at + n = Session + shown'
    BY <1>4, <1>5, <1>6, <2>1
  <2> QED BY <1>1, <2>2 DEF ClientAt
<1>12. ScreenFits'
  <2>1. ASSUME NEW i \in 1..k
        PROVE  stream[i] = Output(shown + i)
    <3>1. i \in 1..Len(stream)
      BY <1>4
    <3>2. stream[i] = At((at + i) - 1)
      BY <3>1 DEF Place, Section
    <3>3. /\ (at + i) - 1 = Session + (shown + (i - 1)) /\ shown + (i - 1) \in Nat
          /\ (shown + (i - 1)) + 1 = shown + i
      <4> HIDE DEF shown
      <4> QED BY <1>4, <1>5, <1>6
    <3> QED BY <3>2, <3>3, Line
  <2>2. \A i \in 1..Len(screen') :
           \/ i \in 1..Len(screen) /\ screen'[i] = screen[i]
           \/ /\ i \in (Len(screen) + 1)..(Len(screen) + k) /\ screen'[i] = Output(cut + i)
    <3>1. ASSUME NEW i \in 1..Len(screen'), i - Len(screen) \in 1..k,
                 screen'[i] = stream[i - Len(screen)]
          PROVE  i \in (Len(screen) + 1)..(Len(screen) + k) /\ screen'[i] = Output(cut + i)
      <4>1. shown + (i - Len(screen)) = cut + i
        BY <1>4, <1>10
      <4>2. stream[i - Len(screen)] = Output(shown + (i - Len(screen)))
        BY <2>1, <3>1
      <4>3. i \in (Len(screen) + 1)..(Len(screen) + k)
        BY <1>4, <1>10, <3>1
      <4> QED BY <3>1, <4>1, <4>2, <4>3
    <3> QED BY <1>10, <3>1
  <2>3. \A i \in 1..Len(screen) : \E m \in i..(i + cut) : screen[i] = Output(m)
    BY DEF IInv, ScreenFits
  <2>4. cut' \in Nat /\ cut' >= cut
    BY <1>3, <1>4
  <2>5. \A i \in 1..Len(screen') : \E m \in i..(i + cut') : screen'[i] = Output(m)
    <3>1. ASSUME NEW i \in 1..Len(screen), screen'[i] = screen[i]
          PROVE  \E m \in i..(i + cut') : screen'[i] = Output(m)
      <4>1. PICK m \in i..(i + cut) : screen[i] = Output(m)
        BY <2>3
      <4>2. m \in i..(i + cut')
        <5>1. \A c \in Nat : c >= cut => m \in i..(i + c)
          BY <1>4
        <5> QED BY <2>4, <5>1
      <4> QED BY <3>1, <4>1, <4>2
    <3>2. ASSUME NEW i \in (Len(screen) + 1)..(Len(screen) + k), screen'[i] = Output(cut + i)
          PROVE  \E m \in i..(i + cut') : screen'[i] = Output(m)
      <4>1. cut + i \in i..(i + cut')
        <5>1. \A c \in Nat : c >= cut => cut + i \in i..(i + c)
          BY <1>4
        <5> QED BY <2>4, <5>1
      <4> QED BY <3>2, <4>1
    <3> QED BY <2>2, <3>1, <3>2
  <2>6. \A m : Output(m).number = m
    BY DEF Output
  <2>7. ASSUME NEW i \in 1..Len(screen'), NEW j \in 1..Len(screen'), i < j
        PROVE  screen'[i].number < screen'[j].number
    <3>1. CASE i \in 1..Len(screen) /\ j \in 1..Len(screen)
      <4>1. screen'[i] = screen[i] /\ screen'[j] = screen[j]
        <5>1. \A a \in 1..Len(screen) : a \notin (Len(screen) + 1)..(Len(screen) + k)
          BY <1>4
        <5> QED BY <2>2, <2>7, <3>1, <5>1
      <4> QED BY <2>7, <3>1, <4>1 DEF IInv, ScreenFits
    <3>2. CASE j \notin 1..Len(screen)
      <4>1. screen'[j] = Output(cut + j) /\ j \in Nat
        <5>1. screen'[j] = Output(cut + j) /\ j \in (Len(screen) + 1)..(Len(screen) + k)
          BY <2>2, <2>7, <3>2
        <5>2. \A a \in (Len(screen) + 1)..(Len(screen) + k) : a \in Nat
          BY <1>4
        <5> QED BY <5>1, <5>2
      <4>2. CASE i \in 1..Len(screen) /\ screen'[i] = screen[i]
        <5>1. PICK m \in i..(i + cut) : screen[i] = Output(m)
          BY <2>3, <4>2
        <5>2. screen'[i].number = m /\ screen'[j].number = cut + j
          BY <2>6, <4>1, <4>2, <5>1
        <5>3. m < cut + j
          BY <1>4, <2>7, <4>1, <5>1
        <5> QED BY <5>2, <5>3
      <4>3. CASE screen'[i] = Output(cut + i)
        <5>1. screen'[i].number = cut + i /\ screen'[j].number = cut + j
          BY <2>6, <4>1, <4>3
        <5>2. cut + i < cut + j
          BY <1>4, <1>10, <2>7, <4>1
        <5> QED BY <5>1, <5>2
      <4> QED BY <2>2, <4>2, <4>3
    <3>3. i \in 1..Len(screen) \/ j \notin 1..Len(screen)
      BY <1>4, <1>10, <2>7
    <3> QED BY <3>1, <3>2, <3>3
  <2> QED BY <1>1, <2>5, <2>7 DEF ScreenFits
<1>13. TextAt(at + n)'
  BY <1>1 DEF TextAt
<1>14. PiecesAt(at + n)'
  <2>1. \A i \in 1..Len(stream') : n + i \in 1..Len(stream) /\ stream'[i] = stream[n + i]
    BY <1>1, <1>3, <1>4, Advance DEF IInv, Place
  <2>2. handler # "pending"
    BY <1>1 DEF Place, HandlerAt
  <2> QED BY <1>1, <1>7, <2>1, <2>2 DEF Place, PiecesAt
<1>15. MailAt(at + n)'
  <2>1. handler # "pending"
    BY <1>1 DEF Place, HandlerAt
  <2> QED BY <1>1, <1>7, <2>1 DEF Place, MailAt
<1> QED BY <1>7, <1>8, <1>9, <1>13, <1>14, <1>15, <1>11, <1>12 DEF Place

(* What is not in the stream of the text that is being read is still to be *)
(* sent: nobody who sends a size closes before the end of its text.        *)
LEMMA RestIsOutgoing ==
    ASSUME IInv, NEW at \in Nat, Place(at), step = "text", NEW r \in Results, Reading(at, r),
           Len(dataStr) + Len(stream) < BodySize
    PROVE  PiecesOf(r) = pieces[r] + 1
<1> DEFINE j == (((Start(r) + BodySize) - at) - Len(stream)) + 1
<1>1. /\ BodySize \in Nat \ {0} /\ Accepted = BodySize + 1 /\ Session = 2 * BodySize + 2
      /\ Len(stream) \in Nat /\ Len(outgoing) \in Nat /\ outputs \in Nat /\ Len(dataStr) \in Nat
      /\ outgoing = <<>> => Len(outgoing) = 0
  BY DirectAssumption DEF IInv, TypeOK, Accepted, Session
<1>2. at = Start(r) + Len(dataStr) + 1 /\ Start(r) \in {0, Accepted}
  BY DEF Reading, Start
<1>3. Sending(at) <= Start(r) + BodySize /\ at > Start(r)
  BY <1>1, <1>2 DEF Sending
<1>4. Ending(at) = Sending(at) + Len(outgoing) /\ Sending(at) \in Nat /\ Ending(at) \in Nat
  BY <1>1 DEF Ending, Sending
<1>5. Ending(at) > Start(r) + BodySize
  <2>1. handler \in {"accepts", "fails", "session", "closed"}
    BY DEF IInv, TypeOK, Place, HandlerAt
  <2>2. Ending(at) \in {Session, Accepted} \/ (Ending(at) = Session + outputs)
    BY <2>1 DEF Place, HandlerAt
  <2>3. CASE Ending(at) >= Session
    <3>1. Start(r) \in Nat /\ Start(r) + BodySize < Session /\ Session \in Nat
      BY <1>1, <1>2
    <3> QED BY <1>1, <1>4, <2>3, <3>1
  <2>4. CASE Ending(at) = Accepted
    <3>1. at <= Accepted
      BY <1>1, <1>4, <2>4 DEF Sending
    <3>2. Start(r) = 0
      BY <1>1, <1>2, <3>1
    <3> QED BY <1>1, <3>2, <2>4
  <2> QED BY <1>1, <2>2, <2>3, <2>4
<1>6. j \in 1..Len(outgoing) /\ (Sending(at) + j) - 1 = Start(r) + BodySize
  <2>1. Start(r) \in Nat /\ Sending(at) = at + Len(stream)
    BY <1>1, <1>2 DEF Sending
  <2>2. j = ((Start(r) + BodySize) - Sending(at)) + 1
    BY <1>1, <2>1
  <2> HIDE DEF j
  <2> QED BY <1>1, <1>3, <1>4, <1>5, <2>1, <2>2
<1>7. outgoing[j] = TextOf(r)[BodySize]
  <2> HIDE DEF j
  <2>1. outgoing[j] = At(Start(r) + BodySize)
    BY <1>6 DEF Place, Section
  <2>2. BodySize \in 1..BodySize
    BY <1>1
  <2> QED BY <2>1, <2>2, Line
<1>8. \E i \in DOMAIN outgoing : outgoing[i] = TextOf(r)[BodySize]
  <2> HIDE DEF j
  <2>1. DOMAIN outgoing = 1..Len(outgoing)
    BY DEF IInv, TypeOK
  <2> QED BY <1>6, <1>7, <2>1
<1> QED BY <1>8 DEF PiecesOf

(* What a read of a text returns. *)
LEMMA ReadTextUnits ==
    ASSUME IInv, NEW at \in Nat, Place(at), step = "text", NEW r \in Results, Reading(at, r),
           \A i \in 1..Len(dataStr) : dataStr[i] = TextOf(r)[i],
           NEW n \in 1..Len(stream), Len(dataStr) + n <= BodySize
    PROVE  LET read == dataStr \o SubSeq(stream, 1, n)
           IN  /\ read \in Seq(Units) /\ Len(read) = Len(dataStr) + n
               /\ \A i \in 1..Len(read) : read[i] = TextOf(r)[i]
<1> DEFINE read == dataStr \o SubSeq(stream, 1, n)
<1>1. /\ stream \in Seq(Units) /\ dataStr \in Seq(Units) /\ Len(stream) \in Nat
      /\ Len(dataStr) \in Nat /\ n \in Nat /\ n <= Len(stream)
  BY DEF IInv, TypeOK
<1>2. SubSeq(stream, 1, n) \in Seq(Units) /\ Len(SubSeq(stream, 1, n)) = n
      /\ \A i \in 1..n : SubSeq(stream, 1, n)[i] = stream[i]
  BY <1>1
<1>3. /\ read \in Seq(Units) /\ Len(read) = Len(dataStr) + n
      /\ \A i \in 1..Len(dataStr) : read[i] = dataStr[i]
      /\ \A i \in 1..Len(read) : i \notin 1..Len(dataStr) =>
            i - Len(dataStr) \in 1..n /\ read[i] = stream[i - Len(dataStr)]
  BY <1>1, <1>2
<1>4. ASSUME NEW i \in 1..Len(read)
      PROVE  read[i] = TextOf(r)[i]
  <2> HIDE DEF read
  <2>1. CASE i \in 1..Len(dataStr)
    BY <1>3, <2>1
  <2>2. CASE i \notin 1..Len(dataStr)
    <3>1. stream[i - Len(dataStr)] = At((at + (i - Len(dataStr))) - 1)
      BY <1>1, <1>3, <2>2 DEF Place, Section
    <3>2. (at + (i - Len(dataStr))) - 1 = Start(r) + i /\ i \in 1..BodySize
      BY <1>1, <1>3, DirectAssumption DEF Reading, Start, Accepted
    <3>3. At(Start(r) + i) = TextOf(r)[i]
      BY <3>2, Line
    <3> QED BY <1>3, <2>2, <3>1, <3>2, <3>3
  <2> QED BY <2>1, <2>2
<1> QED BY <1>3, <1>4

(* The loop over a text: read whole, cut short, or still to go on. *)
LEMMA ReadTextPlace ==
    ASSUME IInv, NEW at \in Nat, Place(at), ReadText
    PROVE  /\ toGet' \in 0..BodySize /\ dataStr' \in Seq(Units)
           /\ stream' \in Seq(Units)
           /\ step' \in {"text", "raised", "ask", "relay"}
           /\ DataFits' /\ TwoPiecesAreRead' /\ \E to \in Nat : Place(to)'
<1>1. /\ BodySize \in Nat \ {0} /\ Accepted = BodySize + 1 /\ Session = 2 * BodySize + 2
      /\ stream \in Seq(Units) /\ stream # <<>> /\ Len(stream) \in Nat /\ Len(stream) >= 1
      /\ Len(dataStr) \in Nat /\ outputs \in Nat
  BY DirectAssumption DEF IInv, TypeOK, ReadText, Accepted, Session
<1>2. step = "text"
  BY DEF ReadText
<1>3. PICK r \in Results :
         /\ Reading(at, r)
         /\ \A i \in 1..Len(dataStr) : dataStr[i] = TextOf(r)[i]
         /\ toGet \in 1..(BodySize - Len(dataStr))
         /\ \/ dataStr = <<>> /\ toGet = BodySize
            \/ /\ toGet = BodySize - Len(dataStr)
               /\ pieces[r] >= 1 /\ PiecesOf(r) >= 2
               /\ stream # <<>> => pieces[r] >= 2
            \/ PiecesOf(r) >= 3
  BY <1>2 DEF Place, TextAt
<1>4. PICK n \in 1..Len(stream) :
         /\ n = IF Len(stream) < toGet THEN Len(stream) ELSE toGet
         /\ dataStr' = dataStr \o SubSeq(stream, 1, n)
         /\ stream' = SubSeq(stream, n + 1, Len(stream))
         /\ toGet' = StillToGet(dataStr')
         /\ step' = IF toGet' = 0 THEN Parsed(dataStr') ELSE "text"
  <2>1. (IF Len(stream) < toGet THEN Len(stream) ELSE toGet) \in 1..Len(stream)
    BY <1>1, <1>3
  <2> QED BY <2>1 DEF ReadText
<1>5. /\ Len(dataStr) + n <= BodySize /\ n <= toGet /\ n \in Nat /\ n \in 0..Len(stream)
      /\ n < toGet => n = Len(stream)
  BY <1>1, <1>3, <1>4
<1>6. /\ dataStr' \in Seq(Units) /\ Len(dataStr') = Len(dataStr) + n
      /\ \A i \in 1..Len(dataStr') : dataStr'[i] = TextOf(r)[i]
  BY <1>2, <1>3, <1>4, <1>5, ReadTextUnits
<1>7. /\ screen' = screen /\ inbox' = inbox /\ outgoing' = outgoing /\ pieces' = pieces
      /\ handler' = handler /\ outputs' = outputs /\ written' = written /\ cut' = cut
  BY DEF ReadText, ClientKeeps, server
<1>8. /\ Len(stream') = Len(stream) - n /\ at + n \in Nat /\ Section(at + n)'
      /\ Sending(at + n)' = Sending(at) /\ Ending(at + n)' = Ending(at)
  BY <1>4, <1>5, <1>7, Advance DEF IInv, Place
<1>9. at = Start(r) + Len(dataStr) + 1 /\ Start(r) \in {0, Accepted} /\ Start(r) \in Nat
  BY <1>1, <1>3 DEF Reading, Start
<1>10. toGet' = IF Len(dataStr') < toGet THEN toGet - Len(dataStr') ELSE 0
  BY <1>4 DEF StillToGet
<1>11. toGet' \in 0..(BodySize - Len(dataStr'))
  BY <1>1, <1>3, <1>5, <1>6, <1>10
<1>12. stream' \in Seq(Units)
  BY <1>1, <1>4, <1>5
<1>13. PiecesOf(r)' = PiecesOf(r)
  BY <1>7 DEF PiecesOf
<1>14. Parsed(dataStr') \in {"raised", "ask", "relay"}
  BY DEF Parsed
<1>15. step' \in {"text", "raised", "ask", "relay"}
  BY <1>4, <1>14
<1>16. Len(dataStr') < BodySize =>
          /\ step' \in {"text", "raised"}
          /\ \/ dataStr = <<>> /\ toGet' = BodySize - Len(dataStr') /\ n = Len(stream)
             \/ PiecesOf(r) >= 3
  <2> SUFFICES ASSUME Len(dataStr') < BodySize
               PROVE  /\ step' \in {"text", "raised"}
                      /\ \/ /\ dataStr = <<>> /\ toGet' = BodySize - Len(dataStr')
                            /\ n = Len(stream)
                         \/ PiecesOf(r) >= 3
    OBVIOUS
  <2>1. dataStr' # TextOf("OK") /\ dataStr' # TextOf("Fail")
    BY <1>1, TextUnits DEF Results
  <2>2. step' \in {"text", "raised"}
    BY <1>4, <2>1 DEF Parsed
  <2>3. CASE dataStr = <<>> /\ toGet = BodySize
    <3>1. Len(dataStr) = 0 /\ Len(dataStr') = n /\ n < toGet
      BY <1>1, <1>5, <1>6, <2>3
    <3> QED BY <1>5, <1>10, <2>2, <2>3, <3>1
  <2>4. CASE toGet = BodySize - Len(dataStr) /\ (stream # <<>> => pieces[r] >= 2)
    <3>1. n < toGet
      BY <1>1, <1>3, <1>5, <1>6, <2>4
    <3>2. Len(dataStr) + Len(stream) < BodySize
      BY <1>1, <1>3, <1>5, <2>4, <3>1
    <3>3. PiecesOf(r) = pieces[r] + 1
      BY <1>2, <1>3, <3>2, RestIsOutgoing
    <3>4. pieces[r] \in Nat /\ pieces[r] >= 2
      BY <1>1, <2>4 DEF IInv, TypeOK
    <3>5. PiecesOf(r) >= 3
      BY <3>3, <3>4
    <3> QED BY <2>2, <3>5
  <2> QED BY <1>3, <2>2, <2>3, <2>4
<1>17. Len(dataStr') = BodySize => toGet' = 0 /\ dataStr' = TextOf(r)
  <2> SUFFICES ASSUME Len(dataStr') = BodySize PROVE toGet' = 0 /\ dataStr' = TextOf(r)
    OBVIOUS
  <2>1. toGet' = 0
    BY <1>1, <1>11
  <2>2. Len(dataStr') = Len(TextOf(r)) /\ TextOf(r) \in Seq(Units)
    BY TextUnits
  <2>3. dataStr' = TextOf(r)
    BY <1>6, <2>2
  <2> QED BY <2>1, <2>3
<1>18. step' # "text" /\ Len(dataStr') = BodySize => step' = IF r = "OK" THEN "relay" ELSE "ask"
  <2>1. TextOf("OK") # TextOf("Fail")
    <3>1. /\ TextOf("OK")[1].result = "OK" /\ TextOf("Fail")[1].result = "Fail"
          /\ "OK" # "Fail"
      BY <1>1, TextUnits DEF Results
    <3> QED BY <3>1
  <2> QED BY <1>4, <1>17, <2>1 DEF Parsed, Results
<1>19. /\ step' = "text" => Len(dataStr') < BodySize /\ toGet' # 0
       /\ step' \in {"ask", "relay"} => Len(dataStr') = BodySize
  <2>1. Len(dataStr') \in Nat /\ Len(dataStr') <= BodySize
    BY <1>1, <1>5, <1>6
  <2>2. step' = "text" => toGet' # 0
    BY <1>4, <1>14
  <2> QED BY <1>1, <1>16, <1>17, <2>1, <2>2
<1>20. DataFits' /\ TwoPiecesAreRead'
  <2>1. DataFits'
    <3>1. Len(dataStr') <= BodySize
      BY <1>5, <1>6
    <3>2. step' \notin {"text", "raised"} => Len(dataStr') \in {0, BodySize}
      BY <1>15, <1>19
    <3> QED BY <1>6, <3>1, <3>2 DEF DataFits
  <2>2. TwoPiecesAreRead'
    <3> SUFFICES ASSUME step' = "raised", Len(dataStr') \in 1..(BodySize - 1)
                 PROVE  (PiecesOf(dataStr[1].result))' > 2
      BY DEF TwoPiecesAreRead
    <3>1. Len(dataStr') < BodySize /\ 1 \in 1..Len(dataStr') /\ 1 \in 1..BodySize
      BY <1>1, <1>6
    <3>2. dataStr'[1].result = r
      BY <1>6, <3>1, TextUnits
    <3>3. toGet' = 0
      BY <1>4
    <3>4. PiecesOf(r) >= 3
      BY <1>1, <1>16, <3>1, <3>3
    <3>5. (PiecesOf(dataStr[1].result))' = PiecesOf(r)'
      BY <3>2 DEF PiecesOf
    <3>6. PiecesOf(r) \in Nat
      BY DEF PiecesOf, IInv, TypeOK
    <3> QED BY <1>13, <3>4, <3>5, <3>6
  <2> QED BY <2>1, <2>2
<1>21. HandlerAt(at + n)' /\ handler # "pending"
  <2>1. handler # "pending"
    BY <1>2 DEF Place, HandlerAt
  <2> QED BY <1>7, <1>8, <2>1 DEF Place, HandlerAt
<1>22. ClientAt(at + n)'
  <2>1. screen = <<>> /\ Len(screen) = 0 /\ cut = 0
    BY <1>2 DEF Place, ClientAt, IInv, ScreenFits
  <2>2. Len(dataStr') = BodySize => at + n = Start(r) + BodySize + 1
    BY <1>1, <1>5, <1>6, <1>9
  <2>3. step' = "ask" => at + n = Accepted
    <3>1. step' = "ask" => r = "Fail"
      BY <1>18, <1>19 DEF Results
    <3> QED BY <1>1, <1>19, <2>2, <3>1 DEF Start
  <2>4. step' = "relay" => at + n = Session + (Len(screen) + cut)
    <3>1. step' = "relay" => r = "OK"
      BY <1>18, <1>19 DEF Results
    <3> QED BY <1>1, <1>19, <2>1, <2>2, <3>1 DEF Start
  <2> QED BY <1>7, <1>15, <2>1, <2>3, <2>4 DEF ClientAt
<1>23. TextAt(at + n)'
  <2> SUFFICES ASSUME step' = "text" PROVE TextAt(at + n)'
    BY DEF TextAt
  <2>1. Len(dataStr') < BodySize /\ toGet' # 0
    BY <1>19
  <2>2. toGet' \in 1..(BodySize - Len(dataStr'))
    BY <1>1, <1>11, <2>1
  <2>3. at + n = Start(r) + Len(dataStr') + 1
    BY <1>1, <1>5, <1>6, <1>9
  <2>4. CASE dataStr = <<>> /\ toGet' = BodySize - Len(dataStr') /\ n = Len(stream)
    <3>1. stream' = <<>>
      BY <1>8, <1>12, <2>4
    <3>2. PiecesOf(r) = pieces[r] + 1
      <4>1. Len(dataStr) + Len(stream) < BodySize
        BY <1>6, <2>1, <2>4
      <4> QED BY <1>2, <1>3, <4>1, RestIsOutgoing
    <3>3. pieces[r] >= 1
      <4>1. Len(dataStr) = 0 /\ 1 \in 1..Len(stream) /\ 1 \in 1..BodySize /\ at = Start(r) + 1
        BY <1>1, <1>9, <2>4
      <4>2. stream[1] = At((at + 1) - 1) /\ (at + 1) - 1 = Start(r) + 1
        BY <1>1, <1>9, <4>1 DEF Place, Section
      <4>3. stream[1] = TextOf(r)[1]
        BY <4>1, <4>2, Line
      <4>4. stream[1].kind = "text" /\ stream[1].result = r
        BY <4>1, <4>3, TextUnits
      <4> QED BY <4>1, <4>4 DEF Place, PiecesAt
    <3>4. PiecesOf(r) >= 2 /\ pieces[r] \in Nat
      BY <3>2, <3>3 DEF IInv, TypeOK
    <3> QED BY <1>6, <1>7, <1>13, <2>2, <2>3, <2>4, <3>1, <3>3, <3>4 DEF TextAt, Reading
  <2>5. CASE PiecesOf(r) >= 3
    BY <1>6, <1>13, <2>2, <2>3, <2>5 DEF TextAt, Reading
  <2> QED BY <1>16, <2>1, <2>4, <2>5
<1>24. PiecesAt(at + n)'
  <2>1. \A i \in 1..Len(stream') : n + i \in 1..Len(stream) /\ stream'[i] = stream[n + i]
    BY <1>4, <1>5, <1>7, Advance DEF IInv, Place
  <2> QED BY <1>7, <1>8, <1>21, <2>1 DEF Place, PiecesAt
<1>25. MailAt(at + n)'
  <2>1. at + n < Accepted => at < Accepted
    BY <1>1, <1>5
  <2>2. step' = "ask" => at < Accepted
    <3>1. step' = "ask" => r = "Fail"
      BY <1>18, <1>19 DEF Results
    <3>2. r = "Fail" => at < Accepted
      BY <1>1, <1>3, <1>9 DEF Start
    <3> QED BY <3>1, <3>2
  <2>3. at < Accepted => written = <<>> /\ inbox = <<>>
    BY <1>2 DEF Place, MailAt
  <2> QED BY <1>7, <1>8, <1>15, <1>21, <2>1, <2>2, <2>3 DEF Place, MailAt
<1> QED BY <1>1, <1>6, <1>8, <1>11, <1>12, <1>15, <1>20, <1>21, <1>22, <1>23, <1>24, <1>25
        DEF Place

-----------------------------------------------------------------------------
(* The handler sends. *)

(* A text never changes what has been read. *)
LEMMA DataStays ==
    ASSUME IInv, UNCHANGED <<dataStr, step>>,
           \A r \in Results : PiecesOf(r)' >= PiecesOf(r) /\ PiecesOf(r)' \in Nat
    PROVE  DataFits' /\ TwoPiecesAreRead'
<1>1. DataFits'
  BY DEF IInv, DataFits
<1>2. ASSUME step = "raised", Len(dataStr) \in 1..(BodySize - 1)
      PROVE  PiecesOf(dataStr[1].result)' > 2
  <2>1. PICK r \in Results : \A i \in 1..Len(dataStr) : dataStr[i] = TextOf(r)[i]
    BY DEF IInv, DataFits
  <2>2. 1 \in 1..Len(dataStr) /\ 1 \in 1..BodySize
    BY <1>2, DirectAssumption
  <2>3. dataStr[1].result = r
    BY <2>1, <2>2, TextUnits
  <2>4. PiecesOf(dataStr[1].result) > 2
    BY <1>2 DEF IInv, TwoPiecesAreRead
  <2>5. PiecesOf(r) \in Nat
    BY DEF PiecesOf, IInv, TypeOK
  <2>6. PiecesOf(r)' > 2
    BY <2>3, <2>4, <2>5
  <2>7. PiecesOf(dataStr[1].result)' = PiecesOf(r)'
    BY <2>3 DEF PiecesOf
  <2> QED BY <2>6, <2>7
<1> QED BY <1>1, <1>2 DEF TwoPiecesAreRead

(* The output continues the line. *)
LEMMA PortSendsPlace ==
    ASSUME IInv, NEW at \in Nat, Place(at), PortSends
    PROVE  DataFits' /\ TwoPiecesAreRead' /\ Place(at)'
<1>1. /\ BodySize \in Nat \ {0} /\ Accepted = BodySize + 1 /\ Session = 2 * BodySize + 2
      /\ stream \in Seq(Units) /\ Len(stream) \in Nat /\ Len(outgoing) \in Nat
      /\ outputs \in Nat /\ (outgoing = <<>> => Len(outgoing) = 0)
  BY DirectAssumption DEF IInv, TypeOK, Accepted, Session
<1>2. /\ handler = "session" /\ outputs' = outputs + 1
      /\ stream' = Append(stream, Output(outputs + 1))
      /\ handler' = handler /\ outgoing' = outgoing /\ pieces' = pieces /\ inbox' = inbox
      /\ written' = written /\ step' = step /\ toGet' = toGet /\ dataStr' = dataStr
      /\ screen' = screen /\ cut' = cut
  BY DEF PortSends, HandlerKeeps, client, history
<1>3. outgoing = <<>> /\ at + Len(stream) = Session + outputs
  BY <1>1, <1>2 DEF Place, HandlerAt, Ending, Sending
<1>4. /\ Len(stream') = Len(stream) + 1
      /\ \A i \in 1..Len(stream) : stream'[i] = stream[i]
      /\ stream'[Len(stream) + 1] = Output(outputs + 1)
  BY <1>1, <1>2
<1>5. Section(at)'
  <2>1. (at + (Len(stream) + 1)) - 1 = Session + outputs
    BY <1>1, <1>3
  <2>2. stream'[Len(stream) + 1] = At((at + (Len(stream) + 1)) - 1)
    BY <1>1, <1>4, <2>1, Line
  <2>3. \A i \in 1..Len(stream') : i \in 1..Len(stream) \/ i = Len(stream) + 1
    BY <1>1, <1>4
  <2>4. \A i \in 1..Len(stream') : stream'[i] = At((at + i) - 1)
    BY <1>4, <2>2, <2>3 DEF Place, Section
  <2>5. outgoing' = <<>> /\ 1..Len(outgoing') = {}
    BY <1>2, <1>3
  <2> QED BY <2>4, <2>5 DEF Section
<1>6. /\ Sending(at)' = Sending(at) + 1 /\ Ending(at)' = Ending(at) + 1
      /\ Sending(at) \in Nat /\ Ending(at) \in Nat
  BY <1>1, <1>2, <1>4 DEF Sending, Ending
<1>7. HandlerAt(at)'
  BY <1>1, <1>2, <1>6 DEF Place, HandlerAt
<1>8. ClientAt(at)'
  BY <1>2 DEF Place, ClientAt
<1>9. \A r \in Results : PiecesOf(r)' = PiecesOf(r) /\ PiecesOf(r) \in Nat
  BY <1>2 DEF PiecesOf, IInv, TypeOK
<1>10. DataFits' /\ TwoPiecesAreRead'
  BY <1>2, <1>9, DataStays
<1>11. TextAt(at)'
  <2>1. step = "text" => stream # <<>>
    <3> SUFFICES ASSUME step = "text", stream = <<>> PROVE FALSE
      OBVIOUS
    <3>1. at < Session
      BY <1>1 DEF Place, TextAt, Reading, Start, Results
    <3> QED BY <1>1, <1>3, <3>1
  <2> QED BY <1>2, <1>9, <2>1 DEF Place, TextAt, Reading
<1>12. PiecesAt(at)'
  <2>1. stream'[Len(stream) + 1].kind # "text"
    BY <1>4 DEF Output
  <2>2. \A i \in 1..Len(stream') : i \in 1..Len(stream) \/ i = Len(stream) + 1
    BY <1>1, <1>4
  <2>3. \A i \in 1..Len(stream') :
           stream'[i].kind = "text" => pieces[stream'[i].result] >= 1
    BY <1>4, <2>1, <2>2 DEF Place, PiecesAt
  <2>4. \A r \in Results : /\ pieces[r] <= BodySize
                           /\ pieces[r] = 0 \/ pieces[r] + Start(r) + 1 <= Sending(at) + 1
    <3>1. \A r \in Results : pieces[r] \in Nat /\ Start(r) \in Nat
      BY <1>1 DEF IInv, TypeOK, Start
    <3> QED BY <1>6, <3>1 DEF Place, PiecesAt
  <2> QED BY <1>2, <1>6, <2>3, <2>4 DEF PiecesAt
<1>13. MailAt(at)'
  <2>1. Ending(at) >= Session
    BY <1>1, <1>2 DEF Place, HandlerAt
  <2>2. Ending(at) + 1 >= Session
    BY <1>1, <1>6, <2>1
  <2> QED BY <1>2, <1>6, <2>2 DEF Place, MailAt
<1> QED BY <1>5, <1>7, <1>8, <1>10, <1>11, <1>12, <1>13 DEF Place

(* What a handler sends at a request is a section of the line that starts  *)
(* with a reply, and ends where the decision says.                         *)
LEMMA AnswerSection ==
    ASSUME Answer
    PROVE  /\ handler' \in {"accepts", "fails"} /\ outgoing' \in Seq(Units)
           /\ \E to \in {0, Accepted} :
                 /\ to + Len(outgoing') = IF handler' = "accepts" THEN Session ELSE Accepted
                 /\ \A i \in 1..Len(outgoing') : outgoing'[i] = At((to + i) - 1)
<1> DEFINE Goal == /\ outgoing' \in Seq(Units)
                   /\ \E to \in {0, Accepted} :
                         /\ to + Len(outgoing') = IF handler' = "accepts" THEN Session ELSE Accepted
                         /\ \A i \in 1..Len(outgoing') : outgoing'[i] = At((to + i) - 1)
<1>1. /\ BodySize \in Nat \ {0} /\ Accepted = BodySize + 1 /\ Session = 2 * BodySize + 2
  BY DirectAssumption DEF Accepted, Session
<1>2. /\ Reply("OK") \in Seq(Units) /\ Len(Reply("OK")) = BodySize + 1
      /\ \A i \in 1..(BodySize + 1) : Reply("OK")[i] = At((Accepted + i) - 1)
  BY ReplyUnits DEF Results, Start
<1>3. /\ Reply("Fail") \in Seq(Units) /\ Len(Reply("Fail")) = BodySize + 1
      /\ \A i \in 1..(BodySize + 1) : Reply("Fail")[i] = At((0 + i) - 1)
  BY ReplyUnits DEF Results, Start
<1>4. CASE handler' = "accepts" /\ outgoing' = Reply("OK")
  <2>1. Accepted + Len(outgoing') = Session
    BY <1>1, <1>2, <1>4
  <2> QED BY <1>2, <1>4, <2>1
<1>5. CASE handler' = "accepts" /\ outgoing' = Reply("Fail") \o Reply("OK")
  <2> HIDE DEF Goal
  <2>1. /\ outgoing' \in Seq(Units) /\ Len(outgoing') = (BodySize + 1) + (BodySize + 1)
        /\ \A i \in 1..(BodySize + 1) : outgoing'[i] = Reply("Fail")[i]
        /\ \A i \in (BodySize + 2)..(2 * BodySize + 2) :
              outgoing'[i] = Reply("OK")[i - (BodySize + 1)]
    <3>1. ASSUME NEW a \in Seq(Units), NEW b \in Seq(Units),
                 Len(a) = BodySize + 1, Len(b) = BodySize + 1
          PROVE  /\ a \o b \in Seq(Units) /\ Len(a \o b) = (BodySize + 1) + (BodySize + 1)
                 /\ \A i \in 1..(BodySize + 1) : (a \o b)[i] = a[i]
                 /\ \A i \in (BodySize + 2)..(2 * BodySize + 2) :
                       (a \o b)[i] = b[i - (BodySize + 1)]
      BY <1>1, <3>1
    <3>2. /\ Reply("Fail") \in Seq(Units) /\ Len(Reply("Fail")) = BodySize + 1
          /\ Reply("OK") \in Seq(Units) /\ Len(Reply("OK")) = BodySize + 1
      BY <1>2, <1>3
    <3> QED BY <1>5, <3>1, <3>2, Zenon
  <2>2. 0 + Len(outgoing') = Session
    BY <1>1, <2>1
  <2>3. ASSUME NEW i \in 1..Len(outgoing')
        PROVE  outgoing'[i] = At((0 + i) - 1)
    <3>1. CASE i \in 1..(BodySize + 1)
      BY <1>3, <2>1, <3>1
    <3>2. CASE i \notin 1..(BodySize + 1)
      <4>1. /\ i \in (BodySize + 2)..(2 * BodySize + 2)
            /\ i - (BodySize + 1) \in 1..(BodySize + 1)
            /\ (Accepted + (i - (BodySize + 1))) - 1 = (0 + i) - 1
        BY <1>1, <2>1, <3>2
      <4> QED BY <1>2, <2>1, <4>1
    <3> QED BY <3>1, <3>2
  <2> QED BY <1>5, <2>1, <2>2, <2>3 DEF Goal
<1>6. CASE handler' = "fails" /\ outgoing' = <<>>
  <2>1. Accepted + Len(outgoing') = Accepted /\ 1..Len(outgoing') = {} /\ outgoing' \in Seq(Units)
    BY <1>1, <1>6
  <2> QED BY <1>6, <2>1
<1>7. CASE handler' = "fails" /\ outgoing' = Reply("Fail")
  <2>1. 0 + Len(outgoing') = Accepted
    BY <1>1, <1>3, <1>7
  <2> QED BY <1>3, <1>7, <2>1
<1> QED BY <1>4, <1>5, <1>6, <1>7 DEF Answer, Answers

(* The decision: the client has read nothing, so it stands at any reply. *)
LEMMA AnswerPlace ==
    ASSUME IInv, NEW at \in Nat, Place(at), Answer
    PROVE  DataFits' /\ TwoPiecesAreRead' /\ \E to \in Nat : Place(to)'
<1>1. /\ BodySize \in Nat \ {0} /\ Accepted = BodySize + 1 /\ Session = 2 * BodySize + 2
      /\ Accepted \in Nat /\ Session \in Nat /\ 0 \in Nat
  BY DirectAssumption DEF Accepted, Session
<1>2. PICK to \in {0, Accepted} :
         /\ to + Len(outgoing') = IF handler' = "accepts" THEN Session ELSE Accepted
         /\ \A i \in 1..Len(outgoing') : outgoing'[i] = At((to + i) - 1)
  BY AnswerSection
<1>3. /\ handler' \in {"accepts", "fails"} /\ outgoing' \in Seq(Units)
      /\ Len(outgoing') \in Nat /\ to \in Nat
  BY <1>1, AnswerSection
<1>4. /\ handler = "pending" /\ inbox # <<>> /\ inbox' = Tail(inbox) /\ stream' = stream
      /\ pieces' = pieces /\ outputs' = outputs /\ written' = written /\ step' = step
      /\ toGet' = toGet /\ dataStr' = dataStr /\ screen' = screen /\ cut' = cut
  BY DEF Answer, HandlerKeeps, client, history
<1>5. /\ stream = <<>> /\ outgoing = <<>> /\ step = "size" /\ outputs = 0 /\ written = <<>>
      /\ inbox = <<"request">> /\ \A r \in Results : pieces[r] = 0
  BY <1>4 DEF Place, HandlerAt, MailAt, PiecesAt
<1>6. inbox' = <<>>
  BY <1>4, <1>5
<1>7. Sending(to)' = to /\ Ending(to)' = to + Len(outgoing')
  BY <1>3, <1>4, <1>5 DEF Sending, Ending
<1>8. Section(to)'
  <2>1. \A i \in 1..Len(stream') : stream'[i] = At((to + i) - 1)
    BY <1>4, <1>5
  <2> QED BY <1>2, <1>7, <2>1 DEF Section
<1>9. HandlerAt(to)'
  BY <1>2, <1>3, <1>4, <1>5, <1>7 DEF HandlerAt
<1>10. ClientAt(to)'
  BY <1>4, <1>5 DEF Place, ClientAt
<1>11. TextAt(to)'
  BY <1>4, <1>5 DEF TextAt
<1>12. PiecesAt(to)'
  BY <1>1, <1>3, <1>4, <1>5 DEF PiecesAt
<1>13. MailAt(to)'
  BY <1>3, <1>4, <1>5, <1>6 DEF MailAt
<1>14. \A r \in Results : PiecesOf(r)' >= PiecesOf(r) /\ PiecesOf(r)' \in Nat
  <2>1. \A r \in Results : pieces[r] = 0 /\ pieces'[r] = 0
    BY <1>4, <1>5
  <2>2. \A i : i \notin DOMAIN outgoing
    BY <1>5
  <2> QED BY <2>1, <2>2 DEF PiecesOf
<1>15. DataFits' /\ TwoPiecesAreRead'
  BY <1>4, <1>14, DataStays
<1> QED BY <1>3, <1>8, <1>9, <1>10, <1>11, <1>12, <1>13, <1>15 DEF Place

(* Sending moves what is between the two ends, and nothing else. *)
LEMMA SendMoves ==
    ASSUME TypeOK, NEW at \in Nat, Section(at), NEW n \in 1..Len(outgoing),
           stream' = stream \o SubSeq(outgoing, 1, n),
           outgoing' = SubSeq(outgoing, n + 1, Len(outgoing))
    PROVE  /\ stream' \in Seq(Units) /\ outgoing' \in Seq(Units)
           /\ Section(at)' /\ Sending(at)' = Sending(at) + n /\ Ending(at)' = Ending(at)
           /\ \A i \in 1..Len(stream') :
                 \/ i \in 1..Len(stream) /\ stream'[i] = stream[i]
                 \/ i - Len(stream) \in 1..n /\ stream'[i] = outgoing[i - Len(stream)]
           /\ \A i \in 1..Len(outgoing) :
                 i \notin 1..n => /\ i - n \in 1..Len(outgoing')
                                  /\ outgoing'[i - n] = outgoing[i]
<1>1. /\ stream \in Seq(Units) /\ outgoing \in Seq(Units)
      /\ Len(stream) \in Nat /\ Len(outgoing) \in Nat /\ n \in Nat /\ n <= Len(outgoing)
  BY DEF TypeOK
<1>2. /\ SubSeq(outgoing, 1, n) \in Seq(Units) /\ Len(SubSeq(outgoing, 1, n)) = n
      /\ \A i \in 1..n : SubSeq(outgoing, 1, n)[i] = outgoing[i]
  BY <1>1
<1>3. /\ stream' \in Seq(Units) /\ Len(stream') = Len(stream) + n
      /\ \A i \in 1..Len(stream') :
            \/ i \in 1..Len(stream) /\ stream'[i] = stream[i]
            \/ i - Len(stream) \in 1..n /\ stream'[i] = outgoing[i - Len(stream)]
  BY <1>1, <1>2
<1>4. /\ outgoing' \in Seq(Units) /\ Len(outgoing') = Len(outgoing) - n
      /\ \A i \in 1..Len(outgoing') : n + i \in 1..Len(outgoing) /\ outgoing'[i] = outgoing[n + i]
  BY <1>1
<1>5. \A i \in 1..Len(outgoing) :
         i \notin 1..n => i - n \in 1..Len(outgoing') /\ n + (i - n) = i
  BY <1>1, <1>4
<1>6. Sending(at)' = Sending(at) + n /\ Ending(at)' = Ending(at)
  <2>1. Sending(at)' = at + Len(stream') /\ Ending(at)' = (at + Len(stream')) + Len(outgoing')
    BY DEF Sending, Ending
  <2>2. Sending(at) = at + Len(stream) /\ Ending(at) = (at + Len(stream)) + Len(outgoing)
    BY DEF Sending, Ending
  <2>3. Len(stream') = Len(stream) + n /\ Len(outgoing') = Len(outgoing) - n
    BY <1>3, <1>4
  <2>4. at + (Len(stream) + n) = (at + Len(stream)) + n
    <3>1. PICK b \in Nat : b = Len(stream)
      BY <1>1
    <3>2. at + (b + n) = (at + b) + n
      BY <1>1
    <3> QED BY <3>1, <3>2
  <2>5. (at + (Len(stream) + n)) + (Len(outgoing) - n) = (at + Len(stream)) + Len(outgoing)
    BY <1>1
  <2> QED BY <2>1, <2>2, <2>3, <2>4, <2>5, Zenon
<1>7. \A i \in 1..Len(stream') : stream'[i] = At((at + i) - 1)
  <2>1. ASSUME NEW i \in 1..Len(stream'), i - Len(stream) \in 1..n,
               stream'[i] = outgoing[i - Len(stream)]
        PROVE  stream'[i] = At((at + i) - 1)
    <3>1. i - Len(stream) \in 1..Len(outgoing) /\ i \in Nat
      BY <1>1, <1>3, <2>1
    <3>2. outgoing[i - Len(stream)] = At((Sending(at) + (i - Len(stream))) - 1)
      BY <3>1 DEF Section
    <3>3. (Sending(at) + (i - Len(stream))) - 1 = (at + i) - 1
      BY <1>1, <3>1 DEF Sending
    <3> QED BY <2>1, <3>2, <3>3
  <2> QED BY <1>3, <2>1 DEF Section
<1>8. \A i \in 1..Len(outgoing') : outgoing'[i] = At((Sending(at)' + i) - 1)
  <2>1. ASSUME NEW i \in 1..Len(outgoing')
        PROVE  outgoing'[i] = At(((Sending(at) + n) + i) - 1)
    <3>1. outgoing[n + i] = At((Sending(at) + (n + i)) - 1)
      BY <1>4 DEF Section
    <3>2. (Sending(at) + (n + i)) - 1 = ((Sending(at) + n) + i) - 1
      BY <1>1 DEF Sending
    <3> QED BY <1>4, <3>1, <3>2
  <2> QED BY <1>6, <2>1
<1>9. Section(at)'
  BY <1>7, <1>8 DEF Section
<1> QED BY <1>3, <1>4, <1>5, <1>6, <1>9

(* What is sent: a size, or units of one text; which is one more piece.    *)
LEMMA SendUnits ==
    ASSUME IInv, NEW at \in Nat, Place(at), handler \in {"accepts", "fails"},
           NEW n \in 1..Len(outgoing),
           \A i \in 1..n : Head(outgoing).kind = "size" => i = 1,
           \A i \in 2..n : outgoing[i].kind # "size"
    PROVE  \/ Head(outgoing).kind = "size" /\ n = 1
           \/ \E r \in Results, k \in 1..BodySize :
                 /\ Sending(at) = Start(r) + k
                 /\ Head(outgoing).kind = "text" /\ Head(outgoing).result = r
                 /\ (k + n) - 1 <= BodySize
                 /\ \A i \in 1..n : outgoing[i] = TextOf(r)[(k + i) - 1]
<1>1. /\ BodySize \in Nat \ {0} /\ Accepted = BodySize + 1 /\ Session = 2 * BodySize + 2
      /\ outgoing \in Seq(Units) /\ Len(outgoing) \in Nat /\ Len(stream) \in Nat
      /\ n \in Nat /\ n >= 1 /\ n <= Len(outgoing) /\ 1 \in 1..n /\ n \in 1..n
      /\ Head(outgoing) = outgoing[1] /\ 1 \in 1..Len(outgoing)
  BY DirectAssumption DEF IInv, TypeOK, Accepted, Session
<1>2. /\ Sending(at) \in Nat /\ Ending(at) = Sending(at) + Len(outgoing)
      /\ Ending(at) \in {Accepted, Session} /\ Sending(at) < Session
  BY <1>1 DEF Sending, Ending, Place, HandlerAt
<1>3. outgoing[1] = At(Sending(at))
  <2>1. outgoing[1] = At((Sending(at) + 1) - 1)
    BY <1>1 DEF Place, Section
  <2>2. (Sending(at) + 1) - 1 = Sending(at)
    BY <1>2
  <2> QED BY <2>1, <2>2
<1>4. CASE Sending(at) \in {0, Accepted}
  BY <1>1, <1>2, <1>3, <1>4, LineKinds
<1>5. CASE Sending(at) \notin {0, Accepted}
  <2>1. PICK r \in Results, k \in 1..BodySize :
           Sending(at) = Start(r) + k /\ At(Sending(at)) = TextOf(r)[k]
    BY <1>2, <1>5, LineKinds
  <2>2. Start(r) \in Nat /\ Start(r) \in {0, Accepted}
    BY <1>1 DEF Start
  <2>3. Head(outgoing).kind = "text" /\ Head(outgoing).result = r
    BY <1>1, <1>3, <2>1, TextUnits
  <2>4. (k + n) - 1 <= BodySize
    <3> SUFFICES ASSUME (k + n) - 1 > BodySize PROVE FALSE
      BY <1>1, <2>1
    <3> DEFINE j == (BodySize + 2) - k
    <3>1. j \in 2..n /\ j \in 1..Len(outgoing) /\ (Sending(at) + j) - 1 = (Start(r) + BodySize) + 1
      BY <1>1, <2>1, <2>2
    <3> HIDE DEF j
    <3>2. outgoing[j] = At((Start(r) + BodySize) + 1)
      BY <3>1 DEF Place, Section
    <3>3. CASE Start(r) = 0
      <4>1. (Start(r) + BodySize) + 1 = Accepted /\ Accepted \in Nat
        BY <1>1, <3>3
      <4> QED BY <3>1, <3>2, <4>1, LineKinds
    <3>4. CASE Start(r) = Accepted
      <4>1. Sending(at) + j <= Ending(at) /\ Ending(at) <= Session
        BY <1>1, <1>2, <3>1
      <4> QED BY <1>1, <1>2, <3>1, <3>4, <4>1
    <3> QED BY <2>2, <3>3, <3>4
  <2>5. ASSUME NEW i \in 1..n
        PROVE  outgoing[i] = TextOf(r)[(k + i) - 1]
    <3>1. i \in 1..Len(outgoing) /\ (k + i) - 1 \in 1..BodySize
          /\ (Sending(at) + i) - 1 = Start(r) + ((k + i) - 1)
      <4>1. i \in 1..Len(outgoing)
        BY <1>1
      <4>2. (k + i) - 1 \in 1..BodySize
        BY <1>1, <2>4
      <4>3. i \in Nat /\ k \in Nat
        BY <1>1
      <4>4. (Sending(at) + i) - 1 = Start(r) + ((k + i) - 1)
        BY <2>1, <2>2, <4>3
      <4> QED BY <4>1, <4>2, <4>4
    <3>2. outgoing[i] = At(Start(r) + ((k + i) - 1))
      BY <3>1 DEF Place, Section
    <3> QED BY <3>1, <3>2, Line
  <2> QED BY <2>1, <2>3, <2>4, <2>5
<1> QED BY <1>4, <1>5

(* Each piece of a text is counted, and no text is counted twice. *)
LEMMA SendPlace ==
    ASSUME IInv, NEW at \in Nat, Place(at), Send
    PROVE  /\ stream' \in Seq(Units) /\ outgoing' \in Seq(Units)
           /\ pieces' \in [Results -> 0..BodySize]
           /\ DataFits' /\ TwoPiecesAreRead' /\ Place(at)'
<1>1. PICK n \in 1..Len(outgoing) :
         /\ \A i \in 1..n : Head(outgoing).kind = "size" => i = 1
         /\ \A i \in 2..n : outgoing[i].kind # "size"
         /\ stream' = stream \o SubSeq(outgoing, 1, n)
         /\ outgoing' = SubSeq(outgoing, n + 1, Len(outgoing))
  BY DEF Send
<1>2. /\ handler \in {"accepts", "fails"}
      /\ handler' = handler /\ inbox' = inbox /\ written' = written /\ outputs' = outputs
      /\ step' = step /\ toGet' = toGet /\ dataStr' = dataStr /\ screen' = screen
      /\ cut' = cut
      /\ pieces' = IF Head(outgoing).kind = "size"
                   THEN pieces ELSE [pieces EXCEPT ![Head(outgoing).result] = @ + 1]
  BY DEF Send, HandlerKeeps, client, history
<1>3. /\ stream' \in Seq(Units) /\ outgoing' \in Seq(Units)
      /\ Section(at)' /\ Sending(at)' = Sending(at) + n /\ Ending(at)' = Ending(at)
      /\ \A i \in 1..Len(stream') :
            \/ i \in 1..Len(stream) /\ stream'[i] = stream[i]
            \/ i - Len(stream) \in 1..n /\ stream'[i] = outgoing[i - Len(stream)]
      /\ \A i \in 1..Len(outgoing) :
            i \notin 1..n => /\ i - n \in 1..Len(outgoing')
                             /\ outgoing'[i - n] = outgoing[i]
  BY <1>1, SendMoves DEF IInv, Place
<1>4. /\ BodySize \in Nat \ {0} /\ Accepted = BodySize + 1 /\ Session = 2 * BodySize + 2
      /\ Len(stream) \in Nat /\ Len(outgoing) \in Nat /\ n \in Nat /\ n >= 1
      /\ 1 \in 1..n /\ n \in 1..n /\ Head(outgoing) = outgoing[1] /\ Sending(at) \in Nat
      /\ pieces \in [Results -> 0..BodySize]
      /\ DOMAIN outgoing = 1..Len(outgoing) /\ DOMAIN outgoing' = 1..Len(outgoing')
  BY <1>3, DirectAssumption DEF IInv, TypeOK, Accepted, Session, Sending
<1>5. \/ Head(outgoing).kind = "size" /\ n = 1
      \/ \E r \in Results, k \in 1..BodySize :
            /\ Sending(at) = Start(r) + k
            /\ Head(outgoing).kind = "text" /\ Head(outgoing).result = r
            /\ (k + n) - 1 <= BodySize
            /\ \A i \in 1..n : outgoing[i] = TextOf(r)[(k + i) - 1]
  BY <1>1, <1>2, SendUnits
<1>6. /\ pieces' \in [Results -> 0..BodySize]
      /\ \A q \in Results : pieces'[q] >= pieces[q]
      /\ \A q \in Results : /\ pieces'[q] <= BodySize
                            /\ pieces'[q] = 0 \/ pieces'[q] + Start(q) + 1 <= Sending(at) + n
      /\ Head(outgoing).kind = "text" =>
            Head(outgoing).result \in Results
            /\ pieces'[Head(outgoing).result] = pieces[Head(outgoing).result] + 1
  <2>1. \A q \in Results : /\ pieces[q] \in Nat /\ pieces[q] <= BodySize /\ Start(q) \in Nat
                           /\ pieces[q] = 0 \/ pieces[q] + Start(q) + 1 <= Sending(at)
    BY <1>4 DEF Place, PiecesAt, Start
  <2>2. \A q \in Results : pieces[q] = 0 \/ pieces[q] + Start(q) + 1 <= Sending(at) + n
    BY <1>4, <2>1
  <2>3. CASE Head(outgoing).kind = "size"
    <3>1. pieces' = pieces /\ Head(outgoing).kind # "text"
      BY <1>2, <2>3
    <3> QED BY <1>4, <2>1, <2>2, <3>1
  <2>4. ASSUME NEW r \in Results, NEW k \in 1..BodySize, Sending(at) = Start(r) + k,
               Head(outgoing).kind = "text", Head(outgoing).result = r
        PROVE  /\ pieces' \in [Results -> 0..BodySize]
               /\ \A q \in Results : pieces'[q] >= pieces[q]
               /\ \A q \in Results :
                     /\ pieces'[q] <= BodySize
                     /\ pieces'[q] = 0 \/ pieces'[q] + Start(q) + 1 <= Sending(at) + n
               /\ pieces'[Head(outgoing).result] = pieces[Head(outgoing).result] + 1
    <3>1. pieces' = [pieces EXCEPT ![r] = @ + 1]
      BY <1>2, <2>4
    <3>2. pieces[r] + 1 \in 0..BodySize /\ (pieces[r] + 1) + Start(r) + 1 <= Sending(at) + n
      <4>1. \A x, s \in Nat : x = 0 \/ x + s + 1 <= s + k =>
               x + 1 \in 0..BodySize /\ (x + 1) + s + 1 <= (s + k) + n
        BY <1>4
      <4> QED BY <2>1, <2>4, <4>1
    <3>3. pieces'[r] = pieces[r] + 1 /\ \A q \in Results : q # r => pieces'[q] = pieces[q]
      BY <1>4, <3>1
    <3>4. pieces' \in [Results -> 0..BodySize]
      BY <1>4, <3>1, <3>2
    <3>5. \A q \in Results : pieces'[q] >= pieces[q]
      BY <2>1, <3>3
    <3>6. ASSUME NEW q \in Results
          PROVE  /\ pieces'[q] <= BodySize
                 /\ pieces'[q] = 0 \/ pieces'[q] + Start(q) + 1 <= Sending(at) + n
      <4>1. CASE q = r
        BY <1>4, <3>2, <3>3, <4>1
      <4>2. CASE q # r
        BY <2>1, <2>2, <3>3, <4>2
      <4> QED BY <4>1, <4>2
    <3> QED BY <2>4, <3>3, <3>4, <3>5, <3>6
  <2> QED BY <1>5, <2>3, <2>4
<1>7. \A i \in 1..Len(stream') :
         stream'[i].kind = "text" => pieces'[stream'[i].result] >= 1
  <2>1. ASSUME NEW i \in 1..Len(stream'), stream'[i].kind = "text"
        PROVE  pieces'[stream'[i].result] >= 1
    <3>1. CASE i \in 1..Len(stream) /\ stream'[i] = stream[i]
      <4>1. pieces[stream[i].result] >= 1
        BY <2>1, <3>1 DEF Place, PiecesAt
      <4>2. stream[i].result \in Results
        <5>1. stream[i] \in Units
          BY <3>1 DEF IInv, TypeOK
        <5>2. stream[i].kind = "text"
          BY <2>1, <3>1
        <5>3. PICK r \in Results, k \in 1..BodySize : stream[i] = TextOf(r)[k]
          BY <5>1, <5>2 DEF Units, SizeOf, Output
        <5> QED BY <5>3, TextUnits
      <4> QED BY <1>4, <1>6, <3>1, <4>1, <4>2
    <3>2. CASE i - Len(stream) \in 1..n /\ stream'[i] = outgoing[i - Len(stream)]
      <4>1. CASE Head(outgoing).kind = "size" /\ n = 1
        BY <1>4, <2>1, <3>2, <4>1
      <4>2. ASSUME NEW r \in Results, NEW k \in 1..BodySize,
                   Head(outgoing).kind = "text", Head(outgoing).result = r,
                   (k + n) - 1 <= BodySize,
                   \A j \in 1..n : outgoing[j] = TextOf(r)[(k + j) - 1]
            PROVE  pieces'[stream'[i].result] >= 1
        <5>1. \A j \in 1..n : (k + j) - 1 \in 1..BodySize
          <6>1. BodySize \in Nat /\ n \in Nat
            BY <1>4
          <6>2. (k + n) - 1 <= BodySize
            BY <4>2
          <6> QED BY <6>1, <6>2
        <5>2. PICK j \in 1..n : stream'[i] = outgoing[j]
          BY <3>2
        <5>3. stream'[i] = TextOf(r)[(k + j) - 1] /\ (k + j) - 1 \in 1..BodySize
          BY <4>2, <5>1, <5>2
        <5>4. stream'[i].result = r
          BY <5>3, TextUnits
        <5> QED BY <1>4, <1>6, <4>2, <5>4
      <4> QED BY <1>5, <4>1, <4>2
    <3> QED BY <1>3, <3>1, <3>2
  <2> QED BY <2>1
<1>8. \A q \in Results : PiecesOf(q)' >= PiecesOf(q) /\ PiecesOf(q)' \in Nat /\ PiecesOf(q) \in Nat
  <2> TAKE q \in Results
  <2> DEFINE last == TextOf(q)[BodySize]
  <2>1. pieces[q] \in Nat /\ pieces'[q] \in Nat /\ pieces'[q] >= pieces[q]
    BY <1>4, <1>6
  <2>2. BodySize \in 1..BodySize /\ last.kind = "text" /\ last.result = q
    BY <1>4, TextUnits
  <2> HIDE DEF last
  <2>3. ASSUME NEW j \in 1..Len(outgoing), outgoing[j] = last
        PROVE  \/ \E i \in DOMAIN outgoing' : outgoing'[i] = last
               \/ pieces'[q] = pieces[q] + 1
    <3>1. CASE j \notin 1..n
      BY <1>3, <1>4, <2>3, <3>1
    <3>2. CASE j \in 1..n
      <4>1. CASE Head(outgoing).kind = "size" /\ n = 1
        BY <1>4, <2>2, <2>3, <3>2, <4>1
      <4>2. ASSUME NEW r \in Results, NEW k \in 1..BodySize,
                   Head(outgoing).kind = "text", Head(outgoing).result = r,
                   (k + n) - 1 <= BodySize,
                   \A i \in 1..n : outgoing[i] = TextOf(r)[(k + i) - 1]
            PROVE  pieces'[q] = pieces[q] + 1
        <5>1. (k + j) - 1 \in 1..BodySize
          BY <1>4, <3>2, <4>2
        <5>2. last = TextOf(r)[(k + j) - 1]
          BY <2>3, <3>2, <4>2
        <5>3. TextOf(r)[(k + j) - 1].result = r
          BY <5>1, TextUnits
        <5>4. r = q
          BY <2>2, <5>2, <5>3
        <5> QED BY <1>6, <4>2, <5>4
      <4> QED BY <1>5, <4>1, <4>2
    <3> QED BY <3>1, <3>2
  <2>4. CASE \E i \in DOMAIN outgoing : outgoing[i] = last
    <3>1. PiecesOf(q) = pieces[q] + 1
      BY <2>4 DEF PiecesOf, last
    <3>2. PiecesOf(q)' \in {pieces'[q], pieces'[q] + 1}
      BY <1>4, <1>6 DEF PiecesOf
    <3>3. (\E i \in DOMAIN outgoing' : outgoing'[i] = last) => PiecesOf(q)' = pieces'[q] + 1
      BY DEF PiecesOf, last
    <3>4. PICK i \in 1..Len(outgoing) : outgoing[i] = last
      BY <1>4, <2>4
    <3>5. PiecesOf(q)' = pieces'[q] + 1 \/ pieces'[q] = pieces[q] + 1
      BY <2>3, <3>3, <3>4
    <3> QED BY <2>1, <3>1, <3>2, <3>5
  <2>5. CASE ~\E i \in DOMAIN outgoing : outgoing[i] = last
    <3>1. PiecesOf(q) = pieces[q]
      BY <2>1, <2>5 DEF PiecesOf, last
    <3>2. PiecesOf(q)' \in {pieces'[q], pieces'[q] + 1}
      BY <2>1 DEF PiecesOf
    <3> QED BY <2>1, <3>1, <3>2
  <2> QED BY <2>4, <2>5
<1>9. DataFits' /\ TwoPiecesAreRead'
  BY <1>2, <1>8, DataStays
<1>10. HandlerAt(at)'
  BY <1>2, <1>3 DEF Place, HandlerAt
<1>11. ClientAt(at)'
  BY <1>2 DEF Place, ClientAt
<1>12. TextAt(at)'
  <2> SUFFICES ASSUME step = "text" PROVE TextAt(at)'
    BY <1>2 DEF TextAt
  <2>1. PICK r \in Results :
           /\ Reading(at, r)
           /\ \A i \in 1..Len(dataStr) : dataStr[i] = TextOf(r)[i]
           /\ toGet \in 1..(BodySize - Len(dataStr))
           /\ \/ dataStr = <<>> /\ toGet = BodySize
              \/ /\ toGet = BodySize - Len(dataStr)
                 /\ pieces[r] >= 1 /\ PiecesOf(r) >= 2
                 /\ stream # <<>> => pieces[r] >= 2
              \/ PiecesOf(r) >= 3
    BY DEF Place, TextAt
  <2>2. /\ pieces[r] \in Nat /\ pieces'[r] \in Nat /\ pieces'[r] >= pieces[r]
        /\ PiecesOf(r)' >= PiecesOf(r) /\ PiecesOf(r)' \in Nat /\ PiecesOf(r) \in Nat
    BY <1>4, <1>6, <1>8
  <2>3. pieces[r] >= 1 => (stream # <<>> \/ pieces'[r] >= 2)
    <3> SUFFICES ASSUME pieces[r] >= 1, stream = <<>> PROVE pieces'[r] >= 2
      OBVIOUS
    <3>1. Sending(at) = at /\ Len(dataStr) \in Nat /\ Start(r) \in {0, Accepted}
      BY <1>4 DEF Sending, Start, IInv, TypeOK
    <3>2. /\ Len(dataStr) + 1 \in 1..BodySize
          /\ Sending(at) = Start(r) + (Len(dataStr) + 1)
      BY <1>4, <2>1, <3>1 DEF Reading
    <3>3. outgoing[1] = TextOf(r)[Len(dataStr) + 1]
      <4>1. outgoing[1] = At((Sending(at) + 1) - 1)
        BY <1>1, <1>4 DEF Place, Section
      <4>2. (Sending(at) + 1) - 1 = Start(r) + (Len(dataStr) + 1)
        BY <1>4, <3>2
      <4> QED BY <3>2, <4>1, <4>2, Line
    <3>4. Head(outgoing).kind = "text" /\ Head(outgoing).result = r
      BY <1>4, <3>2, <3>3, TextUnits
    <3> QED BY <1>6, <2>2, <3>4
  <2>4. \/ dataStr = <<>> /\ toGet = BodySize
        \/ /\ toGet = BodySize - Len(dataStr)
           /\ pieces'[r] >= 1 /\ PiecesOf(r)' >= 2
           /\ stream' # <<>> => pieces'[r] >= 2
        \/ PiecesOf(r)' >= 3
    BY <2>1, <2>2, <2>3
  <2>5. Reading(at, r)'
    BY <1>2, <2>1 DEF Reading
  <2> QED BY <1>2, <2>1, <2>4, <2>5 DEF TextAt
<1>13. PiecesAt(at)'
  BY <1>2, <1>3, <1>6, <1>7 DEF PiecesAt
<1>14. MailAt(at)'
  BY <1>2, <1>3 DEF Place, MailAt
<1> QED BY <1>3, <1>6, <1>9, <1>10, <1>11, <1>12, <1>13, <1>14 DEF Place

-----------------------------------------------------------------------------
(* The invariant. *)

(* Types, by the side that takes the step. *)
LEMMA ClientTypes ==
    ASSUME IInv, Client
    PROVE  TypeOK'
<1>1. PICK at \in Nat : Place(at)
  BY DEF IInv
<1>2. /\ UNCHANGED <<server, texts, gone, held>>
      /\ typed' \in {typed, "nothing"}
  BY DEF Client, Login, Ask, ReadSize, SizeClosed, ReadText, Exit, CarryText, NothingTyped,
         CarryOutput, ClientKeeps, user
<1>3. /\ handler' \in {"pending", "accepts", "fails", "session", "closed"}
      /\ outgoing' \in Seq(Units) /\ pieces' \in [Results -> 0..BodySize]
      /\ written' \in Seq({"request", "text"}) /\ outputs' \in 0..MaxData
      /\ typed' \in {"nothing", "text", "exit"} /\ texts' \in 0..MaxTyped /\ gone' \in BOOLEAN
      /\ held' \in BOOLEAN
  BY <1>2 DEF IInv, TypeOK, server
<1>4. cut' \in Nat /\ refused' \in BOOLEAN
  <2>1. CASE CarryOutput
    <3>1. CASE Show
      <4>1. PICK n \in 1..Len(stream) : \E k \in 1..n : cut' = cut + (n - k)
        BY <3>1 DEF Show
      <4>2. cut' \in Nat
        BY <4>1 DEF IInv, TypeOK
      <4>3. refused' = refused
        BY <3>1 DEF Show
      <4> QED BY <4>2, <4>3 DEF IInv, TypeOK
    <3>2. CASE ~Show
      BY <2>1, <3>2 DEF CarryOutput, history, IInv, TypeOK
    <3> QED BY <3>1, <3>2
  <2>2. CASE ~CarryOutput
    BY <2>2 DEF Client, Login, Ask, ReadSize, SizeClosed, ReadText, Exit, CarryText,
                NothingTyped, ClientKeeps, history, IInv, TypeOK
  <2> QED BY <2>1, <2>2
<1>5. inbox' \in Seq({"request", "text"})
  <2>1. inbox' \in {inbox, Append(inbox, "request"), Append(inbox, "text")}
    BY DEF Client, Login, Ask, ReadSize, SizeClosed, ReadText, Exit, CarryText, NothingTyped,
           CarryOutput, ClientKeeps, user
  <2>2. inbox \in Seq({"request", "text"})
    BY DEF IInv, TypeOK
  <2>3. /\ Append(inbox, "request") \in Seq({"request", "text"})
        /\ Append(inbox, "text") \in Seq({"request", "text"})
    BY <2>2
  <2> QED BY <2>1, <2>2, <2>3
<1>6. CASE ReadSize
  <2>1. /\ step' = "text" /\ toGet' = BodySize /\ dataStr' = <<>> /\ screen' = screen
        /\ stream' = Tail(stream) /\ stream # <<>>
    BY <1>1, <1>6, ReadSizePlace DEF ReadSize
  <2>2. toGet' \in 0..BodySize /\ stream' \in Seq(Units) /\ dataStr' \in Seq(Units)
    BY <2>1, DirectAssumption DEF IInv, TypeOK
  <2> QED BY <1>3, <1>5, <1>4, <2>1, <2>2 DEF IInv, TypeOK
<1>7. CASE ReadText
  BY <1>1, <1>3, <1>5, <1>7, <1>4, ReadTextPlace DEF IInv, TypeOK, ReadText
<1>8. CASE CarryOutput
  <2>1. step' \in {"relay", "raised"} /\ toGet' = toGet /\ dataStr' = dataStr
    BY <1>8 DEF CarryOutput
  <2>2. screen' \in Seq(Units) /\ stream' \in Seq(Units)
    <3>1. CASE Show
      <4>1. PICK k \in 1..Len(stream) : screen' = screen \o SubSeq(stream, 1, k)
        <5>1. PICK n \in 1..Len(stream) :
                 \E k \in 1..n : screen' = screen \o SubSeq(stream, 1, k)
          BY <3>1 DEF Show
        <5>2. 1..n \subseteq 1..Len(stream)
          BY DEF IInv, TypeOK
        <5> QED BY <5>1, <5>2
      <4>2. SubSeq(stream, 1, k) \in Seq(Units) /\ screen \in Seq(Units)
        BY DEF IInv, TypeOK
      <4>3. stream' \in Seq(Units)
        BY <3>1, ShowReads DEF IInv
      <4> QED BY <4>1, <4>2, <4>3
    <3>2. CASE ~Show
      BY <1>8, <3>2 DEF CarryOutput, IInv, TypeOK
    <3> QED BY <3>1, <3>2
  <2> QED BY <1>3, <1>5, <1>4, <2>1, <2>2 DEF IInv, TypeOK
<1>9. CASE Login \/ Ask \/ SizeClosed \/ Exit \/ CarryText \/ NothingTyped
  <2>1. /\ toGet' = toGet /\ dataStr' = dataStr /\ screen' = screen /\ stream' = stream
        /\ step' \in {step, "raised", "ask", "size", "over", "output"}
    BY <1>9 DEF Login, Ask, SizeClosed, Exit, CarryText, NothingTyped
  <2> QED BY <1>3, <1>5, <1>4, <2>1 DEF IInv, TypeOK
<1> QED BY <1>6, <1>7, <1>8, <1>9 DEF Client

(* The handler, the port and the user. *)
LEMMA OtherTypes ==
    ASSUME IInv, \/ HandlerWorks \/ PortSends \/ Closes
                 \/ Type("text") \/ Type("exit") \/ Leave \/ HoldUp
    PROVE  TypeOK'
<1>1. PICK at \in Nat : Place(at)
  BY DEF IInv
<1>2. CASE HandlerWorks \/ PortSends \/ Closes
  <2>1. /\ step' = step /\ toGet' = toGet /\ dataStr' = dataStr /\ screen' = screen
        /\ typed' = typed /\ texts' = texts /\ gone' = gone /\ held' = held
        /\ cut' = cut /\ refused' = refused
    BY <1>2 DEF HandlerWorks, Answer, Send, Sent, Write, PortSends, Closes, HandlerKeeps,
                client, history, user
  <2>2. handler' \in {"pending", "accepts", "fails", "session", "closed"}
    BY <1>2 DEF HandlerWorks, Answer, Send, Sent, Write, PortSends, Closes, IInv, TypeOK
  <2>3. inbox' \in Seq({"request", "text"}) /\ written' \in Seq({"request", "text"})
    <3>1. /\ inbox' = inbox \/ (inbox # <<>> /\ inbox' = Tail(inbox))
          /\ \/ written' = written
             \/ inbox # <<>> /\ written' = Append(written, Head(inbox))
      BY <1>2 DEF HandlerWorks, Answer, Send, Sent, Write, PortSends, Closes
    <3>2. inbox \in Seq({"request", "text"}) /\ written \in Seq({"request", "text"})
      BY DEF IInv, TypeOK
    <3>3. inbox # <<>> => /\ Tail(inbox) \in Seq({"request", "text"})
                          /\ Head(inbox) \in {"request", "text"}
      BY <3>2
    <3>4. inbox # <<>> => Append(written, Head(inbox)) \in Seq({"request", "text"})
      BY <3>2, <3>3
    <3> QED BY <3>1, <3>2, <3>3, <3>4
  <2>4. /\ outgoing' \in Seq(Units) /\ stream' \in Seq(Units) /\ outputs' \in 0..MaxData
        /\ pieces' \in [Results -> 0..BodySize]
    <3>1. CASE Answer
      BY <3>1, AnswerSection DEF Answer, IInv, TypeOK
    <3>2. CASE Send
      BY <1>1, <3>2, SendPlace DEF Send, IInv, TypeOK
    <3>3. CASE Sent \/ Write \/ Closes
      BY <3>3 DEF Sent, Write, Closes, IInv, TypeOK
    <3>4. CASE PortSends
      <4>1. /\ outputs' = outputs + 1 /\ outputs < MaxData /\ pieces' = pieces
            /\ outgoing' = outgoing /\ stream' = Append(stream, Output(outputs + 1))
        BY <3>4 DEF PortSends
      <4>2. outputs + 1 \in 1..MaxData
        BY <4>1, DirectAssumption DEF IInv, TypeOK
      <4>3. Output(outputs + 1) \in Units
        BY <4>2 DEF Units
      <4> QED BY <4>1, <4>2, <4>3 DEF IInv, TypeOK
    <3> QED BY <1>2, <3>1, <3>2, <3>3, <3>4 DEF HandlerWorks
  <2> QED BY <2>1, <2>2, <2>3, <2>4 DEF IInv, TypeOK
<1>3. CASE Type("text") \/ Type("exit") \/ Leave \/ HoldUp
  <2>1. /\ UNCHANGED <<client, server, stream, inbox>>
        /\ typed' \in {typed, "text", "exit"}
        /\ texts' = texts \/ (texts < MaxTyped /\ texts' = texts + 1)
        /\ gone' \in {gone, TRUE} /\ held' \in {held, TRUE}
    BY <1>3 DEF Type, Leave, HoldUp
  <2>2. texts' \in 0..MaxTyped
    BY <2>1, DirectAssumption DEF IInv, TypeOK
  <2> QED BY <2>1, <2>2 DEF IInv, TypeOK, client, history, server
<1> QED BY <1>2, <1>3

(* Only the steps that show output change the screen.                      *)
LEMMA ScreenStays ==
    ASSUME IInv, [Next]_vars, ~(CarryOutput /\ stream' # stream)
    PROVE  ScreenFits'
<1>1. CarryOutput => ~Show
  BY ShowReads DEF IInv
<1>2. /\ screen' = screen /\ cut' = cut
      /\ step' \in {"login", "ask", "size", "text"} => step \in {"login", "ask", "size", "text"}
  <2>1. CASE Client
    BY <1>1, <2>1 DEF Client, Login, Ask, ReadSize, SizeClosed, ReadText, Exit, CarryText,
                      NothingTyped, CarryOutput, ClientKeeps, history
  <2>2. CASE ~Client
    <3>1. UNCHANGED client
      BY <2>2 DEF Next, vars, HandlerWorks, Answer, Send, Sent, Write, PortSends, Closes,
                  HandlerKeeps, Type, Leave, HoldUp
    <3> QED BY <3>1 DEF client, history
  <2> QED BY <2>1, <2>2
<1> QED BY <1>2 DEF IInv, ScreenFits

(* A request that is sent behind an answer is one of a client that has     *)
(* read a refusal: nothing else leads back to asking while the handler is  *)
(* there.                                                                  *)
LEMMA RefusalStays == ASSUME IInv, [Next]_vars PROVE RefusalFits'
<1>1. PICK at \in Nat : Place(at)
  BY DEF IInv
<1>2. inbox \in Seq({"request", "text"}) /\ written \in Seq({"request", "text"})
  BY DEF IInv, TypeOK
<1>3. handler = "pending" => step \in {"login", "ask", "size", "raised"}
  BY <1>1 DEF Place, HandlerAt
<1>4. CASE Client
  <2>1. /\ handler' = handler /\ written' = written /\ (refused => refused')
        /\ inbox' \in {inbox, Append(inbox, "text")} \/ Ask
    <3>1. CASE ReadText
      BY <3>1 DEF ReadText, ClientKeeps, server
    <3>2. CASE ~ReadText
      BY <1>4, <3>2 DEF Client, Login, Ask, ReadSize, SizeClosed, Exit, CarryText, NothingTyped,
                        CarryOutput, Show, ClientKeeps, server, history
    <3> QED BY <3>1, <3>2
  <2>2. Answering /\ step' \in {"login", "ask"} => refused'
    <3>1. CASE ReadText
      BY <3>1 DEF ReadText, Parsed
    <3>2. CASE ~ReadText
      <4>1. step' \in {"login", "ask"} => step \in {"login", "ask"} \/ handler = "closed"
        BY <1>4, <3>2 DEF Client, Login, Ask, ReadSize, SizeClosed, Exit, CarryText,
                          NothingTyped, CarryOutput
      <4> QED BY <2>1, <4>1 DEF Answering, IInv, RefusalFits
    <3> QED BY <3>1, <3>2
  <2>3. Answering => \A i \in 1..Len(inbox') : inbox'[i] = "request" => refused'
    <3>1. CASE Ask
      BY <2>1, <3>1 DEF Ask, IInv, RefusalFits
    <3>2. CASE inbox' = inbox
      BY <2>1, <3>2 DEF IInv, RefusalFits
    <3>3. CASE inbox' = Append(inbox, "text")
      <4>1. \A i \in 1..Len(inbox') : inbox'[i] = "request" =>
               i \in 1..Len(inbox) /\ inbox[i] = "request"
        BY <1>2, <3>3, "request" # "text"
      <4> QED BY <2>1, <4>1 DEF IInv, RefusalFits
    <3> QED BY <2>1, <3>1, <3>2, <3>3
  <2> QED BY <2>1, <2>2, <2>3 DEF IInv, RefusalFits, Answering
<1>5. CASE Answer
  <2>1. /\ handler = "pending" /\ inbox # <<>> /\ inbox' = Tail(inbox) /\ written' = written
        /\ step' = step /\ refused' = refused
    BY <1>5 DEF Answer, HandlerKeeps, client, history
  <2>2. step = "size" /\ inbox = <<"request">>
    BY <1>1, <2>1 DEF Place, MailAt
  <2>3. inbox' = <<>>
    BY <2>1, <2>2
  <2> QED BY <2>1, <2>2, <2>3 DEF IInv, RefusalFits
<1>6. CASE Write
  <2>1. /\ handler = "session" /\ handler' = handler /\ inbox # <<>> /\ inbox' = Tail(inbox)
        /\ written' \in {written, Append(written, Head(inbox))}
        /\ step' = step /\ refused' = refused
    BY <1>6 DEF Write, HandlerKeeps, client, history
  <2>2. \A i \in 1..Len(inbox') : i + 1 \in 1..Len(inbox) /\ inbox'[i] = inbox[i + 1]
    BY <1>2, <2>1
  <2>3. 1 \in 1..Len(inbox) /\ Head(inbox) = inbox[1]
    BY <1>2, <2>1
  <2>4. \A i \in 1..Len(written') :
           \/ i \in 1..Len(written) /\ written'[i] = written[i]
           \/ written'[i] = inbox[1]
    BY <1>2, <2>1, <2>3
  <2> QED BY <2>1, <2>2, <2>3, <2>4 DEF IInv, RefusalFits, Answering
<1>7. CASE Send \/ Sent \/ PortSends \/ Closes \/ Type("text") \/ Type("exit") \/ Leave
           \/ HoldUp \/ UNCHANGED vars
  <2>1. /\ inbox' = inbox /\ written' = written /\ step' = step /\ refused' = refused
        /\ Answering' => Answering
    BY <1>7 DEF Send, Sent, PortSends, Closes, Type, Leave, HoldUp, HandlerKeeps, vars,
                client, history, server, Answering
  <2> QED BY <2>1 DEF IInv, RefusalFits
<1> QED BY <1>4, <1>5, <1>6, <1>7 DEF Next, HandlerWorks

(* Every step leads from a place on the line to a place on the line. *)
LEMMA StepPlace == IInv /\ [Next]_vars => IInv'
<1> SUFFICES ASSUME IInv, [Next]_vars PROVE IInv'
  OBVIOUS
<1>1. PICK at \in Nat : Place(at)
  BY DEF IInv
<1>2. RefusalFits' /\ (~(CarryOutput /\ stream' # stream) => ScreenFits')
  BY RefusalStays, ScreenStays
<1>3. CASE Client
  <2>1. TypeOK'
    BY <1>3, ClientTypes
  <2>2. CASE ReadSize \/ ReadText
    <3>1. ~CarryOutput
      BY <2>2 DEF ReadSize, ReadText, CarryOutput
    <3> QED BY <1>1, <1>2, <2>1, <2>2, <3>1, ReadSizePlace, ReadTextPlace DEF IInv
  <2>3. CASE CarryOutput /\ stream' # stream
    BY <1>1, <1>2, <2>1, <2>3, ShowPlace DEF IInv
  <2>4. CASE \/ Login \/ Ask \/ SizeClosed \/ Exit \/ CarryText \/ NothingTyped
             \/ CarryOutput /\ stream' = stream
    <3>1. ~(CarryOutput /\ stream' # stream)
      BY <2>4 DEF Login, Ask, SizeClosed, Exit, CarryText, NothingTyped, CarryOutput
    <3> QED BY <1>1, <1>2, <2>1, <2>4, <3>1, QuietClient DEF IInv
  <2> QED BY <1>3, <2>2, <2>3, <2>4 DEF Client
<1>4. CASE HandlerWorks \/ PortSends \/ Closes
  <2>1. TypeOK' /\ ~CarryOutput
    <3>1. step' = step
      BY <1>4 DEF HandlerWorks, Answer, Send, Sent, Write, PortSends, Closes, HandlerKeeps, client
    <3>2. CarryOutput => step' # step
      BY DEF CarryOutput
    <3> QED BY <1>4, <3>1, <3>2, OtherTypes
  <2>2. CASE Answer
    BY <1>1, <1>2, <2>1, <2>2, AnswerPlace DEF IInv
  <2>3. CASE Send
    BY <1>1, <1>2, <2>1, <2>3, SendPlace DEF IInv
  <2>4. CASE PortSends
    BY <1>1, <1>2, <2>1, <2>4, PortSendsPlace DEF IInv
  <2>5. CASE Sent \/ Write \/ Closes
    BY <1>1, <1>2, <2>1, <2>5, QuietHandler DEF IInv
  <2> QED BY <1>4, <2>2, <2>3, <2>4, <2>5 DEF HandlerWorks
<1>5. CASE Type("text") \/ Type("exit") \/ Leave \/ HoldUp
  <2>1. stream' = stream
    BY <1>5 DEF Type, Leave, HoldUp
  <2> QED BY <1>1, <1>5, <1>2, <2>1, OtherTypes, QuietClient DEF IInv
<1>6. CASE UNCHANGED vars
  <2>1. TypeOK' /\ DataFits' /\ TwoPiecesAreRead'
    BY <1>6 DEF vars, client, history, server, user, IInv, TypeOK, DataFits,
                TwoPiecesAreRead, PiecesOf
  <2>2. Place(at)'
    BY <1>1, <1>6
    DEF vars, client, history, server, user, Place, Section, Sending, Ending, HandlerAt,
        ClientAt, TextAt, Reading, PiecesOf, PiecesAt, MailAt
  <2>3. stream' = stream
    BY <1>6 DEF vars
  <2> QED BY <1>1, <1>2, <2>1, <2>2, <2>3 DEF IInv
<1> QED BY <1>3, <1>4, <1>5, <1>6 DEF Next

(* The types, what has been read, and the place on the line (At) that says *)
(* what stands between the handler and the client.                         *)
THEOREM DirectInvariant == Spec => []IInv
  BY InitPlace, StepPlace, PTL DEF Spec

(* The client never takes what comes next for the text of this reply, nor  *)
(* a text for a size, however the socket cuts the texts                    *)
(* (_receive_uds_socket_reply_data): it always stands where a reply or a   *)
(* piece of output starts, or inside the one text it is reading.           *)
THEOREM InStep == Spec => []StaysInStep
<1>1. IInv => StaysInStep
  <2> SUFFICES ASSUME IInv PROVE StaysInStep
    OBVIOUS
  <2>1. PICK at \in Nat : Place(at)
    BY DEF IInv
  <2>2. \A i \in DOMAIN dataStr : dataStr[i].kind = "text" /\ dataStr[i].number = i
    <3>1. PICK r \in Results : \A i \in 1..Len(dataStr) : dataStr[i] = TextOf(r)[i]
      BY DEF IInv, DataFits
    <3>2. DOMAIN dataStr = 1..Len(dataStr) /\ 1..Len(dataStr) \subseteq 1..BodySize
      BY DirectAssumption DEF IInv, TypeOK, DataFits
    <3> QED BY <3>1, <3>2, TextUnits
  <2>3. ASSUME step \in {"ask", "size", "relay", "output"}, stream # <<>>
        PROVE  Head(stream).kind # "text"
    <3>1. 1 \in 1..Len(stream) /\ Head(stream) = stream[1] /\ (at + 1) - 1 = at
      BY <2>3 DEF IInv, TypeOK
    <3>2. Head(stream) = At(at)
      BY <2>1, <3>1 DEF Place, Section
    <3>3. at \in {0, Accepted} \/ at >= Session
      BY <2>1, <2>3, DirectAssumption DEF Place, ClientAt, IInv, TypeOK, Accepted, Session
    <3> QED BY <3>2, <3>3, LineKinds
  <2> QED BY <2>2, <2>3 DEF StaysInStep, IInv
<1> QED BY <1>1, DirectInvariant, PTL

(* The user has been sent pieces of the output of the port in their order, *)
(* none twice and no reply, and what has come and is neither on the screen *)
(* nor in the stream has been cut off by a send: no piece stands further   *)
(* behind its place than that many (_handle_console_server_data).          *)
THEOREM ScreenShowsOutput == Spec => []ScreenIsOutput
<1>1. IInv => ScreenIsOutput
  <2> SUFFICES ASSUME IInv PROVE ScreenIsOutput
    OBVIOUS
  <2>1. PICK at \in Nat : Place(at)
    BY DEF IInv
  <2>2. DOMAIN screen = 1..Len(screen)
    BY DEF IInv, TypeOK
  <2>3. ASSUME step \in {"relay", "output"}
        PROVE  Len(screen) + cut + Len(stream) = outputs
    <3>1. /\ BodySize \in Nat \ {0} /\ Accepted = BodySize + 1 /\ Session = 2 * BodySize + 2
          /\ Len(stream) \in Nat /\ Len(outgoing) \in Nat /\ Len(screen) \in Nat
          /\ cut \in Nat /\ outputs \in Nat /\ (outgoing = <<>> => Len(outgoing) = 0)
      BY DirectAssumption DEF IInv, TypeOK, Accepted, Session
    <3>2. Ending(at) = ((Session + (Len(screen) + cut)) + Len(stream)) + Len(outgoing)
      BY <2>1, <2>3 DEF Place, ClientAt, Ending, Sending
    <3>3. /\ handler \in {"accepts", "fails", "session", "closed"}
          /\ handler = "accepts" => Ending(at) = Session /\ outputs = 0
          /\ handler = "fails" => Ending(at) = Accepted
          /\ handler = "session" => Ending(at) = Session + outputs /\ outgoing = <<>>
          /\ handler = "closed" => Ending(at) \in {Accepted, Session + outputs} /\ outgoing = <<>>
      BY <2>1, <2>3 DEF IInv, TypeOK, Place, HandlerAt
    <3> QED BY <3>1, <3>2, <3>3
  <2> QED BY <2>2, <2>3 DEF ScreenIsOutput, IInv, ScreenFits
<1> QED BY <1>1, DirectInvariant, PTL

(* The loop of _receive_uds_socket_reply_data ends the listener on a text  *)
(* that is cut short only if the socket has taken the text in three pieces *)
(* or more, whatever the sizes of the pieces and of the text.              *)
THEOREM TwoPiecesSuffice == Spec => []TwoPiecesAreRead
<1>1. IInv => TwoPiecesAreRead
  BY DEF IInv
<1> QED BY <1>1, DirectInvariant, PTL

(* A request reaches the serial port as typed text only if the client has  *)
(* read a refusal and has asked again, and then it is the first thing that *)
(* is written, once (_connect_serial_port, _socket_data_handle).           *)
THEOREM RequestsAreText == Spec => []RequestsAreTextOnlyOnceRefused
<1>1. IInv => RequestsAreTextOnlyOnceRefused
  <2> SUFFICES ASSUME IInv, NEW j \in DOMAIN written, written[j] = "request"
               PROVE  /\ refused
                      /\ written[1] = "request"
                      /\ \A i \in 2..Len(written) : written[i] = "text"
                      /\ step \notin {"login", "ask"}
    BY DEF RequestsAreTextOnlyOnceRefused
  <2>1. PICK at \in Nat : Place(at)
    BY DEF IInv
  <2>2. written \in Seq({"request", "text"})
    BY DEF IInv, TypeOK
  <2>3. j = 1 /\ written # <<>>
    BY <2>1, <2>2 DEF Place, MailAt
  <2>4. \A i \in 2..Len(written) : written[i] = "text"
    BY <2>1, <2>2 DEF Place, MailAt
  <2>5. refused
    BY <2>2, <2>3 DEF IInv, RefusalFits
  <2> QED BY <2>1, <2>3, <2>4, <2>5 DEF Place, MailAt
<1> QED BY <1>1, DirectInvariant, PTL

=============================================================================
