------------------------------- MODULE SshProofs -------------------------------
(***************************************************************************)
(* Theorems about an SSH listener and its workers, for any number of       *)
(* ports, workers and sessions.                                            *)
(*                                                                         *)
(* The argument is one inductive invariant of three parts: where the       *)
(* thread of a session can stand under each of its flags (Stages), who has *)
(* the session (OneOwner, and the queue of each worker), and what becomes  *)
(* of the sessions that the listener has accepted (ForgottenAreClosed).    *)
(***************************************************************************)
EXTENDS SshProperties, SequenceTheorems, TLAPS

(* What the flags of a session say about its thread. *)
Stages ==
    \A s \in Sessions :
        /\ thread[s] = "none" <=> s > accepted
        /\ s \in complete \cup clear => thread[s] \in {"building", "over"}
        /\ s \in complete /\ thread[s] = "over" => s \in built
        /\ s \in shutdown => s \in complete
        /\ closes[s] = IF s \in clear THEN 1 ELSE 0

SshInv == OneOwner /\ Stages /\ ForgottenAreClosed

-----------------------------------------------------------------------------
(* Data *)

LEMMA Bounds ==
    /\ NumWorkers \in Nat \ {0} /\ Workers = 0..(NumWorkers - 1)
    /\ PasswordSessions \in Nat /\ Sessions = 1..PasswordSessions
    /\ NumPorts \in Nat \ {0}
    /\ MaxSessions \in Nat /\ MaxSessions <= PasswordSessions
BY SshAssumption DEF Workers, Sessions, NumPorts, MaxSessions

(* A sequence without its i-th element. *)
LEMMA RemoveAtKeeps ==
    ASSUME NEW S, NEW q \in Seq(S), NEW i \in 1..Len(q)
    PROVE  /\ RemoveAt(q, i) \in Seq(S)
           /\ \A x \in ToSet(q) : x # q[i] => x \in ToSet(RemoveAt(q, i))
<1> DEFINE front == SubSeq(q, 1, i - 1)
           back  == SubSeq(q, i + 1, Len(q))
<1>1. Len(q) \in Nat /\ DOMAIN q = 1..Len(q) /\ \A j \in 1..Len(q) : q[j] \in S
  BY LenProperties, ElementOfSeq
<1>2. /\ front \in Seq(S) /\ Len(front) = i - 1
      /\ \A j \in 1..(i - 1) : front[j] = q[j]
  <2>1. \A j \in 1..(i - 1) : q[j] \in S
    BY <1>1
  <2>2. /\ front \in Seq(S)
        /\ Len(front) = IF 1 <= i - 1 THEN i - 1 - 1 + 1 ELSE 0
        /\ \A j \in 1..(i - 1 - 1 + 1) : front[j] = q[1 + j - 1]
    BY <1>1, <2>1, SubSeqProperties
  <2> HIDE DEF front
  <2> QED BY <1>1, <2>2
<1>3. /\ back \in Seq(S) /\ Len(back) = Len(q) - i
      /\ \A j \in 1..(Len(q) - i) : back[j] = q[i + j]
  <2>1. \A j \in (i + 1)..Len(q) : q[j] \in S
    BY <1>1
  <2>2. /\ back \in Seq(S)
        /\ Len(back) = IF i + 1 <= Len(q) THEN Len(q) - (i + 1) + 1 ELSE 0
        /\ \A j \in 1..(Len(q) - (i + 1) + 1) : back[j] = q[i + 1 + j - 1]
    BY <1>1, <2>1, SubSeqProperties
  <2> HIDE DEF back
  <2>3. \A j \in 1..(Len(q) - i) : j \in 1..(Len(q) - (i + 1) + 1) /\ i + 1 + j - 1 = i + j
    BY <1>1
  <2>4. Len(back) = Len(q) - i
    <3>1. Len(back) = IF i + 1 <= Len(q) THEN Len(q) - (i + 1) + 1 ELSE 0
      BY <2>2
    <3>2. Len(q) \in Nat /\ i \in 1..Len(q)
      BY <1>1
    <3> QED BY <3>1, <3>2
  <2> QED BY <2>2, <2>3, <2>4
<1>4. RemoveAt(q, i) = front \o back
  BY DEF RemoveAt
<1> HIDE DEF front, back
<1>5. /\ front \o back \in Seq(S)
      /\ Len(front \o back) = Len(q) - 1
      /\ \A j \in 1..(Len(q) - 1) :
            (front \o back)[j] = IF j < i THEN q[j] ELSE q[j + 1]
  <2>1. /\ front \o back \in Seq(S)
        /\ Len(front \o back) = Len(front) + Len(back)
        /\ \A j \in 1..(Len(front) + Len(back)) :
              (front \o back)[j] = IF j <= Len(front) THEN front[j] ELSE back[j - Len(front)]
    BY <1>2, <1>3, ConcatProperties
  <2>2. Len(front) + Len(back) = Len(q) - 1
    BY <1>1, <1>2, <1>3
  <2>3. ASSUME NEW j \in 1..(Len(q) - 1)
        PROVE  (front \o back)[j] = IF j < i THEN q[j] ELSE q[j + 1]
    <3>1. CASE j < i
      BY <1>1, <1>2, <2>1, <2>2, <3>1
    <3>2. CASE j >= i
      <4>1. j - (i - 1) \in 1..(Len(q) - i)
        BY <1>1, <3>2
      <4>2. back[j - (i - 1)] = q[i + (j - (i - 1))] /\ i + (j - (i - 1)) = j + 1
        BY <1>1, <1>3, <4>1
      <4>3. ~(j <= i - 1) /\ ~(j < i) /\ j \in 1..(Len(front) + Len(back))
        BY <1>1, <2>2, <3>2
      <4>4. (front \o back)[j] = back[j - (i - 1)]
        BY <1>2, <2>1, <4>3
      <4>5. (front \o back)[j] = q[j + 1]
        BY <4>2, <4>4
      <4> QED BY <4>3, <4>5
    <3>3. j < i \/ j >= i
      <4>1. Len(q) \in Nat
        BY <1>1
      <4> QED BY <4>1
    <3> QED BY <3>1, <3>2, <3>3
  <2> QED BY <2>1, <2>2, <2>3
<1>6. ASSUME NEW x \in ToSet(q), x # q[i] PROVE x \in ToSet(front \o back)
  <2>1. PICK j \in 1..Len(q) : x = q[j] /\ j # i
    BY <1>1, <1>6 DEF ToSet
  <2>2. DOMAIN (front \o back) = 1..(Len(q) - 1)
    <3>1. DOMAIN (front \o back) = 1..Len(front \o back)
      BY <1>5, LenProperties
    <3>2. Len(front \o back) = Len(q) - 1
      BY <1>5
    <3> QED BY <3>1, <3>2
  <2>3. CASE j < i
    <3>1. j \in 1..(Len(q) - 1)
      BY <1>1, <2>3
    <3> QED BY <1>5, <2>1, <2>2, <2>3, <3>1 DEF ToSet
  <2>4. CASE j > i
    <3>1. j - 1 \in 1..(Len(q) - 1) /\ ~(j - 1 < i) /\ (j - 1) + 1 = j
      BY <1>1, <2>1, <2>4
    <3> QED BY <1>5, <2>1, <2>2, <3>1 DEF ToSet
  <2> QED BY <1>1, <2>1, <2>3, <2>4
<1> QED BY <1>4, <1>5, <1>6

(* A sequence with one more element. *)
LEMMA AppendKeeps ==
    ASSUME NEW S, NEW q \in Seq(S), NEW e \in S
    PROVE  /\ Append(q, e) \in Seq(S)
           /\ Len(Append(q, e)) = Len(q) + 1
           /\ DOMAIN Append(q, e) = 1..(Len(q) + 1) /\ DOMAIN q = 1..Len(q)
           /\ \A j \in 1..Len(q) : Append(q, e)[j] = q[j]
           /\ Append(q, e)[Len(q) + 1] = e
           /\ ToSet(Append(q, e)) = ToSet(q) \cup {e}
<1>1. /\ Append(q, e) \in Seq(S)
      /\ Len(Append(q, e)) = Len(q) + 1 /\ Len(q) \in Nat
      /\ DOMAIN Append(q, e) = 1..(Len(q) + 1) /\ DOMAIN q = 1..Len(q)
      /\ \A j \in 1..Len(q) : Append(q, e)[j] = q[j]
      /\ Append(q, e)[Len(q) + 1] = e
  OBVIOUS
<1>2. 1..(Len(q) + 1) = 1..Len(q) \cup {Len(q) + 1}
  BY <1>1
<1> QED BY <1>1, <1>2 DEF ToSet

-----------------------------------------------------------------------------
(* What most steps leave alone *)

(* A step that hands no session over. *)
LEMMA OwnersKept ==
    ASSUME OneOwner, TypeOK', UNCHANGED <<tasks, inQueue>>, built \subseteq built'
    PROVE  OneOwner'
BY DEF OneOwner

(* A step that accepts and forgets no session: a closed connection stays   *)
(* closed, and a thread that is over stays over.                           *)
LEMMA ForgottenKept ==
    ASSUME ForgottenAreClosed, UNCHANGED <<auth, handlers, accepted>>,
           at' = at \/ at \notin {"accepted", "ended"} \/ at' = "ended",
           clear \subseteq clear',
           \A s \in 1..accepted : thread[s] = "over" => thread'[s] = "over"
    PROVE  ForgottenAreClosed'
BY DEF ForgottenAreClosed, NumPorts

LEMMA PortsKept ==
    ASSUME auth' = auth
    PROVE  NumPorts' = NumPorts /\ MaxSessions' = MaxSessions
BY DEF NumPorts, MaxSessions

(* A step of the workers or of a session's thread keeps the listener's     *)
(* variables, and their types.                                             *)
ListenerType ==
    /\ auth \in {"password", "none"}
    /\ at \in Places
    /\ port \in 1..NumPorts
    /\ handlers \in [1..NumPorts -> Seq(Sessions)]
    /\ cursor \in (1..NumPorts) \X (Nat \ {0})
    /\ at = "visit" => cursor[2] <= Len(handlers[cursor[1]])
    /\ accepted \in 0..MaxSessions
    /\ at = "accepted" => accepted # 0

FlagsType ==
    /\ thread \in [Sessions -> {"none", "connecting", "verifying", "building", "over"}]
    /\ running \subseteq Sessions /\ complete \subseteq Sessions
    /\ shutdown \subseteq Sessions /\ clear \subseteq Sessions
    /\ inQueue \subseteq Sessions /\ built \subseteq Sessions
    /\ refused \subseteq Sessions
    /\ closes \in [Sessions -> Nat]

WorkersType ==
    /\ tasks \in [Workers -> Seq(Sessions)]
    /\ place \in [Workers -> Nat \ {0}]
    /\ \A w \in Workers : place[w] <= Len(tasks[w]) + 1
    /\ halted \subseteq Workers
    /\ next \in Workers

LEMMA TypeParts ==
    /\ TypeOK  <=> ListenerType /\ FlagsType /\ WorkersType
    /\ TypeOK' <=> ListenerType' /\ FlagsType' /\ WorkersType'
BY DEF TypeOK, ListenerType, FlagsType, WorkersType

LEMMA ListenerTypeKept ==
    ASSUME ListenerType, UNCHANGED listener
    PROVE  ListenerType'
BY PortsKept DEF ListenerType, listener

LEMMA WorkersTypeKept ==
    ASSUME WorkersType, UNCHANGED workers
    PROVE  WorkersType'
BY DEF WorkersType, workers

-----------------------------------------------------------------------------
(* The thread of a session *)

LEMMA ThreadFlags ==
    ASSUME FlagsType, Stages, NEW s \in Sessions, SessionThread(s)
    PROVE  /\ FlagsType' /\ Stages'
           /\ built \subseteq built' /\ clear \subseteq clear'
           /\ \A t \in Sessions : thread[t] = "over" => thread'[t] = "over"
           /\ UNCHANGED <<listener, inQueue, workers>>
<1> USE DEF FlagsType, ThreadGoes, CloseClient
<1>1. CASE NoTransport(s)
  BY <1>1 DEF NoTransport, Stages, listener
<1>2. CASE NoChannel(s)
  BY <1>2 DEF NoChannel, Stages, listener
<1>3. CASE OpenChannel(s)
  BY <1>3 DEF OpenChannel, Stages, listener
<1>4. CASE Verified(s)
  BY <1>4 DEF Verified, Stages, listener
<1>5. CASE NotVerified(s)
  BY <1>5 DEF NotVerified, Stages, listener
<1>6. CASE BuildMenu(s)
  BY <1>6 DEF BuildMenu, Stages, listener
<1> QED BY <1>1, <1>2, <1>3, <1>4, <1>5, <1>6 DEF SessionThread

LEMMA ThreadStep ==
    ASSUME SshInv, NEW s \in Sessions, SessionThread(s)
    PROVE  SshInv'
<1>1. ListenerType /\ FlagsType /\ WorkersType
  BY TypeParts DEF SshInv, OneOwner
<1>2. /\ FlagsType' /\ Stages'
      /\ built \subseteq built' /\ clear \subseteq clear'
      /\ \A t \in Sessions : thread[t] = "over" => thread'[t] = "over"
      /\ UNCHANGED <<listener, inQueue, workers>>
  BY <1>1, ThreadFlags DEF SshInv
<1>3. TypeOK'
  BY <1>1, <1>2, ListenerTypeKept, WorkersTypeKept, TypeParts
<1>4. OneOwner'
  BY <1>2, <1>3, OwnersKept DEF SshInv, workers
<1>5. ForgottenAreClosed'
  <2>1. 1..accepted \subseteq Sessions
    BY <1>1, Bounds DEF ListenerType
  <2> QED BY <1>2, <2>1, ForgottenKept DEF SshInv, listener
<1> QED BY <1>2, <1>4, <1>5 DEF SshInv

-----------------------------------------------------------------------------
(* A visit *)

(* What a visit to s does, whoever makes it. *)
VisitFlags(s) ==
    /\ \/ UNCHANGED <<shutdown, clear, closes>>
       \/ s \in complete /\ shutdown' = shutdown \cup {s} /\ UNCHANGED <<clear, closes>>
       \/ s \in shutdown \ clear /\ CloseClient(s) /\ UNCHANGED shutdown
    /\ UNCHANGED <<accepted, thread, refused, running, complete, inQueue, built>>

LEMMA VisitKeepsFlags ==
    ASSUME FlagsType, Stages, NEW s \in Sessions, VisitFlags(s)
    PROVE  FlagsType' /\ Stages' /\ clear \subseteq clear'
<1> USE DEF FlagsType, VisitFlags
<1>1. CASE UNCHANGED <<shutdown, clear, closes>>
  BY <1>1 DEF Stages
<1>2. CASE s \in complete /\ shutdown' = shutdown \cup {s} /\ UNCHANGED <<clear, closes>>
  BY <1>2 DEF Stages
<1>3. CASE s \in shutdown \ clear /\ CloseClient(s) /\ UNCHANGED shutdown
  BY <1>3 DEF Stages, CloseClient
<1> QED BY <1>1, <1>2, <1>3

LEMMA WorkStep ==
    ASSUME SshInv, NEW w \in Workers, Work(w)
    PROVE  SshInv'
<1> DEFINE s == tasks[w][place[w]]
<1>1. ListenerType /\ FlagsType /\ WorkersType
  BY TypeParts DEF SshInv, OneOwner
<1>2. s \in Sessions
  <2>1. tasks[w] \in Seq(Sessions) /\ place[w] \in 1..Len(tasks[w])
    BY <1>1 DEF Work, RoundOver, WorkersType
  <2> QED BY <2>1, ElementOfSeq
<1>3. /\ VisitFlags(s)
      /\ \/ place' = [place EXCEPT ![w] = @ + 1] /\ UNCHANGED halted
         \/ place' = [place EXCEPT ![w] = 1] /\ UNCHANGED halted
         \/ halted' = halted \cup {w} /\ UNCHANGED place
  BY DEF Work, Visit, RunMenu, CloseShutdown, PassBy, Ready, VisitFlags, listener
<1>4. UNCHANGED <<listener, tasks, next, thread, inQueue, built>>
  BY DEF Work
<1>5. FlagsType' /\ Stages' /\ clear \subseteq clear'
  BY <1>1, <1>2, <1>3, VisitKeepsFlags DEF SshInv
<1>6. WorkersType'
  <2>1. place[w] + 1 \in Nat \ {0} /\ place[w] + 1 <= Len(tasks[w]) + 1
        /\ 1 <= Len(tasks[w]) + 1
    BY <1>1 DEF Work, RoundOver, WorkersType
  <2>2. tasks' = tasks /\ next' = next
    BY <1>4
  <2>3. CASE place' = [place EXCEPT ![w] = @ + 1] /\ UNCHANGED halted
    BY <1>1, <2>1, <2>2, <2>3 DEF WorkersType
  <2>4. CASE place' = [place EXCEPT ![w] = 1] /\ UNCHANGED halted
    BY <1>1, <2>1, <2>2, <2>4 DEF WorkersType
  <2>5. CASE halted' = halted \cup {w} /\ UNCHANGED place
    BY <1>1, <2>2, <2>5 DEF WorkersType
  <2> QED BY <1>3, <2>3, <2>4, <2>5
<1>7. TypeOK'
  BY <1>1, <1>4, <1>5, <1>6, ListenerTypeKept, TypeParts
<1>8. OneOwner'
  BY <1>4, <1>7, OwnersKept DEF SshInv
<1>9. ForgottenAreClosed'
  BY <1>4, <1>5, ForgottenKept DEF SshInv, listener
<1> QED BY <1>5, <1>8, <1>9 DEF SshInv

LEMMA RestStep ==
    ASSUME SshInv, NEW w \in Workers, Rest(w)
    PROVE  SshInv'
<1>1. ListenerType /\ FlagsType /\ WorkersType
  BY TypeParts DEF SshInv, OneOwner
<1>2. UNCHANGED <<listener, thread, refused, flags, tasks, halted, next, closes>>
  BY DEF Rest
<1>3. FlagsType' /\ Stages'
  BY <1>1, <1>2 DEF SshInv, FlagsType, Stages, flags, listener
<1>4. WorkersType'
  <2>1. 1 <= Len(tasks[w]) + 1
    BY <1>1 DEF WorkersType
  <2> QED BY <1>1, <1>2, <2>1 DEF Rest, WorkersType
<1>5. TypeOK'
  BY <1>1, <1>2, <1>3, <1>4, ListenerTypeKept, TypeParts
<1>6. OneOwner'
  BY <1>2, <1>5, OwnersKept DEF SshInv, flags
<1>7. ForgottenAreClosed'
  BY <1>2, ForgottenKept DEF SshInv, listener, flags
<1> QED BY <1>3, <1>6, <1>7 DEF SshInv

(* The state a menu depends on. *)
LEMMA MenuStep ==
    ASSUME SshInv, NEW s \in Sessions, Refuse(s) \/ Admit(s)
    PROVE  SshInv'
<1>1. ListenerType /\ FlagsType /\ WorkersType
  BY TypeParts DEF SshInv, OneOwner
<1>2. /\ UNCHANGED <<listener, thread, flags, workers, closes>>
      /\ refused' \subseteq Sessions
  BY <1>1 DEF Refuse, Admit, FlagsType
<1>3. FlagsType' /\ Stages'
  BY <1>1, <1>2 DEF SshInv, FlagsType, Stages, flags, listener
<1>4. TypeOK'
  BY <1>1, <1>2, <1>3, ListenerTypeKept, WorkersTypeKept, TypeParts
<1>5. OneOwner'
  BY <1>2, <1>4, OwnersKept DEF SshInv, flags, workers
<1>6. ForgottenAreClosed'
  BY <1>2, ForgottenKept DEF SshInv, listener, flags
<1> QED BY <1>3, <1>5, <1>6 DEF SshInv

-----------------------------------------------------------------------------
(* The listener *)

(* The loop over the lists comes to a place that has a session. *)
LEMMA GoToPlace ==
    ASSUME handlers' \in [1..NumPorts -> Seq(Sessions)],
           NEW p \in 1..NumPorts, NEW i \in Nat \ {0}, GoTo(p, i)
    PROVE  /\ at' \in {"visit", "clean"}
           /\ cursor' \in (1..NumPorts) \X (Nat \ {0})
           /\ at' = "visit" => cursor'[2] <= Len(handlers'[cursor'[1]])
<1> DEFINE later == {q \in (p + 1)..NumPorts : handlers'[q] # <<>>}
<1>1. CASE i <= Len(handlers'[p])
  BY <1>1 DEF GoTo
<1>2. CASE ~(i <= Len(handlers'[p]))
  <2>1. \/ at' = "clean" /\ cursor' = <<1, 1>>
        \/ \E q \in later : at' = "visit" /\ cursor' = <<q, 1>>
    BY <1>2 DEF GoTo
  <2>2. 1 \in 1..NumPorts
    BY Bounds
  <2>3. \A q \in later : q \in 1..NumPorts /\ 1 <= Len(handlers'[q])
    <3> TAKE q \in later
    <3>1. q \in 1..NumPorts /\ handlers'[q] # <<>>
      BY Bounds
    <3>2. handlers'[q] \in Seq(Sessions)
      BY <3>1
    <3> QED BY <3>1, <3>2, EmptySeq
  <2> HIDE DEF later
  <2> QED BY <2>1, <2>2, <2>3
<1> QED BY <1>1, <1>2

(* The session under the cursor, and the places the loop may go to next. *)
LEMMA VisitedType ==
    ASSUME ListenerType, at = "visit"
    PROVE  /\ Visited \in Sessions
           /\ cursor[1] \in 1..NumPorts
           /\ cursor[2] + 1 \in Nat \ {0}
           /\ Len(handlers[cursor[1]]) + 1 \in Nat \ {0}
<1>1. cursor[1] \in 1..NumPorts /\ cursor[2] \in 1..Len(handlers[cursor[1]])
  BY DEF ListenerType
<1>2. handlers[cursor[1]] \in Seq(Sessions)
  BY <1>1 DEF ListenerType
<1>3. Len(handlers[cursor[1]]) \in Nat
  BY <1>2, LenProperties
<1> QED BY <1>1, <1>2, <1>3, ElementOfSeq DEF Visited

(* The steps of the listener that take no session and hand none over. *)
LEMMA KeptStep ==
    ASSUME SshInv, UNCHANGED <<handlers, accepted, thread>>, SessionsKept,
           port' \in 1..NumPorts,
           at' \in Places, at' # "accepted",
           at = "accepted" => at' = "ended", at # "ended",
           cursor' \in (1..NumPorts) \X (Nat \ {0}),
           at' = "visit" => cursor'[2] <= Len(handlers'[cursor'[1]])
    PROVE  SshInv'
<1>1. ListenerType /\ FlagsType /\ WorkersType
  BY TypeParts DEF SshInv, OneOwner
<1>2. /\ UNCHANGED <<auth, running, complete, shutdown, clear, inQueue, built>>
      /\ UNCHANGED <<refused, tasks, place, halted, next, closes>>
  BY DEF SessionsKept, ListenerKeeps
<1>3. ListenerType'
  BY <1>1, <1>2, PortsKept DEF ListenerType
<1>4. FlagsType' /\ Stages'
  BY <1>1, <1>2 DEF SshInv, FlagsType, Stages
<1>5. WorkersType'
  BY <1>1, <1>2, WorkersTypeKept DEF workers
<1>6. TypeOK'
  BY <1>3, <1>4, <1>5, TypeParts
<1>7. OneOwner'
  BY <1>2, <1>6, OwnersKept DEF SshInv
<1>8. ForgottenAreClosed'
  BY <1>2, ForgottenKept DEF SshInv
<1> QED BY <1>4, <1>7, <1>8 DEF SshInv

LEMMA PollStep ==
    ASSUME SshInv, NoClient \/ AcceptReset \/ SaveFails
    PROVE  SshInv'
<1>1. ListenerType
  BY TypeParts DEF SshInv, OneOwner
<1>2. CASE NoClient
  <2>1. 1 \in 1..NumPorts /\ 1 \in Nat \ {0}
    BY Bounds
  <2>2. handlers' \in [1..NumPorts -> Seq(Sessions)]
    BY <1>1, <1>2 DEF NoClient, ListenerType
  <2>3. GoTo(1, 1)
    BY <1>2 DEF NoClient
  <2>4. /\ at' \in {"visit", "clean"}
        /\ cursor' \in (1..NumPorts) \X (Nat \ {0})
        /\ at' = "visit" => cursor'[2] <= Len(handlers'[cursor'[1]])
    BY <2>1, <2>2, <2>3, GoToPlace
  <2>5. /\ UNCHANGED <<auth, port, handlers, accepted, thread>> /\ SessionsKept
        /\ at = "poll"
    BY <1>2 DEF NoClient, SessionsKept, ListenerKeeps
  <2> QED BY <1>1, <2>4, <2>5, KeptStep DEF Places, ListenerType
<1>3. CASE AcceptReset \/ SaveFails
  <2>1. /\ UNCHANGED <<auth, port, cursor, handlers, accepted, thread>> /\ SessionsKept
        /\ at \in {"poll", "accepted"} /\ at' = "ended"
    BY <1>3 DEF AcceptReset, SaveFails, SessionsKept, ListenerKeeps
  <2> QED BY <1>1, <2>1, KeptStep DEF Places, ListenerType
<1> QED BY <1>2, <1>3

LEMMA AcceptStep ==
    ASSUME SshInv, Accept
    PROVE  SshInv'
<1>1. ListenerType /\ FlagsType /\ WorkersType
  BY TypeParts DEF SshInv, OneOwner
<1>2. /\ UNCHANGED <<auth, port, cursor, handlers>>
      /\ UNCHANGED <<running, complete, shutdown, clear, inQueue, built>>
      /\ UNCHANGED <<refused, tasks, place, halted, next, closes>>
      /\ at = "poll" /\ at' = "accepted" /\ accepted < MaxSessions
      /\ accepted' = accepted + 1
      /\ thread' = [thread EXCEPT ![accepted + 1] = "connecting"]
  BY DEF Accept, SessionsKept, ListenerKeeps
<1>3. accepted + 1 \in Sessions /\ accepted + 1 \in 0..MaxSessions /\ accepted \in Nat
  BY <1>1, <1>2, Bounds DEF ListenerType
<1>4. ListenerType'
  BY <1>1, <1>2, <1>3, PortsKept DEF ListenerType, Places
<1>5. FlagsType'
  BY <1>1, <1>2, <1>3 DEF FlagsType
<1>6. Stages'
  <2>1. \A s \in Sessions : s \in Nat /\ (s > accepted + 1 <=> s > accepted /\ s # accepted + 1)
    BY <1>3, Bounds
  <2>2. thread[accepted + 1] = "none"
    BY <1>3 DEF SshInv, Stages
  <2> QED BY <1>1, <1>2, <1>3, <2>1, <2>2 DEF SshInv, Stages, FlagsType
<1>7. WorkersType'
  BY <1>1, <1>2, WorkersTypeKept DEF workers
<1>8. OneOwner'
  BY <1>2, <1>4, <1>5, <1>7, OwnersKept, TypeParts DEF SshInv
<1>9. ForgottenAreClosed'
  <2> SUFFICES ASSUME NEW s \in 1..accepted, s # accepted',
                      ~ \E p \in 1..NumPorts : s \in ToSet(handlers[p])
               PROVE  s \in clear /\ thread'[s] = "over"
    BY <1>2, <1>3, PortsKept DEF ForgottenAreClosed
  <2>1. s \in clear /\ thread[s] = "over"
    BY <1>2 DEF SshInv, ForgottenAreClosed
  <2> QED BY <1>1, <1>2, <1>3, <2>1 DEF FlagsType
<1> QED BY <1>6, <1>8, <1>9 DEF SshInv

LEMMA SaveStep ==
    ASSUME SshInv, Save
    PROVE  SshInv'
<1>1. ListenerType /\ FlagsType /\ WorkersType
  BY TypeParts DEF SshInv, OneOwner
<1>2. /\ UNCHANGED <<auth, port, accepted, thread>>
      /\ UNCHANGED <<running, complete, shutdown, clear, inQueue, built>>
      /\ UNCHANGED <<refused, tasks, place, halted, next, closes>>
      /\ at = "accepted"
      /\ handlers' = [handlers EXCEPT ![port] = Append(@, accepted)]
      /\ GoTo(1, 1)
  BY DEF Save, SessionsKept, ListenerKeeps
<1>3. accepted \in Sessions
  BY <1>1, <1>2, Bounds DEF ListenerType
<1>4. /\ Append(handlers[port], accepted) \in Seq(Sessions)
      /\ ToSet(Append(handlers[port], accepted)) = ToSet(handlers[port]) \cup {accepted}
  BY <1>1, <1>3, AppendKeeps DEF ListenerType
<1>5. handlers' \in [1..NumPorts -> Seq(Sessions)]
  BY <1>1, <1>2, <1>4 DEF ListenerType
<1>6. ListenerType'
  <2>1. 1 \in 1..NumPorts /\ 1 \in Nat \ {0}
    BY Bounds
  <2>2. /\ at' \in {"visit", "clean"}
        /\ cursor' \in (1..NumPorts) \X (Nat \ {0})
        /\ at' = "visit" => cursor'[2] <= Len(handlers'[cursor'[1]])
    BY <1>2, <1>5, <2>1, GoToPlace
  <2> QED BY <1>1, <1>2, <1>5, <2>2, PortsKept DEF ListenerType, Places
<1>7. FlagsType' /\ Stages'
  BY <1>1, <1>2 DEF SshInv, FlagsType, Stages
<1>8. WorkersType'
  BY <1>1, <1>2, WorkersTypeKept DEF workers
<1>9. OneOwner'
  BY <1>2, <1>6, <1>7, <1>8, OwnersKept, TypeParts DEF SshInv
<1>10. ForgottenAreClosed'
  <2>1. \A p \in 1..NumPorts : ToSet(handlers[p]) \subseteq ToSet(handlers'[p])
    BY <1>1, <1>2, <1>4 DEF ListenerType
  <2>2. port \in 1..NumPorts /\ accepted \in ToSet(handlers'[port])
    BY <1>1, <1>2, <1>4 DEF ListenerType
  <2> SUFFICES ASSUME NEW s \in 1..accepted, s # accepted,
                      ~ \E p \in 1..NumPorts : s \in ToSet(handlers'[p])
               PROVE  s \in clear /\ thread[s] = "over"
    BY <1>2, <2>2, PortsKept DEF ForgottenAreClosed
  <2> QED BY <2>1 DEF SshInv, ForgottenAreClosed
<1> QED BY <1>7, <1>9, <1>10 DEF SshInv

(* A session is handed to a worker: nobody has it so far, because it is    *)
(* not marked, and its menu is there, because its thread is over.          *)
LEMMA HandOver ==
    ASSUME SshInv, NEW s \in Sessions, IsWaiting(s), AddServerHandler(s),
           place' = place, halted' = halted, built' = built
    PROVE  /\ WorkersType' /\ inQueue' \subseteq Sessions
           /\ TypeOK' => OneOwner'
<1>1. WorkersType /\ FlagsType
  BY TypeParts DEF SshInv, OneOwner
<1>2. /\ tasks' = [tasks EXCEPT ![next] = Append(@, s)]
      /\ inQueue' = inQueue \cup {s}
      /\ next' = (next + 1) % NumWorkers
      /\ s \notin inQueue /\ s \in complete /\ thread[s] = "over"
  BY DEF AddServerHandler, IsWaiting
<1>3. next \in Workers /\ tasks[next] \in Seq(Sessions)
  BY <1>1 DEF WorkersType
<1>4. /\ Append(tasks[next], s) \in Seq(Sessions)
      /\ Len(Append(tasks[next], s)) = Len(tasks[next]) + 1
      /\ DOMAIN Append(tasks[next], s) = 1..(Len(tasks[next]) + 1)
      /\ DOMAIN tasks[next] = 1..Len(tasks[next])
      /\ \A j \in 1..Len(tasks[next]) : Append(tasks[next], s)[j] = tasks[next][j]
      /\ Append(tasks[next], s)[Len(tasks[next]) + 1] = s
      /\ ToSet(Append(tasks[next], s)) = ToSet(tasks[next]) \cup {s}
  BY <1>3, AppendKeeps
<1>5. tasks'[next] = Append(tasks[next], s) /\ \A w \in Workers \ {next} : tasks'[w] = tasks[w]
  BY <1>1, <1>2, <1>3 DEF WorkersType
<1>6. WorkersType'
  <2>1. next' \in Workers
    BY <1>2, <1>3, Bounds
  <2>2. tasks' \in [Workers -> Seq(Sessions)]
    BY <1>1, <1>2, <1>4 DEF WorkersType
  <2>3. \A w \in Workers : place[w] <= Len(tasks'[w]) + 1
    <3> TAKE w \in Workers
    <3>1. place[w] \in Nat /\ place[w] <= Len(tasks[w]) + 1 /\ Len(tasks[w]) \in Nat
      <4>1. tasks[w] \in Seq(Sessions)
        BY <1>1 DEF WorkersType
      <4> QED BY <1>1, <4>1, LenProperties DEF WorkersType
    <3>2. Len(tasks'[w]) = Len(tasks[w]) \/ Len(tasks'[w]) = Len(tasks[w]) + 1
      BY <1>4, <1>5
    <3> QED BY <3>1, <3>2
  <2> QED BY <1>1, <2>1, <2>2, <2>3 DEF WorkersType
<1>7. inQueue' \subseteq Sessions
  BY <1>1, <1>2 DEF FlagsType
<1>8. \A w \in Workers : ToSet(tasks[w]) \subseteq built \cap inQueue
  BY DEF SshInv, OneOwner
<1>9. \A v, w \in Workers : \A i \in DOMAIN tasks'[v], j \in DOMAIN tasks'[w] :
         tasks'[v][i] = tasks'[w][j] => v = w /\ i = j
  <2> DEFINE new(w, i) == w = next /\ i = Len(tasks[next]) + 1
  <2>1. ASSUME NEW w \in Workers, NEW i \in DOMAIN tasks'[w]
        PROVE  IF new(w, i) THEN tasks'[w][i] = s
               ELSE i \in DOMAIN tasks[w] /\ tasks'[w][i] = tasks[w][i]
    <3>1. CASE w # next
      BY <1>5, <3>1
    <3>2. CASE w = next
      <4>1. Len(tasks[next]) \in Nat
        BY <1>3, LenProperties
      <4> QED BY <1>4, <1>5, <2>1, <3>2, <4>1
    <3> QED BY <3>1, <3>2
  <2>2. \A w \in Workers : \A i \in DOMAIN tasks[w] : tasks[w][i] # s
    BY <1>2, <1>8 DEF ToSet
  <2>3. \A v, w \in Workers : \A i \in DOMAIN tasks[v], j \in DOMAIN tasks[w] :
           tasks[v][i] = tasks[w][j] => v = w /\ i = j
    BY DEF SshInv, OneOwner
  <2> TAKE v, w \in Workers
  <2> TAKE i \in DOMAIN tasks'[v], j \in DOMAIN tasks'[w]
  <2> HAVE tasks'[v][i] = tasks'[w][j]
  <2>4. CASE new(v, i) /\ new(w, j)
    BY <2>4
  <2>5. CASE ~new(v, i) /\ new(w, j)
    BY <2>1, <2>2, <2>5
  <2>6. CASE new(v, i) /\ ~new(w, j)
    BY <2>1, <2>2, <2>6
  <2>7. CASE ~new(v, i) /\ ~new(w, j)
    BY <2>1, <2>3, <2>7
  <2> QED BY <2>4, <2>5, <2>6, <2>7
<1>10. \A w \in Workers : ToSet(tasks'[w]) \subseteq built' \cap inQueue'
  <2>1. s \in built
    BY <1>2 DEF SshInv, Stages
  <2> QED BY <1>2, <1>4, <1>5, <1>8, <2>1
<1>11. \A t \in inQueue' : \E w \in Workers : t \in ToSet(tasks'[w])
  <2>1. \A t \in inQueue : \E w \in Workers : t \in ToSet(tasks[w])
    BY DEF SshInv, OneOwner
  <2>2. \A w \in Workers : ToSet(tasks[w]) \subseteq ToSet(tasks'[w])
    BY <1>4, <1>5
  <2> QED BY <1>2, <1>3, <1>4, <1>5, <2>1, <2>2
<1> QED BY <1>6, <1>7, <1>9, <1>10, <1>11 DEF OneOwner

LEMMA AssignStep ==
    ASSUME SshInv, Assign
    PROVE  SshInv'
<1>1. ListenerType /\ FlagsType /\ WorkersType
  BY TypeParts DEF SshInv, OneOwner
<1>2. /\ at = "visit" /\ UNCHANGED handlers /\ NextSession
      /\ UNCHANGED <<auth, port, accepted, thread, shutdown, clear, closes>>
      /\ UNCHANGED <<refused, place, halted, running, complete, built>>
      /\ IF IsWaiting(Visited) THEN AddServerHandler(Visited)
         ELSE UNCHANGED <<tasks, inQueue, next>>
  BY DEF Assign, ListenerKeeps
<1>3. /\ Visited \in Sessions
      /\ cursor[1] \in 1..NumPorts /\ cursor[2] + 1 \in Nat \ {0}
  BY <1>1, <1>2, VisitedType
<1>4. ListenerType' /\ at' \in {"visit", "clean"}
  <2>1. handlers' \in [1..NumPorts -> Seq(Sessions)]
    BY <1>1, <1>2 DEF ListenerType
  <2>2. /\ at' \in {"visit", "clean"}
        /\ cursor' \in (1..NumPorts) \X (Nat \ {0})
        /\ at' = "visit" => cursor'[2] <= Len(handlers'[cursor'[1]])
    BY <1>2, <1>3, <2>1, GoToPlace DEF NextSession
  <2> QED BY <1>1, <1>2, <2>1, <2>2, PortsKept DEF ListenerType, Places
<1>5. WorkersType' /\ inQueue' \subseteq Sessions /\ (TypeOK' => OneOwner')
  <2>1. CASE IsWaiting(Visited)
    BY <1>2, <1>3, <2>1, HandOver
  <2>2. CASE ~IsWaiting(Visited)
    <3>1. UNCHANGED <<tasks, inQueue, next, place, halted, built>>
      BY <1>2, <2>2
    <3> QED BY <1>1, <3>1, WorkersTypeKept, OwnersKept DEF SshInv, FlagsType, workers
  <2> QED BY <2>1, <2>2
<1>6. FlagsType' /\ Stages'
  BY <1>1, <1>2, <1>5 DEF SshInv, FlagsType, Stages
<1>7. OneOwner'
  BY <1>4, <1>5, <1>6, TypeParts
<1>8. ForgottenAreClosed'
  BY <1>2, ForgottenKept DEF SshInv
<1> QED BY <1>6, <1>7, <1>8 DEF SshInv

LEMMA ServeStep ==
    ASSUME SshInv, Serve
    PROVE  SshInv'
<1>1. ListenerType /\ FlagsType /\ WorkersType
  BY TypeParts DEF SshInv, OneOwner
<1>2. /\ at = "visit" /\ UNCHANGED <<auth, port, handlers, accepted, thread, inQueue, built, workers>>
      /\ VisitFlags(Visited)
      /\ NextSession \/ NextList \/ (at' = "ended" /\ UNCHANGED cursor)
  BY DEF Serve, Visit, RunMenu, CloseShutdown, PassBy, Ready, VisitFlags
<1>3. /\ Visited \in Sessions
      /\ cursor[1] \in 1..NumPorts /\ cursor[2] + 1 \in Nat \ {0}
      /\ Len(handlers[cursor[1]]) + 1 \in Nat \ {0}
  BY <1>1, <1>2, VisitedType
<1>4. ListenerType'
  <2>1. handlers' \in [1..NumPorts -> Seq(Sessions)]
    BY <1>1, <1>2 DEF ListenerType
  <2>2. /\ at' \in {"visit", "clean", "ended"}
        /\ cursor' \in (1..NumPorts) \X (Nat \ {0})
        /\ at' = "visit" => cursor'[2] <= Len(handlers'[cursor'[1]])
    <3>1. CASE NextSession
      BY <1>3, <2>1, <3>1, GoToPlace DEF NextSession
    <3>2. CASE NextList
      BY <1>3, <2>1, <3>2, GoToPlace DEF NextList
    <3>3. CASE at' = "ended" /\ UNCHANGED cursor
      BY <1>1, <3>3 DEF ListenerType
    <3> QED BY <1>2, <3>1, <3>2, <3>3
  <2> QED BY <1>1, <1>2, <2>1, <2>2, PortsKept DEF ListenerType, Places
<1>5. FlagsType' /\ Stages' /\ clear \subseteq clear'
  BY <1>1, <1>2, <1>3, VisitKeepsFlags DEF SshInv
<1>6. TypeOK'
  BY <1>1, <1>2, <1>4, <1>5, WorkersTypeKept, TypeParts
<1>7. OneOwner'
  BY <1>2, <1>6, OwnersKept DEF SshInv, workers
<1>8. ForgottenAreClosed'
  BY <1>2, <1>5, ForgottenKept DEF SshInv
<1> QED BY <1>5, <1>7, <1>8 DEF SshInv

LEMMA CleanStep ==
    ASSUME SshInv, NothingToForget
    PROVE  SshInv'
<1>1. ListenerType
  BY TypeParts DEF SshInv, OneOwner
<1>2. /\ at = "clean" /\ at' = "poll" /\ port' = 1 + (port % NumPorts)
      /\ UNCHANGED <<cursor, handlers, accepted, thread>> /\ SessionsKept
  BY DEF NothingToForget, NextTurn
<1>3. port' \in 1..NumPorts
  BY <1>1, <1>2, Bounds DEF ListenerType
<1>4. cursor' \in (1..NumPorts) \X (Nat \ {0})
  BY <1>1, <1>2 DEF ListenerType
<1> QED BY <1>2, <1>3, <1>4, KeptStep DEF Places

(* The session that is forgotten is closed and its thread is over; the     *)
(* others of the list stay in it.                                          *)
LEMMA ForgetStep ==
    ASSUME SshInv, Forget
    PROVE  SshInv'
<1>1. ListenerType /\ FlagsType /\ WorkersType
  BY TypeParts DEF SshInv, OneOwner
<1>2. PICK i \in Cleaned(port) : /\ thread[handlers[port][i]] = "over"
                                 /\ handlers' = [handlers EXCEPT ![port] = RemoveAt(@, i)]
  BY DEF Forget
<1>3. /\ at = "clean" /\ at' = "poll" /\ port' = 1 + (port % NumPorts)
      /\ UNCHANGED <<auth, cursor, accepted, thread>>
      /\ UNCHANGED <<running, complete, shutdown, clear, inQueue, built>>
      /\ UNCHANGED <<refused, tasks, place, halted, next, closes>>
  BY DEF Forget, NextTurn, SessionsKept, ListenerKeeps
<1>4. port \in 1..NumPorts /\ port' \in 1..NumPorts
  BY <1>1, <1>3, Bounds DEF ListenerType
<1>5. handlers[port] \in Seq(Sessions)
  BY <1>1, <1>4 DEF ListenerType
<1>6. i \in 1..Len(handlers[port]) /\ handlers[port][i] \in clear
  BY DEF Cleaned, MayForget
<1>7. /\ RemoveAt(handlers[port], i) \in Seq(Sessions)
      /\ \A x \in ToSet(handlers[port]) :
            x # handlers[port][i] => x \in ToSet(RemoveAt(handlers[port], i))
  BY <1>5, <1>6, RemoveAtKeeps
<1>8. ListenerType'
  <2>1. handlers' \in [1..NumPorts -> Seq(Sessions)]
    BY <1>1, <1>2, <1>7 DEF ListenerType
  <2> QED BY <1>1, <1>3, <1>4, <2>1, PortsKept DEF ListenerType, Places
<1>9. FlagsType' /\ Stages'
  BY <1>1, <1>3 DEF SshInv, FlagsType, Stages
<1>10. WorkersType'
  BY <1>1, <1>3, WorkersTypeKept DEF workers
<1>11. OneOwner'
  BY <1>3, <1>8, <1>9, <1>10, OwnersKept, TypeParts DEF SshInv
<1>12. ForgottenAreClosed'
  <2> SUFFICES ASSUME NEW s \in 1..accepted,
                      ~ \E p \in 1..NumPorts : s \in ToSet(handlers'[p])
               PROVE  s \in clear /\ thread[s] = "over"
    BY <1>3, PortsKept DEF ForgottenAreClosed
  <2>1. CASE s = handlers[port][i]
    BY <1>2, <1>6, <2>1
  <2>2. CASE s # handlers[port][i]
    <3>1. ~ \E p \in 1..NumPorts : s \in ToSet(handlers[p])
      BY <1>1, <1>2, <1>4, <1>7, <2>2 DEF ListenerType
    <3> QED BY <1>3, <3>1 DEF SshInv, ForgottenAreClosed
  <2> QED BY <2>1, <2>2
<1> QED BY <1>9, <1>11, <1>12 DEF SshInv

-----------------------------------------------------------------------------
(* The invariant *)

LEMMA SshStarts == Init => SshInv
<1> SUFFICES ASSUME Init PROVE SshInv
  OBVIOUS
<1> USE Bounds DEF Init
<1>1. \A w \in Workers : tasks[w] = <<>>
  OBVIOUS
<1>2. ListenerType
  BY EmptySeq DEF ListenerType, Places
<1>3. FlagsType
  BY DEF FlagsType
<1>4. WorkersType
  BY EmptySeq DEF WorkersType
<1>5. OneOwner
  <2>1. \A w \in Workers : DOMAIN tasks[w] = {}
    BY <1>1
  <2> QED BY <1>2, <1>3, <1>4, <2>1, TypeParts DEF OneOwner, ToSet
<1>6. Stages
  BY DEF Stages
<1>7. ForgottenAreClosed
  BY DEF ForgottenAreClosed
<1> QED BY <1>5, <1>6, <1>7 DEF SshInv

LEMMA SshStep == SshInv /\ [Next]_vars => SshInv'
<1> SUFFICES ASSUME SshInv, [Next]_vars PROVE SshInv'
  OBVIOUS
<1>1. CASE Listen
  BY <1>1, PollStep, AcceptStep, SaveStep, AssignStep, ServeStep, CleanStep, ForgetStep DEF Listen
<1>2. ASSUME NEW w \in Workers, Worker(w) PROVE SshInv'
  BY <1>2, WorkStep, RestStep DEF Worker
<1>3. ASSUME NEW s \in Sessions, SessionThread(s) \/ Refuse(s) \/ Admit(s) PROVE SshInv'
  BY <1>3, ThreadStep, MenuStep
<1>4. CASE UNCHANGED vars
  <2>1. /\ UNCHANGED <<auth, at, port, cursor, handlers, accepted, thread>>
        /\ UNCHANGED <<running, complete, shutdown, clear, inQueue, built>>
        /\ UNCHANGED <<refused, tasks, place, halted, next, closes>>
    BY <1>4 DEF vars, listener, flags, workers
  <2> QED BY <2>1 DEF SshInv, OneOwner, TypeOK, Stages, ForgottenAreClosed, NumPorts, MaxSessions
<1> QED BY <1>1, <1>2, <1>3, <1>4 DEF Next

LEMMA SshInvHolds == Spec => []SshInv
BY SshStarts, SshStep, PTL DEF Spec

(* However many workers share the sessions, none of them has a session of  *)
(* another or one twice, or one whose menu is still being built            *)
(* (_add_server_handler_thread, the workers of ConsoleServerSSHServer).    *)
THEOREM SshOneOwner == Spec => []OneOwner
<1>1. SshInv => OneOwner
  BY DEF SshInv
<1> QED BY <1>1, SshInvHolds, PTL

(* The thread that opened a connection and the one that serves it never    *)
(* both close it, whatever order they run in (close_client).               *)
THEOREM SshClosedOnce == Spec => []ClosedOnce
<1>1. SshInv => ClosedOnce
  BY DEF SshInv, Stages, ClosedOnce
<1> QED BY <1>1, SshInvHolds, PTL

(* The listener never drops a session that is still open, whichever of its *)
(* lists it cleans, in whatever order (_clean_client).                     *)
THEOREM SshForgottenAreClosed == Spec => []ForgottenAreClosed
<1>1. SshInv => ForgottenAreClosed
  BY DEF SshInv
<1> QED BY <1>1, SshInvHolds, PTL

=============================================================================
