----------------------------- MODULE ReplyProofs -----------------------------
(***************************************************************************)
(* Proofs about the two things that change the operation DB after the      *)
(* request: the replies of the handlers (what a ready mark means, what the *)
(* death of a handler freezes), and the synchronisation of the roles.      *)
(***************************************************************************)
EXTENDS ConsoleServerProofs

-----------------------------------------------------------------------------
(***************************************************************************)
(* The numbers in flight at one handler: a is the sequence of its replies, *)
(* b of its queue, n the last number given out.  Both queues are first-in  *)
(* first-out, so the numbers grow along a and then along b.                *)
(***************************************************************************)
Rising(a) == \A i, j \in 1..Len(a) : i < j => a[i] < a[j]

Line(a, b, n) ==
    /\ Rising(a) /\ Rising(b)
    /\ \A i \in 1..Len(a) : a[i] <= n
    /\ \A j \in 1..Len(b) : b[j] <= n
    /\ \A i \in 1..Len(a), j \in 1..Len(b) : a[i] < b[j]

(* A mark below everything that is in flight. *)
Below(mark, a, b, n) ==
    /\ mark <= n
    /\ \A i \in 1..Len(a) : mark < a[i]
    /\ \A j \in 1..Len(b) : mark < b[j]

(* The elements of a queue after an append. *)
LEMMA AppendAt ==
    ASSUME NEW S, NEW q \in Seq(S), NEW e \in S
    PROVE  /\ Append(q, e) \in Seq(S)
           /\ Len(q) \in Nat
           /\ Len(Append(q, e)) = Len(q) + 1
           /\ \A i \in 1..Len(q) : Append(q, e)[i] = q[i] /\ q[i] \in S
           /\ Append(q, e)[Len(q) + 1] = e
  OBVIOUS

(* The elements of a queue once its head is gone. *)
LEMMA TailAt ==
    ASSUME NEW S, NEW q \in Seq(S), q # <<>>
    PROVE  /\ Tail(q) \in Seq(S)
           /\ Head(q) = q[1] /\ Head(q) \in S
           /\ Len(q) \in Nat /\ 1 \in 1..Len(q)
           /\ Len(Tail(q)) = Len(q) - 1
           /\ \A i \in 1..Len(Tail(q)) :
                 i + 1 \in 1..Len(q) /\ Tail(q)[i] = q[i + 1] /\ q[i + 1] \in S
  OBVIOUS

(* A line stays one when the next number enters at its end, or enters no queue. *)
LEMMA LineNext ==
    ASSUME NEW a \in Seq(Nat), NEW b \in Seq(Nat), NEW n \in Nat, Line(a, b, n)
    PROVE  /\ Line(a, b, n + 1)
           /\ Line(a, Append(b, n + 1), n + 1)
<1>1. Line(a, b, n + 1)
  BY DEF Line
<1>2. /\ Len(Append(b, n + 1)) = Len(b) + 1 /\ Len(b) \in Nat
      /\ \A i \in 1..Len(b) : Append(b, n + 1)[i] = b[i] /\ b[i] \in Nat
      /\ Append(b, n + 1)[Len(b) + 1] = n + 1
  BY AppendAt
<1>3. Rising(Append(b, n + 1))
  <2>1. SUFFICES ASSUME NEW i \in 1..Len(Append(b, n + 1)), NEW j \in 1..Len(Append(b, n + 1)),
                        i < j
                 PROVE  Append(b, n + 1)[i] < Append(b, n + 1)[j]
    BY DEF Rising
  <2>2. i \in 1..Len(b)
    BY <1>2, <2>1
  <2>3. CASE j \in 1..Len(b)
    BY <1>2, <2>1, <2>2, <2>3 DEF Line, Rising
  <2>4. CASE j = Len(b) + 1
    <3>1. b[i] <= n
      BY <2>2 DEF Line
    <3> QED BY <1>2, <2>2, <2>4, <3>1
  <2> QED BY <1>2, <2>3, <2>4
<1>4. \A i \in 1..Len(a), j \in 1..Len(Append(b, n + 1)) : a[i] < Append(b, n + 1)[j]
  <2>1. SUFFICES ASSUME NEW i \in 1..Len(a), NEW j \in 1..Len(Append(b, n + 1))
                 PROVE  a[i] < Append(b, n + 1)[j]
    OBVIOUS
  <2>2. a[i] <= n /\ a[i] \in Nat
    BY DEF Line
  <2>3. CASE j \in 1..Len(b)
    BY <1>2, <2>3 DEF Line
  <2>4. CASE j = Len(b) + 1
    BY <1>2, <2>2, <2>4
  <2> QED BY <1>2, <2>3, <2>4
<1>5. \A j \in 1..Len(Append(b, n + 1)) : Append(b, n + 1)[j] <= n + 1
  BY <1>2 DEF Line
<1> QED BY <1>1, <1>3, <1>4, <1>5 DEF Line

(* A line stays one when the handler moves a message to its replies, or dies of it. *)
LEMMA LineServe ==
    ASSUME NEW a \in Seq(Nat), NEW b \in Seq(Nat), NEW n \in Nat, Line(a, b, n), b # <<>>
    PROVE  /\ Line(a, Tail(b), n)
           /\ Line(Append(a, Head(b)), Tail(b), n)
<1>1. /\ Head(b) = b[1] /\ Head(b) \in Nat
      /\ Len(b) \in Nat /\ 1 \in 1..Len(b)
      /\ Len(Tail(b)) = Len(b) - 1
      /\ \A i \in 1..Len(Tail(b)) : i + 1 \in 1..Len(b) /\ Tail(b)[i] = b[i + 1]
  BY TailAt
<1>2. Line(a, Tail(b), n)
  <2>1. Rising(Tail(b))
    BY <1>1 DEF Line, Rising
  <2>2. \A j \in 1..Len(Tail(b)) : Tail(b)[j] <= n
    BY <1>1 DEF Line
  <2>3. \A i \in 1..Len(a), j \in 1..Len(Tail(b)) : a[i] < Tail(b)[j]
    BY <1>1 DEF Line
  <2> QED BY <2>1, <2>2, <2>3 DEF Line
<1>3. /\ Len(Append(a, Head(b))) = Len(a) + 1 /\ Len(a) \in Nat
      /\ \A i \in 1..Len(a) : Append(a, Head(b))[i] = a[i] /\ a[i] \in Nat
      /\ Append(a, Head(b))[Len(a) + 1] = Head(b)
  BY <1>1, AppendAt
<1>4. Line(Append(a, Head(b)), Tail(b), n)
  <2>1. Rising(Append(a, Head(b)))
    <3>1. SUFFICES ASSUME NEW i \in 1..Len(Append(a, Head(b))),
                          NEW j \in 1..Len(Append(a, Head(b))), i < j
                   PROVE  Append(a, Head(b))[i] < Append(a, Head(b))[j]
      BY DEF Rising
    <3>2. i \in 1..Len(a)
      BY <1>3, <3>1
    <3>3. CASE j \in 1..Len(a)
      BY <1>3, <3>1, <3>2, <3>3 DEF Line, Rising
    <3>4. CASE j = Len(a) + 1
      <4>1. a[i] < Head(b)
        BY <1>1, <3>2 DEF Line
      <4> QED BY <1>3, <3>2, <3>4, <4>1
    <3> QED BY <1>3, <3>3, <3>4
  <2>2. \A i \in 1..Len(Append(a, Head(b))) : Append(a, Head(b))[i] <= n
    BY <1>1, <1>3 DEF Line
  <2>3. \A j \in 1..Len(Tail(b)) : Head(b) < Tail(b)[j]
    BY <1>1 DEF Line, Rising
  <2>4. \A i \in 1..Len(Append(a, Head(b))), j \in 1..Len(Tail(b)) :
           Append(a, Head(b))[i] < Tail(b)[j]
    BY <1>2, <1>3, <2>3 DEF Line
  <2> QED BY <1>2, <2>1, <2>2, <2>4 DEF Line
<1> QED BY <1>2, <1>4

(* A line stays one when a reply is taken, and the rest is newer than that reply. *)
LEMMA LineTake ==
    ASSUME NEW a \in Seq(Nat), NEW b \in Seq(Nat), NEW n \in Nat, Line(a, b, n), a # <<>>
    PROVE  /\ Line(Tail(a), b, n)
           /\ Below(Head(a), Tail(a), b, n)
<1>1. /\ Head(a) = a[1] /\ Head(a) \in Nat
      /\ Len(a) \in Nat /\ 1 \in 1..Len(a)
      /\ Len(Tail(a)) = Len(a) - 1
      /\ \A i \in 1..Len(Tail(a)) : i + 1 \in 1..Len(a) /\ Tail(a)[i] = a[i + 1]
  BY TailAt
<1>2. Rising(Tail(a))
  BY <1>1 DEF Line, Rising
<1>3. \A i \in 1..Len(Tail(a)) : Tail(a)[i] <= n
  BY <1>1 DEF Line
<1>4. \A i \in 1..Len(Tail(a)), j \in 1..Len(b) : Tail(a)[i] < b[j]
  BY <1>1 DEF Line
<1>5. Below(Head(a), Tail(a), b, n)
  BY <1>1 DEF Line, Below, Rising
<1> QED BY <1>2, <1>3, <1>4, <1>5 DEF Line

(* What is below everything in flight stays so. *)
LEMMA BelowKept ==
    ASSUME NEW a \in Seq(Nat), NEW b \in Seq(Nat), NEW n \in Nat, NEW k \in Nat,
           Below(k, a, b, n)
    PROVE  /\ Below(k, a, b, n + 1)
           /\ Below(k, a, Append(b, n + 1), n + 1)
           /\ a # <<>> => Below(k, Tail(a), b, n)
           /\ b # <<>> => Below(k, a, Tail(b), n) /\ Below(k, Append(a, Head(b)), Tail(b), n)
<1>1. Below(k, a, b, n + 1)
  BY DEF Below
<1>2. Below(k, a, Append(b, n + 1), n + 1)
  <2>1. /\ Len(Append(b, n + 1)) = Len(b) + 1 /\ Len(b) \in Nat
        /\ \A i \in 1..Len(b) : Append(b, n + 1)[i] = b[i]
        /\ Append(b, n + 1)[Len(b) + 1] = n + 1
    BY AppendAt
  <2> QED BY <2>1 DEF Below
<1>3. ASSUME a # <<>> PROVE Below(k, Tail(a), b, n)
  <2>1. \A i \in 1..Len(Tail(a)) : i + 1 \in 1..Len(a) /\ Tail(a)[i] = a[i + 1]
    BY <1>3, TailAt
  <2> QED BY <2>1 DEF Below
<1>4. ASSUME b # <<>>
      PROVE  Below(k, a, Tail(b), n) /\ Below(k, Append(a, Head(b)), Tail(b), n)
  <2>1. /\ \A i \in 1..Len(Tail(b)) : i + 1 \in 1..Len(b) /\ Tail(b)[i] = b[i + 1]
        /\ Head(b) \in Nat /\ Head(b) = b[1] /\ 1 \in 1..Len(b)
    BY <1>4, TailAt
  <2>2. Below(k, a, Tail(b), n)
    BY <2>1 DEF Below
  <2>3. /\ Len(Append(a, Head(b))) = Len(a) + 1 /\ Len(a) \in Nat
        /\ \A i \in 1..Len(a) : Append(a, Head(b))[i] = a[i]
        /\ Append(a, Head(b))[Len(a) + 1] = Head(b)
    BY <2>1, AppendAt
  <2>4. \A i \in 1..Len(Append(a, Head(b))) : k < Append(a, Head(b))[i]
    BY <2>1, <2>3 DEF Below
  <2> QED BY <2>2, <2>4 DEF Below
<1> QED BY <1>1, <1>2, <1>3, <1>4

-----------------------------------------------------------------------------
(* The numbers in a queue and in a sequence of replies. *)

Ids(q) == [i \in 1..Len(q) |-> q[i].id]

ReplyIds(q) == [i \in 1..Len(q) |-> q[i].msg.id]

(* The numbers of a message queue, after an append and after a tail. *)
LEMMA IdsOf ==
    ASSUME NEW q \in Seq(Message), NEW m \in Message
    PROVE  /\ Ids(q) \in Seq(Nat)
           /\ m.id \in Nat /\ m.id > 0
           /\ Ids(Append(q, m)) = Append(Ids(q), m.id)
           /\ q # <<>> => /\ Ids(q) # <<>>
                          /\ Ids(Tail(q)) = Tail(Ids(q))
                          /\ Head(q) \in Message
                          /\ Head(Ids(q)) = Head(q).id
<1>1. \A x \in Message : x.id \in Nat /\ x.id > 0
  BY ConstantsAssumption DEF Message, Fields
<1>2. Ids(q) \in Seq(Nat)
  BY <1>1 DEF Ids
<1>3. Ids(Append(q, m)) = Append(Ids(q), m.id)
  BY DEF Ids
<1>4. ASSUME q # <<>>
      PROVE  /\ Ids(q) # <<>> /\ Ids(Tail(q)) = Tail(Ids(q))
             /\ Head(q) \in Message /\ Head(Ids(q)) = Head(q).id
  BY <1>4 DEF Ids
<1> QED BY <1>1, <1>2, <1>3, <1>4

(* The same for a queue of replies. *)
LEMMA ReplyIdsOf ==
    ASSUME NEW q \in Seq(Reply), NEW r \in Reply
    PROVE  /\ ReplyIds(q) \in Seq(Nat)
           /\ r.msg.id \in Nat /\ r.msg.id > 0
           /\ ReplyIds(Append(q, r)) = Append(ReplyIds(q), r.msg.id)
           /\ q # <<>> => /\ ReplyIds(q) # <<>>
                          /\ ReplyIds(Tail(q)) = Tail(ReplyIds(q))
                          /\ Head(q) \in Reply
                          /\ Head(ReplyIds(q)) = Head(q).msg.id
<1>1. \A x \in Reply : x.msg.id \in Nat /\ x.msg.id > 0
  BY ConstantsAssumption DEF Reply, Message, Fields
<1>2. ReplyIds(q) \in Seq(Nat)
  BY <1>1 DEF ReplyIds
<1>3. ReplyIds(Append(q, r)) = Append(ReplyIds(q), r.msg.id)
  BY DEF ReplyIds
<1>4. ASSUME q # <<>>
      PROVE  /\ ReplyIds(q) # <<>> /\ ReplyIds(Tail(q)) = Tail(ReplyIds(q))
             /\ Head(q) \in Reply /\ Head(ReplyIds(q)) = Head(q).msg.id
  BY <1>4 DEF ReplyIds
<1> QED BY <1>1, <1>2, <1>3, <1>4

(***************************************************************************)
(* The inductive invariant.                                                *)
(***************************************************************************)
Numbered ==
    \A h \in Handlers :
        /\ Line(ReplyIds(replies[h]), Ids(queue[h]), sent)
        /\ \A fd \in Fds : stored[fd] # NoRequest =>
              Below(stored[fd].ready[h], ReplyIds(replies[h]), Ids(queue[h]), sent)

(* With empty queues and no stored request there is nothing to number. *)
LEMMA NumberedInit == Init => Numbered
  BY DEF Init, Numbered, Line, Rising, Ids, ReplyIds

(* The numbers in the queues and in the marks are naturals. *)
LEMMA NumberTypes ==
    ASSUME TypeOK, NEW h \in Handlers
    PROVE  /\ queue[h] \in Seq(Message) /\ replies[h] \in Seq(Reply)
           /\ Ids(queue[h]) \in Seq(Nat) /\ ReplyIds(replies[h]) \in Seq(Nat)
           /\ sent \in Nat
           /\ \A fd \in Fds : stored[fd] # NoRequest => stored[fd].ready[h] \in Nat
<1>1. queue[h] \in Seq(Message) /\ replies[h] \in Seq(Reply) /\ sent \in Nat
  BY ConstantsAssumption DEF TypeOK
<1>2. \A fd \in Fds : stored[fd] # NoRequest => stored[fd].ready[h] \in Nat
  BY ConstantsAssumption DEF TypeOK, StoredRequests
<1>3. Ids(queue[h]) \in Seq(Nat)
  <2>1. \A x \in Message : x.id \in Nat
    BY ConstantsAssumption DEF Message, Fields
  <2> QED BY <1>1, <2>1 DEF Ids
<1>4. ReplyIds(replies[h]) \in Seq(Nat)
  <2>1. \A x \in Reply : x.msg.id \in Nat
    BY ConstantsAssumption DEF Reply, Message, Fields
  <2> QED BY <1>1, <2>1 DEF ReplyIds
<1> QED BY <1>1, <1>2, <1>3, <1>4

(* A request takes the next number, and its marks start at 0. *)
LEMMA NumberedRequest ==
    ASSUME TypeOK, Numbered, NEW fd \in Fds, RequestOutcome(fd)
    PROVE  Numbered'
<1> SUFFICES ASSUME NEW h \in Handlers
             PROVE  /\ Line(ReplyIds(replies'[h]), Ids(queue'[h]), sent')
                    /\ \A f \in Fds : stored'[f] # NoRequest =>
                          Below(stored'[f].ready[h], ReplyIds(replies'[h]), Ids(queue'[h]), sent')
  BY DEF Numbered
<1> DEFINE a == ReplyIds(replies[h])
           b == Ids(queue[h])
<1>1. /\ Line(a, b, sent)
      /\ \A f \in Fds : stored[f] # NoRequest => Below(stored[f].ready[h], a, b, sent)
  BY DEF Numbered
<1>2. /\ queue[h] \in Seq(Message) /\ a \in Seq(Nat) /\ b \in Seq(Nat) /\ sent \in Nat
      /\ \A f \in Fds : stored[f] # NoRequest => stored[f].ready[h] \in Nat
  BY NumberTypes
<1>3. sent' = sent + 1 /\ ReplyIds(replies'[h]) = a
  BY DEF RequestOutcome
<1>4. Ids(queue'[h]) = b \/ Ids(queue'[h]) = Append(b, sent + 1)
  <2>1. CASE Answered \/ Unanswered(fd)
    BY <2>1 DEF Answered, Unanswered
  <2>2. CASE \E m : Passed(fd, m)
    <3>1. PICK m : Passed(fd, m)
      BY <2>2
    <3>2. m \in Message /\ m.id = sent + 1 /\ (FanOut(m) \/ ToHandler(m))
      BY <3>1 DEF Passed
    <3>3. queue'[h] = queue[h] \/ queue'[h] = Append(queue[h], m)
      BY <3>2 DEF FanOut, ToHandler, TypeOK
    <3>4. Ids(Append(queue[h], m)) = Append(b, sent + 1)
      BY <1>2, <3>2, IdsOf
    <3> QED BY <3>3, <3>4
  <2> QED BY <2>1, <2>2 DEF RequestOutcome
<1>5. \A f \in Fds : stored'[f] = stored[f] \/ stored'[f].ready[h] = 0
  <2>1. CASE Answered \/ Unanswered(fd)
    BY <2>1 DEF Answered, Unanswered
  <2>2. CASE \E m : Passed(fd, m)
    <3>1. PICK m : Passed(fd, m)
      BY <2>2
    <3>2. FanOut(m) \/ ToHandler(m)
      BY <3>1 DEF Passed
    <3>3. \A tracked \in BOOLEAN : StoredRequest(m, tracked).ready[h] = 0
      BY DEF StoredRequest
    <3>4. \E s : s.ready[h] = 0 /\ stored' = [stored EXCEPT ![m.fd] = s]
      BY <3>2, <3>3 DEF FanOut, ToHandler
    <3> QED BY <3>4 DEF TypeOK
  <2> QED BY <2>1, <2>2 DEF RequestOutcome
<1>6. Below(0, a, b, sent)
  <2>1. \A i \in 1..Len(queue[h]) : queue[h][i].id > 0
    <3>1. \A x \in Message : x.id > 0
      BY ConstantsAssumption DEF Message, Fields
    <3> QED BY <1>2, <3>1
  <2>2. \A i \in 1..Len(replies[h]) : replies[h][i].msg.id > 0
    <3>1. \A x \in Reply : x.msg.id > 0
      BY ConstantsAssumption DEF Reply, Message, Fields
    <3>2. replies[h] \in Seq(Reply)
      BY NumberTypes
    <3> QED BY <3>1, <3>2
  <2>3. replies[h] \in Seq(Reply) /\ Len(a) = Len(replies[h]) /\ Len(b) = Len(queue[h])
    BY <1>2, NumberTypes DEF Ids, ReplyIds
  <2> QED BY <1>2, <2>1, <2>2, <2>3 DEF Below, Ids, ReplyIds
<1> HIDE DEF a, b
<1>7. Line(a, Ids(queue'[h]), sent + 1)
  BY <1>1, <1>2, <1>4, LineNext
<1>8. ASSUME NEW k \in Nat, Below(k, a, b, sent)
      PROVE  Below(k, a, Ids(queue'[h]), sent + 1)
  BY <1>2, <1>4, <1>8, BelowKept
<1>9. ASSUME NEW f \in Fds, stored'[f] # NoRequest
      PROVE  Below(stored'[f].ready[h], a, Ids(queue'[h]), sent + 1)
  <2>1. CASE stored'[f] = stored[f]
    BY <1>1, <1>2, <1>8, <1>9, <2>1
  <2>2. CASE stored'[f].ready[h] = 0
    BY <1>6, <1>8, <2>2
  <2> QED BY <1>5, <2>1, <2>2
<1> QED BY <1>3, <1>7, <1>9

(* A handler moves the head of its queue behind its replies, or drops it. *)
LEMMA NumberedHandler ==
    ASSUME TypeOK, Numbered, NEW k \in Handlers, HandlerStep(k)
    PROVE  Numbered'
<1> SUFFICES ASSUME NEW h \in Handlers
             PROVE  /\ Line(ReplyIds(replies'[h]), Ids(queue'[h]), sent')
                    /\ \A f \in Fds : stored'[f] # NoRequest =>
                          Below(stored'[f].ready[h], ReplyIds(replies'[h]), Ids(queue'[h]), sent')
  BY DEF Numbered
<1> DEFINE a == ReplyIds(replies[h])
           b == Ids(queue[h])
<1>1. /\ Line(a, b, sent)
      /\ \A f \in Fds : stored[f] # NoRequest => Below(stored[f].ready[h], a, b, sent)
  BY DEF Numbered
<1>2. /\ queue[h] \in Seq(Message) /\ replies[h] \in Seq(Reply)
      /\ a \in Seq(Nat) /\ b \in Seq(Nat) /\ sent \in Nat
      /\ \A f \in Fds : stored[f] # NoRequest => stored[f].ready[h] \in Nat
  BY NumberTypes
<1>3. sent' = sent /\ stored' = stored
  BY DEF HandlerStep, HandlerServes, HandlerCrashes
<1>4. \/ ReplyIds(replies'[h]) = a /\ Ids(queue'[h]) = b
      \/ b # <<>> /\ Ids(queue'[h]) = Tail(b)
         /\ (ReplyIds(replies'[h]) = a \/ ReplyIds(replies'[h]) = Append(a, Head(b)))
  <2>1. CASE h # k
    BY <2>1 DEF HandlerStep, HandlerServes, HandlerCrashes, TypeOK
  <2>2. CASE h = k
    <3>1. queue[h] # <<>> /\ queue'[h] = Tail(queue[h])
      BY <2>2 DEF HandlerStep, HandlerServes, HandlerCrashes, TypeOK
    <3>2. b # <<>> /\ Ids(queue'[h]) = Tail(b)
          /\ Head(queue[h]) \in Message /\ Head(b) = Head(queue[h]).id
      <4>1. Head(queue[h]) \in Message
        BY <1>2, <3>1
      <4> QED BY <1>2, <3>1, <4>1, IdsOf
    <3>3. CASE HandlerCrashes(k)
      BY <3>2, <3>3 DEF HandlerCrashes
    <3>4. CASE HandlerServes(k)
      <4> DEFINE r == ReplyTo(hdb[h], Head(queue[h]))
      <4>1. replies'[h] = Append(replies[h], r)
        BY <2>2, <3>4 DEF HandlerServes, TypeOK
      <4>2. r \in Reply /\ r.msg = Head(queue[h])
        <5>1. Succeeds(hdb[h], Head(queue[h])) \in BOOLEAN
          BY DEF Succeeds
        <5> QED BY <3>2, <5>1 DEF ReplyTo, Reply
      <4>3. ReplyIds(replies'[h]) = Append(a, Head(b))
        BY <1>2, <3>2, <4>1, <4>2, ReplyIdsOf
      <4> QED BY <3>2, <4>3
    <3> QED BY <3>3, <3>4 DEF HandlerStep
  <2> QED BY <2>1, <2>2
<1> HIDE DEF a, b
<1>5. Line(ReplyIds(replies'[h]), Ids(queue'[h]), sent)
  BY <1>1, <1>2, <1>4, LineServe
<1>6. \A f \in Fds : stored[f] # NoRequest =>
         Below(stored[f].ready[h], ReplyIds(replies'[h]), Ids(queue'[h]), sent)
  BY <1>1, <1>2, <1>4, BelowKept
<1> QED BY <1>3, <1>5, <1>6

(* The server takes the head of the replies, and may make it a mark. *)
LEMMA NumberedReply ==
    ASSUME TypeOK, Numbered, NEW k \in Handlers, ServerTakesReply(k)
    PROVE  Numbered'
<1> SUFFICES ASSUME NEW h \in Handlers
             PROVE  /\ Line(ReplyIds(replies'[h]), Ids(queue'[h]), sent')
                    /\ \A f \in Fds : stored'[f] # NoRequest =>
                          Below(stored'[f].ready[h], ReplyIds(replies'[h]), Ids(queue'[h]), sent')
  BY DEF Numbered
<1> DEFINE a == ReplyIds(replies[h])
           b == Ids(queue[h])
           r == Head(replies[k])
<1>1. /\ Line(a, b, sent)
      /\ \A f \in Fds : stored[f] # NoRequest => Below(stored[f].ready[h], a, b, sent)
  BY DEF Numbered
<1>2. /\ replies[h] \in Seq(Reply)
      /\ a \in Seq(Nat) /\ b \in Seq(Nat) /\ sent \in Nat
      /\ \A f \in Fds : stored[f] # NoRequest => stored[f].ready[h] \in Nat
  BY NumberTypes
<1>3. TakeReply(k)
  BY DEF ServerTakesReply, ReplyIgnored, ReplyRaises, ReplyRecorded, ReplyCompletes
<1>4. sent' = sent /\ Ids(queue'[h]) = b /\ r \in Reply /\ replies[k] # <<>>
  BY <1>3, TakeReplyType DEF TakeReply
<1>5. \/ h # k /\ ReplyIds(replies'[h]) = a
      \/ h = k /\ a # <<>> /\ ReplyIds(replies'[h]) = Tail(a) /\ Head(a) = r.msg.id
  <2>1. CASE h # k
    BY <1>3, <2>1 DEF TakeReply, TypeOK
  <2>2. CASE h = k
    <3>1. replies'[h] = Tail(replies[h]) /\ replies[h] # <<>>
      BY <1>3, <2>2 DEF TakeReply, TypeOK
    <3> QED BY <1>2, <1>4, <2>2, <3>1, ReplyIdsOf
  <2> QED BY <2>1, <2>2
<1>6. \A f \in Fds : stored'[f] # NoRequest =>
         \/ stored[f] # NoRequest /\ stored'[f].ready[h] = stored[f].ready[h]
         \/ h = k /\ stored'[f].ready[h] = r.msg.id
  <2>1. CASE ReplyIgnored(k) \/ ReplyRaises(k)
    BY <2>1 DEF ReplyIgnored, ReplyRaises
  <2>2. CASE ReplyRecorded(k) \/ ReplyCompletes(k)
    <3>1. CanRecord(r) /\ stored' = [stored EXCEPT ![r.msg.fd] = Recorded(k, r)]
      BY <2>2 DEF ReplyRecorded, ReplyCompletes
    <3>2. /\ stored[r.msg.fd] # NoRequest
          /\ Recorded(k, r).ready = [stored[r.msg.fd].ready EXCEPT ![k] = r.msg.id]
          /\ stored[r.msg.fd].ready \in [Handlers -> 0..MaxRequests]
      <4>1. /\ stored[r.msg.fd] \in StoredRequests
            /\ Recorded(k, r).ready = [stored[r.msg.fd].ready EXCEPT ![k] = r.msg.id]
        BY <1>4, <3>1, RecordedType
      <4> QED BY <3>1, <4>1 DEF CanRecord, StoredRequests
    <3> HIDE DEF r
    <3>3. Recorded(k, r).ready[h] = IF h = k THEN r.msg.id ELSE stored[r.msg.fd].ready[h]
      BY <3>2
    <3> QED BY <3>1, <3>2, <3>3 DEF TypeOK
  <2> QED BY <2>1, <2>2 DEF ServerTakesReply
<1> HIDE DEF a, b, r
<1>7. Line(ReplyIds(replies'[h]), b, sent)
  BY <1>1, <1>2, <1>5, LineTake
<1>8. \A f \in Fds : stored[f] # NoRequest =>
         Below(stored[f].ready[h], ReplyIds(replies'[h]), b, sent)
  BY <1>1, <1>2, <1>5, BelowKept
<1>9. h = k => Below(r.msg.id, ReplyIds(replies'[h]), b, sent)
  BY <1>1, <1>2, <1>5, LineTake
<1> QED BY <1>4, <1>6, <1>7, <1>8, <1>9

(* Every step keeps the numbering of what is in flight. *)
LEMMA NumberedStep == TypeOK /\ Numbered /\ [Next]_vars => Numbered'
<1> SUFFICES ASSUME TypeOK, Numbered, [Next]_vars PROVE Numbered'
  OBVIOUS
<1>1. CASE \E fd \in Fds : Connection(fd)
  <2>1. PICK fd \in Fds : Accept(fd) \/ PeerClose(fd) \/ CloseClient(fd)
    BY <1>1 DEF Connection
  <2>2. /\ queue' = queue /\ replies' = replies /\ sent' = sent
        /\ \A f \in Fds : stored'[f] = stored[f] \/ stored'[f] = NoRequest
    BY <2>1 DEF Accept, PeerClose, CloseClient, TypeOK
  <2> QED BY <2>2 DEF Numbered
<1>2. CASE \E fd \in Fds : ClientRequest(fd)
  BY <1>2, ClientRequestOutcome, NumberedRequest
<1>3. CASE \E h \in Handlers : HandlerStep(h)
  BY <1>3, NumberedHandler
<1>4. CASE \E h \in Handlers : ServerTakesReply(h)
  BY <1>4, NumberedReply
<1>5. CASE \E h \in Handlers : HandlerStops(h)
  BY <1>5 DEF HandlerStops, Numbered
<1>6. CASE UNCHANGED vars
  BY <1>6 DEF vars, Numbered
<1> QED BY <1>1, <1>2, <1>3, <1>4, <1>5, <1>6 DEF Next

(* A mark of a handler is behind everything that handler still has to      *)
(* serve or has replied (ReadyMeansServed), however descriptors are reused *)
(* by the clients that come and go.                                        *)
THEOREM MarksAreServed == Spec => []ReadyMeansServed
<1>1. Init => Numbered
  BY NumberedInit
<1>2. TypeOK /\ Numbered /\ [Next]_vars => Numbered'
  BY NumberedStep
<1>3. TypeOK /\ Numbered => ReadyMeansServed
  <2> SUFFICES ASSUME TypeOK, Numbered, NEW fd \in Fds, NEW h \in Handlers,
                      stored[fd] # NoRequest
               PROVE  /\ \A i \in 1..Len(queue[h]) : queue[h][i].id > stored[fd].ready[h]
                      /\ \A i \in 1..Len(replies[h]) :
                            replies[h][i].msg.id > stored[fd].ready[h]
    BY DEF ReadyMeansServed
  <2>1. Below(stored[fd].ready[h], ReplyIds(replies[h]), Ids(queue[h]), sent)
    BY DEF Numbered
  <2>2. queue[h] \in Seq(Message) /\ replies[h] \in Seq(Reply)
    BY NumberTypes
  <2>3. /\ Len(Ids(queue[h])) = Len(queue[h])
        /\ Len(ReplyIds(replies[h])) = Len(replies[h])
    BY <2>2 DEF Ids, ReplyIds
  <2>4. ASSUME NEW i \in 1..Len(queue[h]) PROVE queue[h][i].id > stored[fd].ready[h]
    <3>1. Ids(queue[h])[i] = queue[h][i].id
      BY DEF Ids
    <3>2. stored[fd].ready[h] < Ids(queue[h])[i]
      BY <2>1, <2>3 DEF Below
    <3> QED BY <3>1, <3>2
  <2>5. ASSUME NEW i \in 1..Len(replies[h])
        PROVE  replies[h][i].msg.id > stored[fd].ready[h]
    <3>1. ReplyIds(replies[h])[i] = replies[h][i].msg.id
      BY DEF ReplyIds
    <3>2. stored[fd].ready[h] < ReplyIds(replies[h])[i]
      BY <2>1, <2>3 DEF Below
    <3> QED BY <3>1, <3>2
  <2> QED BY <2>4, <2>5
<1> QED BY <1>1, <1>2, <1>3, TypeCorrect, PTL DEF Spec

-----------------------------------------------------------------------------
(* A completing reply needs a mark of every handler. *)
LEMMA NoCompletionWithoutDead ==
    ASSUME TypeOK, NEW h \in Handlers, Gone(h), NEW k \in Handlers
    PROVE  ~ReplyCompletes(k)
<1> SUFFICES ASSUME ReplyCompletes(k) PROVE FALSE
  OBVIOUS
<1> DEFINE r == Head(replies[k])
<1>1. TakeReply(k) /\ CanRecord(r) /\ AllReady(Recorded(k, r))
  BY DEF ReplyCompletes
<1>2. r \in Reply /\ replies[k] # <<>>
  BY <1>1, TakeReplyType DEF TakeReply
<1>3. h # k
  BY <1>2 DEF Gone
<1>4. stored[r.msg.fd] \in StoredRequests /\ stored[r.msg.fd] # NoRequest /\ r.msg.fd \in Fds
  BY <1>1, <1>2, RecordedType DEF CanRecord, Reply, Message, Fields
<1>5. stored[r.msg.fd].ready[h] = 0
  BY <1>4 DEF Gone
<1>6. Recorded(k, r).ready = [stored[r.msg.fd].ready EXCEPT ![k] = r.msg.id]
  BY <1>1, <1>2, RecordedType
<1> HIDE DEF r
<1>7. Recorded(k, r).ready[h] = 0
  BY <1>3, <1>4, <1>5, <1>6 DEF StoredRequests
<1> QED BY <1>1, <1>7 DEF AllReady

(* Once a handler is gone the operation DB has seen its last user, group   *)
(* and membership, although the server goes on accepting the requests      *)
(* (OpFrozenByDeadHandler): a supported baud rate is enough.               *)
THEOREM DeadHandlerFreezesOp == Spec => OpFrozenByDeadHandler
<1>1. ASSUME TypeOK, [Next]_vars, NEW h \in Handlers, Gone(h)
      PROVE  op'.users = op.users /\ op'.groups = op.groups /\ op'.member = op.member
  <2>1. CASE \E fd \in Fds : Connection(fd)
    BY <2>1 DEF Connection, Accept, PeerClose, CloseClient
  <2>2. CASE \E fd \in Fds : ClientRequest(fd)
    BY <1>1, <2>2, ClientRequestOutcome DEF RequestOutcome
  <2>3. CASE \E k \in Handlers : HandlerStep(k)
    BY <2>3 DEF HandlerStep, HandlerServes, HandlerCrashes
  <2>4. CASE \E k \in Handlers : ServerTakesReply(k)
    BY <1>1, <2>4, NoCompletionWithoutDead
    DEF ServerTakesReply, ReplyIgnored, ReplyRaises, ReplyRecorded
  <2>5. CASE \E k \in Handlers : HandlerStops(k)
    BY <2>5 DEF HandlerStops
  <2>6. CASE UNCHANGED vars
    BY <2>6 DEF vars
  <2> QED BY <1>1, <2>1, <2>2, <2>3, <2>4, <2>5, <2>6 DEF Next
<1>2. TypeOK /\ [Next]_vars => [(\E h \in Handlers : Gone(h))
         => /\ op'.users = op.users
            /\ op'.groups = op.groups
            /\ op'.member = op.member]_vars
  BY <1>1
<1> QED BY <1>2, TypeCorrect, PTL DEF Spec, OpFrozenByDeadHandler

-----------------------------------------------------------------------------
(***************************************************************************)
(* The roles.  Three requests change the role of a user that stays, each   *)
(* through _sync_user_role; the replies write a role only for a user that  *)
(* comes or goes.                                                          *)
(***************************************************************************)

(* The role r is what the table says of u: the explicit role, or that of a *)
(* group, no weaker than the role of any other.                            *)
Fits(db, u, r) ==
    IF db.role[u] # NoRole THEN r = db.role[u]
    ELSE /\ \E g \in GroupsOf(db, u) : r = db.groupRole[g]
         /\ \A g \in GroupsOf(db, u) : Priority[r] <= Priority[db.groupRole[g]]

RolesFit ==
    \A u \in op.users \cap op'.users :
        op'.role[u] # op.role[u] => Fits(config', u, op'.role[u])

(* _sync_user_role returns a role that fits. *)
LEMMA SyncedFits ==
    ASSUME NEW db \in RoleTables, NEW u \in Users, "ok" \in SyncOutcomes(db, u)
    PROVE  Fits(db, u, SyncedRole(db, u))
  BY SyncedRoleType DEF Fits

(* When only one user is synchronised. *)
LEMMA OneSynced ==
    ASSUME TypeOK, NEW new \in RoleTables, config' = new, NEW u \in Users,
           op' = op \/ ("ok" \in SyncOutcomes(new, u)
                        /\ op' = [op EXCEPT !.role[u] = SyncedRole(new, u)])
    PROVE  RolesFit
<1>1. "ok" \in SyncOutcomes(new, u) => Fits(new, u, SyncedRole(new, u))
  BY SyncedFits
<1>2. op \in RoleTables
  BY DEF TypeOK
<1>3. \A v \in op.users : op'.role[v] = op.role[v] \/ (v = u /\ op'.role[v] = SyncedRole(new, u)
                                                       /\ "ok" \in SyncOutcomes(new, u))
  BY <1>2 DEF RoleTables
<1> QED BY <1>1, <1>3 DEF RolesFit

(* A join synchronises the user that joins. *)
LEMMA UserJoinFits ==
    ASSUME TypeOK, NEW fd \in Fds, NEW x \in Users, NEW u \in Users, NEW g \in Groups,
           UserJoin(fd, x, u, g)
    PROVE  RolesFit
<1> DEFINE new == JoinIn(config, u, g)
<1>1. CASE <<u, g>> = <<Admin, DefaultGroup>> \/ ~CanJoin(config, u, g)
  BY <1>1 DEF UserJoin, RolesFit
<1>2. CASE ~(<<u, g>> = <<Admin, DefaultGroup>> \/ ~CanJoin(config, u, g))
  <2>1. config' = new /\ new \in RoleTables
    BY <1>2, RoleTableOperations DEF UserJoin, TypeOK
  <2>2. op' = op \/ ("ok" \in SyncOutcomes(new, u)
                     /\ op' = [op EXCEPT !.role[u] = SyncedRole(new, u)])
    BY <1>2 DEF UserJoin
  <2> HIDE DEF new
  <2> QED BY <2>1, <2>2, OneSynced
<1> QED BY <1>1, <1>2

(* A new explicit role synchronises its user. *)
LEMMA ModifyUserRoleFits ==
    ASSUME TypeOK, NEW fd \in Fds, NEW x \in Users, NEW u \in Users, NEW r \in RoleChoices,
           ModifyUserRole(fd, x, u, r)
    PROVE  RolesFit
<1> DEFINE new == [config EXCEPT !.role[u] = r]
<1>1. CASE r \notin ValidRoles \cup {NoRole} \/ u \notin config.users
  BY <1>1 DEF ModifyUserRole, RolesFit
<1>2. CASE ~(r \notin ValidRoles \cup {NoRole} \/ u \notin config.users)
  <2>1. config' = new /\ new \in RoleTables
    BY <1>2, RoleTableOperations, ConstantsAssumption DEF ModifyUserRole, TypeOK
  <2>2. op' = op \/ ("ok" \in SyncOutcomes(new, u)
                     /\ op' = [op EXCEPT !.role[u] = SyncedRole(new, u)])
    BY <1>2 DEF ModifyUserRole
  <2> HIDE DEF new
  <2> QED BY <2>1, <2>2, OneSynced
<1> QED BY <1>1, <1>2

(* A new role of a group synchronises its users, all of them or those      *)
(* before the first failure.                                               *)
LEMMA ModifyGroupFits ==
    ASSUME TypeOK, NEW fd \in Fds, NEW x \in Users, NEW g \in Groups, NEW r \in RoleChoices,
           ModifyGroup(fd, x, g, r)
    PROVE  RolesFit
<1> DEFINE new      == [config EXCEPT !.groupRole[g] = r]
           affected == {u \in op.users : <<u, g>> \in op.member}
           good     == {u \in affected : "ok" \in SyncOutcomes(new, u)}
           synced(S) == [u \in Users |-> IF u \in S THEN SyncedRole(new, u) ELSE op.role[u]]
<1>1. CASE g = DefaultGroup \/ g \notin config.groups
  BY <1>1 DEF ModifyGroup, RolesFit
<1>2. CASE ~(g = DefaultGroup \/ g \notin config.groups)
  <2>1. config' = new /\ new \in RoleTables
    BY <1>2, RoleTableOperations, ConstantsAssumption DEF ModifyGroup, TypeOK
  <2>2. op \in RoleTables
    BY DEF TypeOK
  <2>3. \E done \in SUBSET good :
           \/ op' = [op EXCEPT !.role = synced(done),
                               !.groupRole[g] = IF g \in op.groups THEN r ELSE @]
           \/ op' = [op EXCEPT !.role = synced(done)]
    <3>1. good \in SUBSET good
      OBVIOUS
    <3>2. \/ op' = [op EXCEPT !.role = synced(good),
                              !.groupRole[g] = IF g \in op.groups THEN r ELSE @]
          \/ \E done \in SUBSET good : op' = [op EXCEPT !.role = synced(done)]
      BY <1>2 DEF ModifyGroup
    <3> HIDE DEF good, synced
    <3> QED BY <3>1, <3>2
  <2>4. PICK done \in SUBSET good : op'.role = synced(done)
    <3> HIDE DEF good, synced
    <3> QED BY <2>2, <2>3 DEF RoleTables
  <2>5. ASSUME NEW u \in op.users, op'.role[u] # op.role[u]
        PROVE  Fits(new, u, op'.role[u])
    <3>1. u \in Users
      BY <2>2 DEF RoleTables
    <3>2. u \in done /\ op'.role[u] = SyncedRole(new, u)
      BY <2>4, <2>5, <3>1
    <3>3. "ok" \in SyncOutcomes(new, u)
      BY <2>4, <3>2
    <3> HIDE DEF new
    <3> QED BY <2>1, <3>1, <3>2, <3>3, SyncedFits
  <2> QED BY <2>1, <2>5 DEF RolesFit
<1> QED BY <1>1, <1>2

(* No other request touches a role of the operation DB. *)
LEMMA RequestFits ==
    ASSUME TypeOK, NEW fd \in Fds, ClientRequest(fd)
    PROVE  RolesFit
<1>1. op' = op => RolesFit
  BY DEF RolesFit
<1> QED BY <1>1, UserJoinFits, ModifyUserRoleFits, ModifyGroupFits
    DEF ClientRequest, Denied, CreateGroup, DestroyGroup, AddUser, DelUser, UserLeave,
        PortJoin, PortLeave, SetBaudRate

(* A completed request writes the role of a user that was not there, or    *)
(* clears the role of a user that goes.                                    *)
LEMMA ReplyFits ==
    ASSUME TypeOK, NEW h \in Handlers, ServerTakesReply(h)
    PROVE  RolesFit
<1>1. CASE op' = op
  BY <1>1 DEF RolesFit
<1>2. CASE ReplyCompletes(h)
  <2> DEFINE r == Head(replies[h])
             m == r.msg
             new == Applied(op, m)
  <2>1. TakeReply(h) /\ CanRecord(r) /\ op' = new
    BY <1>2 DEF ReplyCompletes
  <2>2. r \in Reply
    BY <2>1, TakeReplyType DEF TakeReply
  <2>3. m.kind \in FanOutKinds
    BY <2>1, <2>2 DEF CanRecord, Reply
  <2>4. op \in RoleTables
    BY DEF TypeOK
  <2> HIDE DEF m
  <2>5. \A u \in op.users \cap new.users : new.role[u] = op.role[u]
    <3>1. CASE m.kind = "create_group"
      BY <2>4, <3>1 DEF Applied, RoleTables, CreateGroupIn
    <3>2. CASE m.kind = "destroy_group"
      BY <2>4, <3>2 DEF Applied, RoleTables, DestroyGroupIn
    <3>3. CASE m.kind = "add_user"
      BY <2>4, <3>3 DEF Applied, RoleTables, AddUserIn, CanAddUser
    <3>4. CASE m.kind = "del_user"
      BY <2>4, <3>4 DEF Applied, RoleTables, DelUserIn
    <3>5. CASE m.kind \in {"user_join", "user_leave"}
      BY <2>4, <3>5 DEF Applied, RoleTables, JoinIn, LeaveIn
    <3> QED BY <2>3, <3>1, <3>2, <3>3, <3>4, <3>5 DEF FanOutKinds
  <2> QED BY <2>1, <2>5 DEF RolesFit
<1> QED BY <1>1, <1>2 DEF ServerTakesReply, ReplyIgnored, ReplyRaises, ReplyRecorded

(* A role of the operation DB changes only to what the configuration DB of *)
(* that moment gives (RoleChangesFollowConfig), whatever is in flight.     *)
THEOREM RoleChangesFollow == Spec => RoleChangesFollowConfig
<1>1. TypeOK /\ [Next]_vars => [RolesFit]_vars
  <2> SUFFICES ASSUME TypeOK, Next PROVE RolesFit
    OBVIOUS
  <2>1. CASE \E fd \in Fds : Connection(fd)
    BY <2>1 DEF Connection, Accept, PeerClose, CloseClient, RolesFit
  <2>2. CASE \E fd \in Fds : ClientRequest(fd)
    BY <2>2, RequestFits
  <2>3. CASE \E h \in Handlers : HandlerStep(h)
    BY <2>3 DEF HandlerStep, HandlerServes, HandlerCrashes, RolesFit
  <2>4. CASE \E h \in Handlers : ServerTakesReply(h)
    BY <2>4, ReplyFits
  <2>5. CASE \E h \in Handlers : HandlerStops(h)
    BY <2>5 DEF HandlerStops, RolesFit
  <2> QED BY <2>1, <2>2, <2>3, <2>4, <2>5 DEF Next
<1>2. [RolesFit]_vars =>
        [\A u \in op.users \cap op'.users :
           op'.role[u] # op.role[u] =>
             IF config'.role[u] # NoRole
             THEN op'.role[u] = config'.role[u]
             ELSE /\ \E g \in GroupsOf(config', u) : op'.role[u] = config'.groupRole[g]
                  /\ \A g \in GroupsOf(config', u) :
                        Priority[op'.role[u]] <= Priority[config'.groupRole[g]]]_vars
  BY DEF RolesFit, Fits
<1> QED BY <1>1, <1>2, TypeCorrect, PTL DEF Spec, RoleChangesFollowConfig

=============================================================================
