----------------------------- MODULE AccountProofs -----------------------------
(***************************************************************************)
(* Proofs about the account tables: the default account is never lost;     *)
(* what a handler has differs from the configuration DB only by what its   *)
(* queue still holds; two handlers with the same messages to go have the   *)
(* same tables; a handler knows no membership that the configuration DB    *)
(* does not have; and the server and its handlers implement                *)
(* AccountReplication.                                                     *)
(***************************************************************************)
EXTENDS ReplyProofs, ConsoleServerRefinement

-----------------------------------------------------------------------------
(***************************************************************************)
(* A name that is added at the positions A of a queue and removed at the   *)
(* positions D, and S is the set of names before the queue is served: is   *)
(* the name there when position n is reached?                              *)
(***************************************************************************)
On(A, D, S, name, n) ==
    \/ \E j \in A : j < n /\ \A k \in D : ~(j < k /\ k < n)
    \/ name \in S /\ \A k \in D : n <= k

-----------------------------------------------------------------------------
At(q, kind, field, name) == {j \in 1..Len(q) : q[j].kind = kind /\ q[j][field] = name}

UserAt(q, users, u, n) ==
    On(At(q, "add_user", "user", u), At(q, "del_user", "user", u), users, u, n)

GroupAt(q, groups, g, n) ==
    On(At(q, "create_group", "group", g), At(q, "destroy_group", "group", g), groups, g, n)

(* The positions of a kind of message, after an append and after a tail. *)
LEMMA AtAppend ==
    ASSUME NEW q \in Seq(Message), NEW m \in Message, NEW kind, NEW name,
           NEW field \in {"user", "group"}
    PROVE  At(Append(q, m), kind, field, name) =
              At(q, kind, field, name)
                 \cup (IF m.kind = kind /\ m[field] = name THEN {Len(q) + 1} ELSE {})
<1>1. /\ Len(Append(q, m)) = Len(q) + 1 /\ Len(q) \in Nat
      /\ \A i \in 1..Len(q) : Append(q, m)[i] = q[i]
      /\ Append(q, m)[Len(q) + 1] = m
  BY AppendAt
<1> QED BY <1>1 DEF At

(* The same after the head is gone: every position moves down by one. *)
LEMMA AtTail ==
    ASSUME NEW q \in Seq(Message), q # <<>>, NEW kind, NEW name, NEW field \in {"user", "group"}
    PROVE  /\ \A j \in Nat \ {0} :
                 j \in At(Tail(q), kind, field, name) <=> j + 1 \in At(q, kind, field, name)
           /\ 1 \in At(q, kind, field, name) <=> Head(q).kind = kind /\ Head(q)[field] = name
           /\ At(q, kind, field, name) \in SUBSET (Nat \ {0})
           /\ At(Tail(q), kind, field, name) \in SUBSET (Nat \ {0})
<1>1. /\ Head(q) = q[1] /\ Len(q) \in Nat /\ 1 \in 1..Len(q)
      /\ Len(Tail(q)) = Len(q) - 1
      /\ \A i \in 1..Len(Tail(q)) : Tail(q)[i] = q[i + 1]
  BY TailAt
<1> QED BY <1>1 DEF At

-----------------------------------------------------------------------------
(* A message is appended: the presence at the old positions stays, and the *)
(* message decides the one behind it.                                      *)
LEMMA PresenceAppend ==
    ASSUME NEW q \in Seq(Message), NEW m \in Message, NEW field \in {"user", "group"},
           NEW add, NEW del, add # del, NEW name, NEW S
    PROVE  LET A  == At(q, add, field, name)
               D  == At(q, del, field, name)
               A1 == At(Append(q, m), add, field, name)
               D1 == At(Append(q, m), del, field, name)
           IN  /\ \A n \in 1..(Len(q) + 1) : On(A1, D1, S, name, n) <=> On(A, D, S, name, n)
               /\ m.kind = add /\ m[field] = name => On(A1, D1, S, name, Len(q) + 2)
               /\ m.kind = del /\ m[field] = name => ~On(A1, D1, S, name, Len(q) + 2)
               /\ m.kind \notin {add, del} \/ m[field] # name =>
                     (On(A1, D1, S, name, Len(q) + 2) <=> On(A, D, S, name, Len(q) + 1))
<1> DEFINE l == Len(q)
           A == At(q, add, field, name)
           D == At(q, del, field, name)
           X == IF m.kind = add /\ m[field] = name THEN {l + 1} ELSE {}
           Y == IF m.kind = del /\ m[field] = name THEN {l + 1} ELSE {}
<1>1. /\ At(Append(q, m), add, field, name) = A \cup X
      /\ At(Append(q, m), del, field, name) = D \cup Y
  BY AtAppend
<1>2. l \in Nat /\ A \in SUBSET (1..l) /\ D \in SUBSET (1..l)
  BY DEF At
<1>3. /\ m.kind = add /\ m[field] = name => X = {l + 1} /\ Y = {}
      /\ m.kind = del /\ m[field] = name => X = {} /\ Y = {l + 1}
      /\ m.kind \notin {add, del} \/ m[field] # name => X = {} /\ Y = {}
      /\ X \in SUBSET {l + 1} /\ Y \in SUBSET {l + 1}
  OBVIOUS
<1> HIDE DEF l, A, D, X, Y
<1>4. \A n \in 1..(l + 1) : On(A \cup X, D \cup Y, S, name, n) <=> On(A, D, S, name, n)
  BY <1>2, <1>3 DEF On
<1>5. ASSUME X = {l + 1}, Y = {} PROVE On(A \cup X, D \cup Y, S, name, l + 2)
  <2>1. l + 1 \in A \cup X /\ l + 1 < l + 2
    BY <1>2, <1>5
  <2>2. \A k \in D \cup Y : ~(l + 1 < k /\ k < l + 2)
    BY <1>2, <1>5
  <2> QED BY <2>1, <2>2 DEF On
<1>6. ASSUME X = {}, Y = {l + 1} PROVE ~On(A \cup X, D \cup Y, S, name, l + 2)
  <2>1. l + 1 \in D \cup Y /\ A \cup X = A
    BY <1>6
  <2> QED BY <1>2, <2>1 DEF On
<1>7. ASSUME X = {}, Y = {}
      PROVE  On(A \cup X, D \cup Y, S, name, l + 2) <=> On(A, D, S, name, l + 1)
  <2>1. A \cup X = A /\ D \cup Y = D
    BY <1>7
  <2>2. On(A, D, S, name, l + 2) <=> On(A, D, S, name, l + 1)
    BY <1>2 DEF On
  <2> QED BY <2>1, <2>2
<1>8. /\ \A n \in 1..(l + 1) : On(A \cup X, D \cup Y, S, name, n) <=> On(A, D, S, name, n)
      /\ m.kind = add /\ m[field] = name => On(A \cup X, D \cup Y, S, name, l + 2)
      /\ m.kind = del /\ m[field] = name => ~On(A \cup X, D \cup Y, S, name, l + 2)
      /\ m.kind \notin {add, del} \/ m[field] # name =>
            (On(A \cup X, D \cup Y, S, name, l + 2) <=> On(A, D, S, name, l + 1))
  BY <1>3, <1>4, <1>5, <1>6, <1>7
<1> QED BY <1>1, <1>8 DEF l, A, D

(* The head is served: the presence shifts by one position.  A name that   *)
(* stays although its removal was served only makes more names present.    *)
LEMMA PresenceTail ==
    ASSUME NEW q \in Seq(Message), q # <<>>, NEW field \in {"user", "group"},
           NEW add, NEW del, add # del, NEW name, NEW S, NEW S1,
           NEW n \in Nat \ {0},
           \/ Head(q).kind = add /\ Head(q)[field] = name /\ name \in S1
           \/ ~(Head(q).kind = add /\ Head(q)[field] = name)
              /\ (name \in S /\ ~(Head(q).kind = del /\ Head(q)[field] = name) => name \in S1)
    PROVE  LET A  == At(q, add, field, name)
               D  == At(q, del, field, name)
               A1 == At(Tail(q), add, field, name)
               D1 == At(Tail(q), del, field, name)
           IN  /\ On(A, D, S, name, n + 1) => On(A1, D1, S1, name, n)
               /\ (name \in S1 =>
                     \/ Head(q).kind = add /\ Head(q)[field] = name
                     \/ name \in S /\ ~(Head(q).kind = del /\ Head(q)[field] = name))
                    => (On(A1, D1, S1, name, n) => On(A, D, S, name, n + 1))
<1> DEFINE A == At(q, add, field, name)
           D == At(q, del, field, name)
           A1 == At(Tail(q), add, field, name)
           D1 == At(Tail(q), del, field, name)
<1>1. /\ \A j \in Nat \ {0} : (j \in A1 <=> j + 1 \in A)
      /\ 1 \in A <=> Head(q).kind = add /\ Head(q)[field] = name
      /\ A \in SUBSET (Nat \ {0}) /\ A1 \in SUBSET (Nat \ {0})
  BY AtTail
<1>2. /\ \A j \in Nat \ {0} : (j \in D1 <=> j + 1 \in D)
      /\ 1 \in D <=> Head(q).kind = del /\ Head(q)[field] = name
      /\ D \in SUBSET (Nat \ {0}) /\ D1 \in SUBSET (Nat \ {0})
  BY AtTail
<1>3. (1 \in A \/ (name \in S /\ 1 \notin D)) => name \in S1
  BY <1>1, <1>2
<1>4. 1 \notin A \/ 1 \notin D
  BY <1>1, <1>2
<1>0. /\ A \in SUBSET (Nat \ {0}) /\ D \in SUBSET (Nat \ {0})
      /\ A1 \in SUBSET (Nat \ {0}) /\ D1 \in SUBSET (Nat \ {0})
      /\ \A j \in Nat \ {0} : (j \in A1 <=> j + 1 \in A) /\ (j \in D1 <=> j + 1 \in D)
  BY <1>1, <1>2
<1> HIDE DEF A, D, A1, D1
<1>5. ASSUME NEW j \in A, j < n + 1, \A k \in D : ~(j < k /\ k < n + 1)
      PROVE  On(A1, D1, S1, name, n)
  <2>1. CASE j = 1
    <3>1. \A k \in D1 : n <= k
      BY <1>0, <1>5, <2>1
    <3> QED BY <1>3, <1>5, <2>1, <3>1 DEF On
  <2>2. CASE j # 1
    <3>1. j - 1 \in Nat \ {0} /\ (j - 1) + 1 = j
      BY <1>0, <2>2
    <3>2. j - 1 \in A1 /\ j - 1 < n
      BY <1>0, <1>5, <3>1
    <3>3. \A k \in D1 : ~(j - 1 < k /\ k < n)
      BY <1>0, <1>5
    <3> QED BY <3>2, <3>3 DEF On
  <2> QED BY <2>1, <2>2
<1>6. ASSUME name \in S, \A k \in D : n + 1 <= k
      PROVE  On(A1, D1, S1, name, n)
  <2>1. 1 \notin D
    BY <1>0, <1>6
  <2>2. \A k \in D1 : n <= k
    BY <1>0, <1>6
  <2> QED BY <1>3, <1>6, <2>1, <2>2 DEF On
<1>7. ASSUME name \in S1 => (1 \in A \/ (name \in S /\ 1 \notin D)),
             NEW j \in A1, j < n, \A k \in D1 : ~(j < k /\ k < n)
      PROVE  On(A, D, S, name, n + 1)
  <2>1. j + 1 \in A /\ j + 1 < n + 1
    BY <1>0, <1>7
  <2>2. ASSUME NEW k \in D, j + 1 < k, k < n + 1 PROVE FALSE
    <3>1. k - 1 \in Nat \ {0} /\ (k - 1) + 1 = k
      BY <1>0, <2>2
    <3>2. k - 1 \in D1 /\ j < k - 1 /\ k - 1 < n
      BY <1>0, <2>2, <3>1
    <3> QED BY <1>7, <3>2
  <2> QED BY <1>0, <2>1, <2>2 DEF On
<1>8. ASSUME name \in S1 => (1 \in A \/ (name \in S /\ 1 \notin D)),
             name \in S1, \A k \in D1 : n <= k
      PROVE  On(A, D, S, name, n + 1)
  <2>1. ASSUME NEW k \in D, k # 1 PROVE n + 1 <= k
    <3>1. k - 1 \in Nat \ {0} /\ (k - 1) + 1 = k
      BY <1>0, <2>1
    <3>2. k - 1 \in D1
      BY <1>0, <3>1
    <3> QED BY <1>8, <3>1, <3>2
  <2>2. CASE 1 \in A
    BY <1>0, <2>1, <2>2 DEF On
  <2>3. CASE name \in S /\ 1 \notin D
    BY <1>0, <2>1, <2>3 DEF On
  <2> QED BY <1>8, <2>2, <2>3
<1>9. /\ On(A, D, S, name, n + 1) => On(A1, D1, S1, name, n)
      /\ (name \in S1 => (1 \in A \/ (name \in S /\ 1 \notin D)))
            => (On(A1, D1, S1, name, n) => On(A, D, S, name, n + 1))
  BY <1>0, <1>5, <1>6, <1>7, <1>8 DEF On
<1> QED BY <1>1, <1>2, <1>9 DEF A, D, A1, D1

(* The same for users and for groups. *)
LEMMA UserAtAppend ==
    ASSUME NEW q \in Seq(Message), NEW m \in Message, NEW users, NEW u
    PROVE  /\ \A n \in 1..(Len(q) + 1) :
                 UserAt(Append(q, m), users, u, n) <=> UserAt(q, users, u, n)
           /\ m.kind = "add_user" /\ m.user = u => UserAt(Append(q, m), users, u, Len(q) + 2)
           /\ m.kind = "del_user" /\ m.user = u => ~UserAt(Append(q, m), users, u, Len(q) + 2)
           /\ m.kind \notin {"add_user", "del_user"} \/ m.user # u =>
                 (UserAt(Append(q, m), users, u, Len(q) + 2) <=> UserAt(q, users, u, Len(q) + 1))
  BY PresenceAppend DEF UserAt

(* A new message decides about its own group only, and only at the end of the queue. *)
LEMMA GroupAtAppend ==
    ASSUME NEW q \in Seq(Message), NEW m \in Message, NEW groups, NEW g
    PROVE  /\ \A n \in 1..(Len(q) + 1) :
                 GroupAt(Append(q, m), groups, g, n) <=> GroupAt(q, groups, g, n)
           /\ m.kind = "create_group" /\ m.group = g => GroupAt(Append(q, m), groups, g, Len(q) + 2)
           /\ m.kind = "destroy_group" /\ m.group = g => ~GroupAt(Append(q, m), groups, g, Len(q) + 2)
           /\ m.kind \notin {"create_group", "destroy_group"} \/ m.group # g =>
                 (GroupAt(Append(q, m), groups, g, Len(q) + 2) <=> GroupAt(q, groups, g, Len(q) + 1))
  BY PresenceAppend DEF GroupAt

(* Serving the head of the queue leaves what the rest of the queue leads to. *)
LEMMA UserAtTail ==
    ASSUME NEW q \in Seq(Message), q # <<>>, NEW users, NEW users1, NEW u,
           NEW n \in Nat \ {0},
           u \in users1 <=>
              \/ Head(q).kind = "add_user" /\ Head(q).user = u
              \/ u \in users /\ ~(Head(q).kind = "del_user" /\ Head(q).user = u)
    PROVE  UserAt(Tail(q), users1, u, n) <=> UserAt(q, users, u, n + 1)
  BY PresenceTail DEF UserAt

(* The same for a group: a handler that keeps more groups does no harm. *)
LEMMA GroupAtTail ==
    ASSUME NEW q \in Seq(Message), q # <<>>, NEW groups, NEW groups1, NEW g,
           NEW n \in Nat \ {0},
           (\/ Head(q).kind = "create_group" /\ Head(q).group = g
            \/ g \in groups /\ ~(Head(q).kind = "destroy_group" /\ Head(q).group = g))
              => g \in groups1,
           GroupAt(q, groups, g, n + 1)
    PROVE  GroupAt(Tail(q), groups1, g, n)
  BY PresenceTail DEF GroupAt

-----------------------------------------------------------------------------
(***************************************************************************)
(* One handler, with queue q and table db, against the users and groups of *)
(* the configuration DB: replaying q from db never meets a user that is    *)
(* there already, a user or a group that is missing, and ends in exactly   *)
(* those users and at least those groups.                                  *)
(***************************************************************************)
NeedsUser == {"del_user", "user_join", "user_leave"}

Agreement(users, groups, q, db) ==
    /\ \A i \in 1..Len(q) :
          q[i].kind = "add_user" => /\ ~UserAt(q, db.users, q[i].user, i)
                                    /\ GroupAt(q, db.groups, q[i].group, i)
    /\ \A i \in 1..Len(q) :
          q[i].kind \in NeedsUser => UserAt(q, db.users, q[i].user, i)
    /\ \A u \in Users : u \in users <=> UserAt(q, db.users, u, Len(q) + 1)
    /\ \A g \in groups : GroupAt(q, db.groups, g, Len(q) + 1)

AccountKinds == {"create_group", "destroy_group", "add_user", "del_user"}

(* A message joins the queue while the configuration DB makes its change.  *)
LEMMA AgreementAppend ==
    ASSUME NEW users, NEW groups, NEW q \in Seq(Message), NEW db, NEW m \in Message,
           NEW users1, NEW groups1,
           Agreement(users, groups, q, db),
           \/ /\ m.kind \notin AccountKinds /\ users1 = users /\ groups1 = groups
              /\ m.kind \in NeedsUser => m.user \in Users \cap users
           \/ m.kind = "create_group" /\ users1 = users /\ groups1 = groups \cup {m.group}
           \/ m.kind = "destroy_group" /\ users1 = users /\ groups1 = groups \ {m.group}
           \/ /\ m.kind = "add_user" /\ m.user \in Users \ users /\ m.group \in groups
              /\ users1 = users \cup {m.user} /\ groups1 = groups
           \/ /\ m.kind = "del_user" /\ m.user \in Users \cap users
              /\ users1 = users \ {m.user} /\ groups1 = groups
    PROVE  Agreement(users1, groups1, Append(q, m), db)
<1> DEFINE q1 == Append(q, m)
<1>1. /\ Len(q1) = Len(q) + 1 /\ Len(q) \in Nat
      /\ \A i \in 1..Len(q) : q1[i] = q[i]
      /\ q1[Len(q) + 1] = m
  BY AppendAt
<1>2. ASSUME NEW u
      PROVE  /\ \A n \in 1..(Len(q) + 1) : UserAt(q1, db.users, u, n) <=> UserAt(q, db.users, u, n)
             /\ m.kind = "add_user" /\ m.user = u => UserAt(q1, db.users, u, Len(q) + 2)
             /\ m.kind = "del_user" /\ m.user = u => ~UserAt(q1, db.users, u, Len(q) + 2)
             /\ m.kind \notin {"add_user", "del_user"} \/ m.user # u =>
                   (UserAt(q1, db.users, u, Len(q) + 2) <=> UserAt(q, db.users, u, Len(q) + 1))
  BY UserAtAppend
<1>3. ASSUME NEW g
      PROVE  /\ \A n \in 1..(Len(q) + 1) : GroupAt(q1, db.groups, g, n) <=> GroupAt(q, db.groups, g, n)
             /\ m.kind = "create_group" /\ m.group = g => GroupAt(q1, db.groups, g, Len(q) + 2)
             /\ m.kind \notin {"create_group", "destroy_group"} \/ m.group # g =>
                   (GroupAt(q1, db.groups, g, Len(q) + 2) <=> GroupAt(q, db.groups, g, Len(q) + 1))
  BY GroupAtAppend
<1>4. /\ \A i \in 1..Len(q) :
            /\ q[i].kind = "add_user" => /\ ~UserAt(q, db.users, q[i].user, i)
                                         /\ GroupAt(q, db.groups, q[i].group, i)
            /\ q[i].kind \in NeedsUser => UserAt(q, db.users, q[i].user, i)
      /\ \A u \in Users : u \in users <=> UserAt(q, db.users, u, Len(q) + 1)
      /\ \A g \in groups : GroupAt(q, db.groups, g, Len(q) + 1)
  BY DEF Agreement
<1> HIDE DEF q1
<1>5. ASSUME NEW i \in 1..Len(q1), q1[i].kind = "add_user"
      PROVE  ~UserAt(q1, db.users, q1[i].user, i) /\ GroupAt(q1, db.groups, q1[i].group, i)
  <2>1. CASE i \in 1..Len(q)
    <3>1. q1[i] = q[i] /\ i \in 1..(Len(q) + 1)
      BY <1>1, <2>1
    <3> QED BY <1>2, <1>3, <1>4, <1>5, <2>1, <3>1
  <2>2. CASE i = Len(q) + 1
    <3>1. q1[i] = m /\ i \in 1..(Len(q) + 1)
      BY <1>1, <2>2
    <3>2. m.user \in Users \ users /\ m.group \in groups
      BY <1>5, <3>1 DEF AccountKinds
    <3> QED BY <1>2, <1>3, <1>4, <2>2, <3>1, <3>2
  <2> QED BY <1>1, <2>1, <2>2
<1>6. ASSUME NEW i \in 1..Len(q1), q1[i].kind \in NeedsUser
      PROVE  UserAt(q1, db.users, q1[i].user, i)
  <2>1. CASE i \in 1..Len(q)
    <3>1. q1[i] = q[i] /\ i \in 1..(Len(q) + 1)
      BY <1>1, <2>1
    <3> QED BY <1>2, <1>4, <1>6, <2>1, <3>1
  <2>2. CASE i = Len(q) + 1
    <3>1. q1[i] = m /\ i \in 1..(Len(q) + 1)
      BY <1>1, <2>2
    <3>2. m.user \in Users \cap users
      BY <1>6, <3>1 DEF AccountKinds, NeedsUser
    <3>3. UserAt(q, db.users, m.user, Len(q) + 1)
      BY <1>4, <3>2
    <3> QED BY <1>2, <2>2, <3>1, <3>3
  <2> QED BY <1>1, <2>1, <2>2
<1>7. ASSUME NEW u \in Users PROVE u \in users1 <=> UserAt(q1, db.users, u, Len(q) + 2)
  BY <1>2, <1>4 DEF AccountKinds
<1>8. ASSUME NEW g \in groups1 PROVE GroupAt(q1, db.groups, g, Len(q) + 2)
  BY <1>3, <1>4 DEF AccountKinds
<1>9. Len(q1) + 1 = Len(q) + 2
  BY <1>1
<1>10. Agreement(users1, groups1, q1, db)
  BY <1>5, <1>6, <1>7, <1>8, <1>9 DEF Agreement
<1> QED BY <1>10 DEF q1

(* What serving a message does to the users and groups of a table, as far  *)
(* as the agreement needs it.                                              *)
Served(m, db, db1) ==
    /\ \A u : u \in db1.users <=>
                 \/ m.kind = "add_user" /\ m.user = u
                 \/ u \in db.users /\ ~(m.kind = "del_user" /\ m.user = u)
    /\ \A g : (\/ m.kind = "create_group" /\ m.group = g
               \/ g \in db.groups /\ ~(m.kind = "destroy_group" /\ m.group = g))
                 => g \in db1.groups

(* The head of the queue is served. *)
LEMMA AgreementTail ==
    ASSUME NEW users, NEW groups, NEW q \in Seq(Message), q # <<>>, NEW db, NEW db1,
           Agreement(users, groups, q, db), Served(Head(q), db, db1)
    PROVE  Agreement(users, groups, Tail(q), db1)
<1> DEFINE q1 == Tail(q)
<1>1. /\ Len(q) \in Nat /\ Len(q1) = Len(q) - 1 /\ Len(q) >= 1
      /\ \A i \in 1..Len(q1) : q1[i] = q[i + 1]
  BY TailAt
<1>2. ASSUME NEW u, NEW n \in Nat \ {0}
      PROVE  UserAt(q1, db1.users, u, n) <=> UserAt(q, db.users, u, n + 1)
  BY UserAtTail DEF Served
<1>3. ASSUME NEW g, NEW n \in Nat \ {0}, GroupAt(q, db.groups, g, n + 1)
      PROVE  GroupAt(q1, db1.groups, g, n)
  BY <1>3, GroupAtTail DEF Served
<1>4. /\ \A i \in 1..Len(q) :
            /\ q[i].kind = "add_user" => /\ ~UserAt(q, db.users, q[i].user, i)
                                         /\ GroupAt(q, db.groups, q[i].group, i)
            /\ q[i].kind \in NeedsUser => UserAt(q, db.users, q[i].user, i)
      /\ \A u \in Users : u \in users <=> UserAt(q, db.users, u, Len(q) + 1)
      /\ \A g \in groups : GroupAt(q, db.groups, g, Len(q) + 1)
  BY DEF Agreement
<1> HIDE DEF q1
<1>5. ASSUME NEW i \in 1..Len(q1)
      PROVE  /\ q1[i].kind = "add_user" => /\ ~UserAt(q1, db1.users, q1[i].user, i)
                                           /\ GroupAt(q1, db1.groups, q1[i].group, i)
             /\ q1[i].kind \in NeedsUser => UserAt(q1, db1.users, q1[i].user, i)
  <2>1. q1[i] = q[i + 1] /\ i + 1 \in 1..Len(q) /\ i \in Nat \ {0}
    BY <1>1
  <2> QED BY <1>2, <1>3, <1>4, <2>1
<1>6. Len(q1) + 1 \in Nat \ {0} /\ (Len(q1) + 1) + 1 = Len(q) + 1
  BY <1>1
<1>7. ASSUME NEW u \in Users PROVE u \in users <=> UserAt(q1, db1.users, u, Len(q1) + 1)
  BY <1>2, <1>4, <1>6
<1>8. ASSUME NEW g \in groups PROVE GroupAt(q1, db1.groups, g, Len(q1) + 1)
  BY <1>3, <1>4, <1>6
<1>9. Agreement(users, groups, q1, db1)
  BY <1>5, <1>7, <1>8 DEF Agreement
<1> QED BY <1>9 DEF q1

-----------------------------------------------------------------------------
(* Every handler agrees with the configuration DB.                         *)
Consistent ==
    \A h \in Handlers : Agreement(config.users, config.groups, queue[h], hdb[h])

(* With nothing queued only the table counts. *)
LEMMA NothingQueued ==
    ASSUME NEW S, NEW name, NEW n PROVE On({}, {}, S, name, n) <=> name \in S
  BY DEF On

(* At the start of a queue only the table counts. *)
LEMMA PresenceAtHead ==
    ASSUME NEW q \in Seq(Message), NEW kind, NEW kind2, NEW field, NEW name, NEW S
    PROVE  On(At(q, kind, field, name), At(q, kind2, field, name), S, name, 1) <=> name \in S
<1> DEFINE A == At(q, kind, field, name)
           D == At(q, kind2, field, name)
<1>1. A \in SUBSET (Nat \ {0}) /\ D \in SUBSET (Nat \ {0})
  BY DEF At
<1> HIDE DEF A, D
<1>2. On(A, D, S, name, 1) <=> name \in S
  BY <1>1 DEF On
<1> QED BY <1>2 DEF A, D

(* What the agreement says of the message a handler serves next. *)
LEMMA HeadFits ==
    ASSUME NEW users, NEW groups, NEW q \in Seq(Message), q # <<>>, NEW db,
           Agreement(users, groups, q, db)
    PROVE  /\ Head(q).kind = "add_user" =>
                 Head(q).user \notin db.users /\ Head(q).group \in db.groups
           /\ Head(q).kind \in NeedsUser => Head(q).user \in db.users
<1> DEFINE m == Head(q)
<1>1. m = q[1] /\ 1 \in 1..Len(q)
  BY TailAt
<1>2. /\ m.kind = "add_user" => /\ ~UserAt(q, db.users, m.user, 1)
                                /\ GroupAt(q, db.groups, m.group, 1)
      /\ m.kind \in NeedsUser => UserAt(q, db.users, m.user, 1)
  BY <1>1 DEF Agreement
<1> HIDE DEF m
<1>3. /\ m.kind = "add_user" => m.user \notin db.users /\ m.group \in db.groups
      /\ m.kind \in NeedsUser => m.user \in db.users
  BY <1>2, PresenceAtHead DEF UserAt, GroupAt
<1> QED BY <1>3 DEF m

(* The tables are equal when the initialisation ends. *)
LEMMA ConsistentInit == Init => Consistent
<1> SUFFICES ASSUME Init, NEW h \in Handlers
             PROVE  Agreement(config.users, config.groups, queue[h], hdb[h])
  BY DEF Consistent
<1>1. queue[h] = <<>>
  BY DEF Init
<1>2. /\ config.users = {Admin} /\ hdb[h].users = {Admin}
      /\ config.groups = {DefaultGroup} /\ hdb[h].groups = {DefaultGroup}
  BY DEF Init, WithRoles, InitialTable
<1>3. \A kind, field, name : At(<<>>, kind, field, name) = {}
  BY DEF At
<1>4. \A u : UserAt(<<>>, {Admin}, u, 1) <=> u \in {Admin}
  BY <1>3, NothingQueued DEF UserAt
<1>5. \A g : GroupAt(<<>>, {DefaultGroup}, g, 1) <=> g \in {DefaultGroup}
  BY <1>3, NothingQueued DEF GroupAt
<1>6. Len(<<>>) + 1 = 1 /\ \A i : i \notin 1..Len(<<>>)
  OBVIOUS
<1> DEFINE q == queue[h]
           users == config.users
           groups == config.groups
           db == hdb[h]
<1> HIDE DEF q, users, groups, db
<1>7. Agreement({Admin}, {DefaultGroup}, <<>>, db)
  <2>1. db.users = {Admin} /\ db.groups = {DefaultGroup}
    BY <1>2 DEF db
  <2> QED BY <1>4, <1>5, <1>6, <2>1 DEF Agreement
<1> QED BY <1>1, <1>2, <1>7 DEF db

(* A request changes the configuration DB exactly by what it queues.       *)
LEMMA ConsistentRequest ==
    ASSUME TypeOK, Consistent, NEW fd \in Fds, RequestOutcome(fd)
    PROVE  Consistent'
<1> SUFFICES ASSUME NEW h \in Handlers
             PROVE  Agreement(config'.users, config'.groups, queue'[h], hdb'[h])
  BY DEF Consistent
<1>1. /\ Agreement(config.users, config.groups, queue[h], hdb[h])
      /\ queue[h] \in Seq(Message) /\ hdb' = hdb
  BY DEF Consistent, TypeOK, RequestOutcome
<1>2. CASE AccountsKept /\ (Answered \/ Unanswered(fd))
  BY <1>1, <1>2 DEF AccountsKept, Answered, Unanswered
<1>3. CASE \E m : Passed(fd, m)
  <2>1. PICK m : Passed(fd, m)
    BY <1>3
  <2>2. m \in Message
    BY <2>1 DEF Passed
  <2>3. CASE /\ m.kind \in {"user_join", "user_leave"} \cup PortKinds /\ AccountsKept
             /\ m.kind \in PortKinds \/ m.user \in config.users
             /\ FanOut(m) \/ ToHandler(m)
    <3>1. queue'[h] = queue[h] \/ queue'[h] = Append(queue[h], m)
      BY <2>3 DEF FanOut, ToHandler, TypeOK
    <3>2. m.kind \notin AccountKinds /\ (m.kind \in NeedsUser => m.user \in Users \cap config.users)
      BY <2>3 DEF AccountKinds, NeedsUser, PortKinds, TypeOK, RoleTables
    <3>3. config'.users = config.users /\ config'.groups = config.groups
      BY <2>3 DEF AccountsKept
    <3> QED BY <1>1, <2>2, <3>1, <3>2, <3>3, AgreementAppend
  <2>4. CASE AccountChange(m) /\ FanOut(m)
    <3>1. queue'[h] = Append(queue[h], m)
      BY <2>4 DEF FanOut
    <3>2. config.users \subseteq Users
      BY DEF TypeOK, RoleTables
    <3> DEFINE users1 == config'.users
               groups1 == config'.groups
    <3>3. \/ m.kind = "create_group" /\ users1 = config.users
             /\ groups1 = config.groups \cup {m.group}
          \/ m.kind = "destroy_group" /\ users1 = config.users
             /\ groups1 = config.groups \ {m.group}
          \/ /\ m.kind = "add_user" /\ m.user \in Users \ config.users
             /\ m.group \in config.groups
             /\ users1 = config.users \cup {m.user} /\ groups1 = config.groups
          \/ /\ m.kind = "del_user" /\ m.user \in Users \cap config.users
             /\ users1 = config.users \ {m.user} /\ groups1 = config.groups
      BY <2>4, <3>2 DEF AccountChange
    <3> HIDE DEF users1, groups1
    <3>4. Agreement(users1, groups1, Append(queue[h], m), hdb[h])
      BY <1>1, <2>2, <3>3, AgreementAppend
    <3> QED BY <1>1, <3>1, <3>4 DEF users1, groups1
  <2> QED BY <2>1, <2>3, <2>4 DEF Passed
<1> QED BY <1>2, <1>3 DEF RequestOutcome

(* A handler's table after it has served a message that the agreement      *)
(* says it can serve.                                                      *)
LEMMA ServesWell ==
    ASSUME NEW db \in Tables, NEW m \in Message, m.kind # "set_baud_rate",
           m.kind = "add_user" => m.user \notin db.users /\ m.group \in db.groups,
           m.kind = "del_user" => m.user \in db.users
    PROVE  Served(m, db, IF Succeeds(db, m) THEN Effect(db, m) ELSE db)
<1> DEFINE db1 == IF Succeeds(db, m) THEN Effect(db, m) ELSE db
<1>0. m.kind \in FanOutKinds \cup {"port_join"}
  BY DEF Message, Fields, PortKinds
<1>1. CASE m.kind = "create_group"
  <2>1. db1 = IF m.group \in db.groups THEN db ELSE CreateGroupIn(db, m.group)
    BY <1>1 DEF Succeeds, Effect, CanCreateGroup
  <2>2. db1.users = db.users /\ db1.groups = db.groups \cup {m.group}
    BY <2>1 DEF CreateGroupIn, Tables
  <2> QED BY <1>1, <2>2 DEF Served
<1>2. CASE m.kind = "destroy_group"
  <2>1. db1 = db \/ db1 = DestroyGroupIn(db, m.group)
    BY <1>2 DEF Effect
  <2>2. db1.users = db.users /\ db.groups \ {m.group} \subseteq db1.groups
    BY <2>1 DEF DestroyGroupIn, Tables
  <2> HIDE DEF db1
  <2>3. Served(m, db, db1)
    BY <1>2, <2>2 DEF Served
  <2> QED BY <2>3 DEF db1
<1>3. CASE m.kind = "add_user"
  <2>1. db1 = AddUserIn(db, m.user, m.group)
    BY <1>3 DEF Succeeds, Effect, CanAddUser
  <2>2. db1.users = db.users \cup {m.user} /\ db1.groups = db.groups
    BY <2>1 DEF AddUserIn, Tables
  <2> HIDE DEF db1
  <2>3. Served(m, db, db1)
    BY <1>3, <2>2 DEF Served
  <2> QED BY <2>3 DEF db1
<1>4. CASE m.kind = "del_user"
  <2>1. db1 = DelUserIn(db, m.user)
    BY <1>4 DEF Succeeds, Effect, CanDelUser
  <2>2. db1.users = db.users \ {m.user} /\ db1.groups = db.groups
    BY <2>1 DEF DelUserIn, Tables
  <2> HIDE DEF db1
  <2>3. Served(m, db, db1)
    BY <1>4, <2>2 DEF Served
  <2> QED BY <2>3 DEF db1
<1>5. CASE m.kind \in {"user_join", "user_leave", "port_join"}
  <2>1. \/ db1 = db
        \/ db1 = JoinIn(db, m.user, m.group)
        \/ db1 = LeaveIn(db, m.user, m.group)
        \/ db1 = PortJoinIn(db, m.port, m.group)
    BY <1>5 DEF Effect
  <2>2. db1.users = db.users /\ db1.groups = db.groups
    BY <2>1 DEF JoinIn, LeaveIn, PortJoinIn, Tables
  <2> HIDE DEF db1
  <2>3. Served(m, db, db1)
    BY <1>5, <2>2 DEF Served
  <2> QED BY <2>3 DEF db1
<1> QED BY <1>0, <1>1, <1>2, <1>3, <1>4, <1>5 DEF FanOutKinds

(* Serving never fails for an account, and keeps the agreement.            *)
LEMMA ConsistentHandler ==
    ASSUME TypeOK, Consistent, NEW k \in Handlers, HandlerStep(k)
    PROVE  Consistent'
<1> SUFFICES ASSUME NEW h \in Handlers
             PROVE  Agreement(config.users, config.groups, queue'[h], hdb'[h])
  BY DEF Consistent, HandlerStep, HandlerServes, HandlerCrashes
<1> DEFINE q == queue[h]
           m == Head(q)
           db == hdb[h]
<1>1. Agreement(config.users, config.groups, q, db) /\ q \in Seq(Message) /\ db \in Tables
  BY DEF Consistent, TypeOK
<1>2. CASE h # k
  BY <1>1, <1>2 DEF HandlerStep, HandlerServes, HandlerCrashes, TypeOK
<1>3. CASE h = k
  <2>1. q # <<>> /\ queue'[h] = Tail(q)
    BY <1>3 DEF HandlerStep, HandlerServes, HandlerCrashes, TypeOK
  <2>2. m \in Message /\ m = q[1] /\ 1 \in 1..Len(q)
    BY <1>1, <2>1, TailAt
  <2>3. CASE HandlerCrashes(k)
    <3>1. hdb'[h] = db /\ m.kind = "set_baud_rate"
      BY <1>3, <2>3 DEF HandlerCrashes
    <3>2. Served(m, db, db)
      BY <3>1 DEF Served
    <3> HIDE DEF q, m, db
    <3>3. Agreement(config.users, config.groups, Tail(q), db)
      BY <1>1, <2>1, <3>2, AgreementTail DEF m
    <3> QED BY <2>1, <3>1, <3>3
  <2>4. CASE HandlerServes(k)
    <3> DEFINE db1 == IF Succeeds(db, m) THEN Effect(db, m) ELSE db
    <3>1. hdb'[h] = db1 /\ m.kind # "set_baud_rate"
      BY <1>3, <2>4 DEF HandlerServes, TypeOK
    <3> HIDE DEF q, m, db
    <3>3. /\ m.kind = "add_user" => m.user \notin db.users /\ m.group \in db.groups
          /\ m.kind \in NeedsUser => m.user \in db.users
      BY <1>1, <2>1, HeadFits DEF m
    <3>4. Served(m, db, db1)
      BY <1>1, <2>2, <3>1, <3>3, ServesWell DEF NeedsUser
    <3> HIDE DEF db1
    <3>5. Agreement(config.users, config.groups, Tail(q), db1)
      BY <1>1, <2>1, <3>4, AgreementTail DEF m
    <3> QED BY <2>1, <3>1, <3>5
  <2> QED BY <2>3, <2>4 DEF HandlerStep
<1> QED BY <1>2, <1>3

(* Every step keeps each handler in agreement with the configuration DB. *)
LEMMA ConsistentStep == TypeOK /\ Consistent /\ [Next]_vars => Consistent'
<1> SUFFICES ASSUME TypeOK, Consistent, [Next]_vars PROVE Consistent'
  OBVIOUS
<1>1. CASE \E fd \in Fds : Connection(fd)
  BY <1>1 DEF Connection, Accept, PeerClose, CloseClient, Consistent
<1>2. CASE \E fd \in Fds : ClientRequest(fd)
  BY <1>2, ClientRequestOutcome, ConsistentRequest
<1>3. CASE \E h \in Handlers : HandlerStep(h)
  BY <1>3, ConsistentHandler
<1>4. CASE \E h \in Handlers : ServerTakesReply(h)
  BY <1>4 DEF ServerTakesReply, ReplyIgnored, ReplyRaises, ReplyRecorded, ReplyCompletes,
              TakeReply, Consistent
<1>5. CASE \E h \in Handlers : HandlerStops(h)
  BY <1>5 DEF HandlerStops, Consistent
<1>6. CASE UNCHANGED vars
  BY <1>6 DEF vars, Consistent
<1> QED BY <1>1, <1>2, <1>3, <1>4, <1>5, <1>6 DEF Next

(* No handler ever refuses to add or to delete a user: it differs from the *)
(* configuration DB on a user only while a message about that user is on   *)
(* its queue (HandlerAccountsAgree).                                       *)
THEOREM AccountsAgree == Spec => []HandlerAccountsAgree
<1>1. TypeOK /\ Consistent => HandlerAccountsAgree
  <2> SUFFICES ASSUME TypeOK, Consistent, NEW h \in Handlers, NEW u \in Users,
                      ~AccountPending(h, u)
               PROVE  u \in hdb[h].users <=> u \in config.users
    BY DEF HandlerAccountsAgree
  <2>1. \A i \in 1..Len(queue[h]) : ~AboutAccount(queue[h][i], u)
    BY DEF AccountPending
  <2>2. /\ At(queue[h], "add_user", "user", u) = {}
        /\ At(queue[h], "del_user", "user", u) = {}
    BY <2>1 DEF At, AboutAccount
  <2>3. u \in config.users <=> UserAt(queue[h], hdb[h].users, u, Len(queue[h]) + 1)
    BY DEF Consistent, Agreement
  <2> QED BY <2>2, <2>3, NothingQueued DEF UserAt
<1> QED BY <1>1, ConsistentInit, ConsistentStep, TypeCorrect, PTL DEF Spec

(* A handler has every group of the configuration DB that its queue does   *)
(* not mention (HandlerGroupsCoverConfig).                                 *)
THEOREM GroupsCoverConfig == Spec => []HandlerGroupsCoverConfig
<1>1. TypeOK /\ Consistent => HandlerGroupsCoverConfig
  <2> SUFFICES ASSUME TypeOK, Consistent, NEW h \in Handlers, NEW g \in config.groups,
                      ~GroupPending(h, g)
               PROVE  g \in hdb[h].groups
    BY DEF HandlerGroupsCoverConfig
  <2>1. \A i \in 1..Len(queue[h]) : ~AboutGroup(queue[h][i], g)
    BY DEF GroupPending
  <2>2. /\ At(queue[h], "create_group", "group", g) = {}
        /\ At(queue[h], "destroy_group", "group", g) = {}
    BY <2>1 DEF At, AboutGroup
  <2>3. GroupAt(queue[h], hdb[h].groups, g, Len(queue[h]) + 1)
    BY DEF Consistent, Agreement
  <2> QED BY <2>2, <2>3, NothingQueued DEF GroupAt
<1> QED BY <1>1, ConsistentInit, ConsistentStep, TypeCorrect, PTL DEF Spec

-----------------------------------------------------------------------------
(* A message that leaves the default account and the default group alone.  *)
Spares(m) ==
    /\ m.kind = "del_user" => m.user # Admin
    /\ m.kind = "destroy_group" => m.group # DefaultGroup

(* Only the requests check for the defaults, so the messages and replies   *)
(* in transit must be known to have passed that check.                     *)
DefaultsSafe ==
    /\ DefaultAccountKept
    /\ \A h \in Handlers :
          /\ \A i \in 1..Len(queue[h]) : Spares(queue[h][i])
          /\ \A i \in 1..Len(replies[h]) : Spares(replies[h][i].msg)

(* The default user and group are in every table at the start. *)
LEMMA DefaultsInit == Init => DefaultsSafe
  BY DEF Init, DefaultsSafe, DefaultAccountKept, WithRoles, InitialTable

(* No request removes them or sends a message that would. *)
LEMMA DefaultsRequest ==
    ASSUME TypeOK, DefaultsSafe, NEW fd \in Fds, RequestOutcome(fd)
    PROVE  DefaultsSafe'
<1>1. DefaultAccountKept'
  <2>1. Admin \in config'.users /\ DefaultGroup \in config'.groups
    <3>1. CASE AccountsKept
      BY <3>1 DEF AccountsKept, DefaultsSafe, DefaultAccountKept
    <3>2. CASE \E m : AccountChange(m)
      BY <3>2 DEF AccountChange, DefaultsSafe, DefaultAccountKept
    <3> QED BY <3>1, <3>2 DEF RequestOutcome, Passed
  <2>2. hdb' = hdb /\ op'.users = op.users /\ op'.groups = op.groups
    BY DEF RequestOutcome
  <2> QED BY <2>1, <2>2 DEF DefaultsSafe, DefaultAccountKept
<1>2. ASSUME NEW h \in Handlers, NEW i \in 1..Len(queue'[h]) PROVE Spares(queue'[h][i])
  <2>1. CASE queue' = queue
    BY <1>2, <2>1 DEF DefaultsSafe
  <2>2. CASE \E m : Passed(fd, m)
    <3>1. PICK m : Passed(fd, m)
      BY <2>2
    <3>2. m \in Message /\ (queue'[h] = queue[h] \/ queue'[h] = Append(queue[h], m))
      BY <3>1 DEF Passed, FanOut, ToHandler, TypeOK
    <3>3. Spares(m)
      BY <3>1 DEF Passed, AccountChange, Spares, PortKinds
    <3>4. queue[h] \in Seq(Message)
      BY DEF TypeOK
    <3>5. CASE queue'[h] = queue[h]
      BY <1>2, <3>5 DEF DefaultsSafe
    <3>6. CASE queue'[h] = Append(queue[h], m)
      <4>1. /\ i \in 1..(Len(queue[h]) + 1) /\ Len(queue[h]) \in Nat
            /\ i \in 1..Len(queue[h]) => queue'[h][i] = queue[h][i]
            /\ i = Len(queue[h]) + 1 => queue'[h][i] = m
        BY <1>2, <3>2, <3>4, <3>6, AppendAt
      <4> QED BY <3>3, <4>1 DEF DefaultsSafe
    <3> QED BY <3>2, <3>5, <3>6
  <2> QED BY <2>1, <2>2 DEF RequestOutcome, Answered, Unanswered
<1>3. replies' = replies
  BY DEF RequestOutcome
<1> QED BY <1>1, <1>2, <1>3 DEF DefaultsSafe

(* An element of a tail is the next element of the sequence.               *)
LEMMA TailElement ==
    ASSUME NEW S, NEW q \in Seq(S), q # <<>>, NEW i \in 1..Len(Tail(q))
    PROVE  i + 1 \in 1..Len(q) /\ Tail(q)[i] = q[i + 1]
<1>1. /\ Len(q) \in Nat /\ Len(Tail(q)) = Len(q) - 1
      /\ \A j \in 1..Len(Tail(q)) : Tail(q)[j] = q[j + 1]
  BY TailAt
<1> QED BY <1>1

(* No handler removes them. *)
LEMMA DefaultsHandler ==
    ASSUME TypeOK, DefaultsSafe, NEW k \in Handlers, HandlerStep(k)
    PROVE  DefaultsSafe'
<1> DEFINE m == Head(queue[k])
<1>1. /\ queue[k] \in Seq(Message) /\ queue[k] # <<>> /\ hdb[k] \in Tables
      /\ queue' = [queue EXCEPT ![k] = Tail(@)]
  BY DEF HandlerStep, HandlerServes, HandlerCrashes, TypeOK
<1>2. m \in Message /\ Spares(m)
  <2>1. m = queue[k][1] /\ 1 \in 1..Len(queue[k]) /\ m \in Message
    BY <1>1, TailAt
  <2> QED BY <2>1 DEF DefaultsSafe
<1>3. ASSUME NEW h \in Handlers
      PROVE  Admin \in hdb'[h].users /\ DefaultGroup \in hdb'[h].groups
  <2>1. Admin \in hdb[h].users /\ DefaultGroup \in hdb[h].groups
    BY DEF DefaultsSafe, DefaultAccountKept
  <2> DEFINE db == hdb[k]
  <2>2. CASE hdb'[h] = hdb[h]
    BY <2>1, <2>2
  <2>3. CASE HandlerServes(k) /\ h = k /\ hdb'[h] = Effect(db, m)
    <3>1. m.kind \in FanOutKinds \cup {"port_join"}
      BY <1>2, <2>3 DEF HandlerServes, Message, Fields, PortKinds
    <3> HIDE DEF m
    <3> DEFINE db1 == Effect(db, m)
    <3>2. \/ db1 = CreateGroupIn(db, m.group)
          \/ m.kind = "destroy_group" /\ db1 = DestroyGroupIn(db, m.group)
          \/ db1 = AddUserIn(db, m.user, m.group)
          \/ m.kind = "del_user" /\ db1 = DelUserIn(db, m.user)
          \/ db1 = JoinIn(db, m.user, m.group)
          \/ db1 = LeaveIn(db, m.user, m.group)
          \/ db1 = PortJoinIn(db, m.port, m.group)
      BY <3>1 DEF Effect, FanOutKinds
    <3> HIDE DEF db1
    <3>3. /\ db.users \subseteq db1.users
             \/ (m.kind = "del_user" /\ db.users \ {m.user} \subseteq db1.users)
          /\ db.groups \subseteq db1.groups
             \/ (m.kind = "destroy_group" /\ db.groups \ {m.group} \subseteq db1.groups)
      BY <1>1, <3>2 DEF Tables, CreateGroupIn, DestroyGroupIn, AddUserIn,
                        DelUserIn, JoinIn, LeaveIn, PortJoinIn
    <3>4. hdb'[h] = db1
      BY <2>3 DEF db1
    <3> QED BY <1>2, <2>1, <2>3, <3>3, <3>4 DEF Spares
  <2> QED BY <2>2, <2>3 DEF HandlerStep, HandlerServes, HandlerCrashes, TypeOK
<1>4. ASSUME NEW h \in Handlers, NEW i \in 1..Len(queue'[h]) PROVE Spares(queue'[h][i])
  <2>1. CASE h # k
    BY <1>1, <1>4, <2>1 DEF DefaultsSafe, TypeOK
  <2>2. CASE h = k
    <3>1. queue'[h] = Tail(queue[h])
      BY <1>1, <2>2 DEF TypeOK
    <3>2. i + 1 \in 1..Len(queue[h]) /\ queue'[h][i] = queue[h][i + 1]
      BY <1>1, <1>4, <2>2, <3>1, TailElement
    <3> QED BY <3>2 DEF DefaultsSafe
  <2> QED BY <2>1, <2>2
<1>5. ASSUME NEW h \in Handlers, NEW i \in 1..Len(replies'[h])
      PROVE  Spares(replies'[h][i].msg)
  <2>1. CASE replies'[h] = replies[h]
    BY <1>5, <2>1 DEF DefaultsSafe
  <2>2. CASE HandlerServes(k) /\ h = k
    <3> DEFINE r == ReplyTo(hdb[k], m)
    <3>1. replies'[h] = Append(replies[h], r) /\ replies[h] \in Seq(Reply)
      BY <2>2 DEF HandlerServes, TypeOK
    <3>2. r.msg = m
      BY DEF ReplyTo
    <3> HIDE DEF r
    <3>3. \/ i \in 1..Len(replies[h]) /\ replies'[h][i] = replies[h][i]
          \/ replies'[h][i] = r
      BY <1>5, <3>1, AppendAt
    <3> QED BY <1>2, <3>2, <3>3 DEF DefaultsSafe
  <2> QED BY <2>1, <2>2 DEF HandlerStep, HandlerServes, HandlerCrashes, TypeOK
<1>6. UNCHANGED <<config, op>>
  BY DEF HandlerStep, HandlerServes, HandlerCrashes
<1> QED BY <1>3, <1>4, <1>5, <1>6 DEF DefaultsSafe, DefaultAccountKept

(* No reply makes the server remove them. *)
LEMMA DefaultsReply ==
    ASSUME TypeOK, DefaultsSafe, NEW k \in Handlers, ServerTakesReply(k)
    PROVE  DefaultsSafe'
<1> DEFINE r == Head(replies[k])
           m == r.msg
<1>1. TakeReply(k)
  BY DEF ServerTakesReply, ReplyIgnored, ReplyRaises, ReplyRecorded, ReplyCompletes
<1>2. /\ replies[k] \in Seq(Reply) /\ replies[k] # <<>>
      /\ replies' = [replies EXCEPT ![k] = Tail(@)]
      /\ UNCHANGED <<config, hdb, queue>>
  BY <1>1 DEF TakeReply, TypeOK
<1>3. r \in Reply /\ Spares(m)
  <2>1. r = replies[k][1] /\ 1 \in 1..Len(replies[k]) /\ r \in Reply
    BY <1>2, TailAt
  <2> QED BY <2>1 DEF DefaultsSafe
<1>4. ASSUME NEW h \in Handlers, NEW i \in 1..Len(replies'[h])
      PROVE  Spares(replies'[h][i].msg)
  <2>1. CASE h # k
    BY <1>2, <1>4, <2>1 DEF DefaultsSafe, TypeOK
  <2>2. CASE h = k
    <3>1. replies'[h] = Tail(replies[h])
      BY <1>2, <2>2 DEF TypeOK
    <3>2. i + 1 \in 1..Len(replies[h]) /\ replies'[h][i] = replies[h][i + 1]
      BY <1>2, <1>4, <2>2, <3>1, TailElement
    <3> QED BY <3>2 DEF DefaultsSafe
  <2> QED BY <2>1, <2>2
<1>5. Admin \in op'.users /\ DefaultGroup \in op'.groups
  <2>1. Admin \in op.users /\ DefaultGroup \in op.groups /\ op \in RoleTables
    BY DEF DefaultsSafe, DefaultAccountKept, TypeOK
  <2>2. CASE op' = op
    BY <2>1, <2>2
  <2>3. CASE ReplyCompletes(k)
    <3>1. op' = Applied(op, m) /\ m.kind \in FanOutKinds
      BY <1>3, <2>3 DEF ReplyCompletes, CanRecord, Reply
    <3> HIDE DEF m
    <3> DEFINE op1 == Applied(op, m)
    <3>2. /\ \/ op1.users = op.users
             \/ op1.users = op.users \cup {m.user}
             \/ m.kind = "del_user" /\ op1.users = op.users \ {m.user}
          /\ \/ op1.groups = op.groups
             \/ op1.groups = op.groups \cup {m.group}
             \/ m.kind = "destroy_group" /\ op1.groups = op.groups \ {m.group}
      <4>1. CASE m.kind = "create_group"
        BY <2>1, <4>1 DEF Applied, RoleTables, CreateGroupIn
      <4>2. CASE m.kind = "destroy_group"
        BY <2>1, <4>2 DEF Applied, RoleTables, DestroyGroupIn
      <4>3. CASE m.kind = "add_user"
        BY <2>1, <4>3 DEF Applied, RoleTables, AddUserIn
      <4>4. CASE m.kind = "del_user"
        BY <2>1, <4>4 DEF Applied, RoleTables, DelUserIn
      <4>5. CASE m.kind \in {"user_join", "user_leave"}
        BY <2>1, <4>5 DEF Applied, RoleTables, JoinIn, LeaveIn
      <4> QED BY <3>1, <4>1, <4>2, <4>3, <4>4, <4>5 DEF FanOutKinds
    <3>3. op' = op1
      BY <3>1
    <3> HIDE DEF op1
    <3> QED BY <1>3, <2>1, <3>2, <3>3 DEF Spares, m
  <2> QED BY <2>2, <2>3 DEF ServerTakesReply, ReplyIgnored, ReplyRaises, ReplyRecorded
<1> QED BY <1>2, <1>4, <1>5 DEF DefaultsSafe, DefaultAccountKept

(* Every step keeps the default user and the default group safe. *)
LEMMA DefaultsStep == TypeOK /\ DefaultsSafe /\ [Next]_vars => DefaultsSafe'
<1> SUFFICES ASSUME TypeOK, DefaultsSafe, [Next]_vars PROVE DefaultsSafe'
  OBVIOUS
<1>1. CASE \E fd \in Fds : Connection(fd)
  BY <1>1 DEF Connection, Accept, PeerClose, CloseClient, DefaultsSafe, DefaultAccountKept
<1>2. CASE \E fd \in Fds : ClientRequest(fd)
  BY <1>2, ClientRequestOutcome, DefaultsRequest
<1>3. CASE \E h \in Handlers : HandlerStep(h)
  BY <1>3, DefaultsHandler
<1>4. CASE \E h \in Handlers : ServerTakesReply(h)
  BY <1>4, DefaultsReply
<1>5. CASE \E h \in Handlers : HandlerStops(h)
  BY <1>5 DEF HandlerStops, DefaultsSafe, DefaultAccountKept
<1>6. CASE UNCHANGED vars
  BY <1>6 DEF vars, DefaultsSafe, DefaultAccountKept
<1> QED BY <1>1, <1>2, <1>3, <1>4, <1>5, <1>6 DEF Next

(* The default user and the default group stay in every table, although    *)
(* neither the handlers nor the operation DB check what they are told to   *)
(* delete (DefaultAccountKept).                                            *)
THEOREM DefaultsKept == Spec => []DefaultAccountKept
<1>1. DefaultsSafe => DefaultAccountKept
  BY DEF DefaultsSafe
<1> QED BY <1>1, DefaultsInit, DefaultsStep, TypeCorrect, PTL DEF Spec

-----------------------------------------------------------------------------
(***************************************************************************)
(* From here on a queue is seen as the set of its messages, told apart by  *)
(* their numbers.                                                          *)
(***************************************************************************)
Msgs(q) == {q[i] : i \in 1..Len(q)}

(* u is a user of the table (g is None), or a member of the group g. *)
Has(db, u, g) == IF g = None THEN u \in db.users ELSE <<u, g>> \in db.member

(* The same once the messages of M with a number below n are served: the   *)
(* last of them that is about u and g decides.                             *)
Holds(M, db, u, g, n) ==
    \/ \E a \in M : /\ Brings(a, u, g) /\ a.id < n
                    /\ \A d \in M : Takes(d, u, g) => ~(a.id < d.id /\ d.id < n)
    \/ Has(db, u, g) /\ \A d \in M : Takes(d, u, g) => n <= d.id

(* The requests to all handlers among the messages from number n on. *)
FanFrom(M, n) == {m.id : m \in {x \in M : x.kind \in FanOutKinds /\ x.id >= n}}

-----------------------------------------------------------------------------
(* The messages of a queue after an append and after a tail.               *)
LEMMA MsgsOf ==
    ASSUME NEW q \in Seq(Message)
    PROVE  /\ Msgs(q) \subseteq Message
           /\ \A m \in Message : Msgs(Append(q, m)) = Msgs(q) \cup {m}
           /\ q # <<>> => Msgs(q) = Msgs(Tail(q)) \cup {Head(q)} /\ Head(q) \in Message
<1>1. Msgs(q) \subseteq Message
  BY DEF Msgs
<1>2. ASSUME NEW m \in Message PROVE Msgs(Append(q, m)) = Msgs(q) \cup {m}
  <2>1. /\ Len(Append(q, m)) = Len(q) + 1 /\ Len(q) \in Nat
        /\ \A i \in 1..Len(q) : Append(q, m)[i] = q[i]
        /\ Append(q, m)[Len(q) + 1] = m
    BY AppendAt
  <2> QED BY <2>1 DEF Msgs
<1>3. ASSUME q # <<>> PROVE Msgs(q) = Msgs(Tail(q)) \cup {Head(q)} /\ Head(q) \in Message
  <2>1. /\ Head(q) = q[1] /\ Head(q) \in Message /\ Len(q) \in Nat /\ 1 \in 1..Len(q)
        /\ Len(Tail(q)) = Len(q) - 1
        /\ \A i \in 1..Len(Tail(q)) : i + 1 \in 1..Len(q) /\ Tail(q)[i] = q[i + 1]
    BY <1>3, TailAt
  <2>2. ASSUME NEW i \in 1..Len(q) PROVE q[i] \in Msgs(Tail(q)) \cup {Head(q)}
    <3>1. i = 1 \/ (i - 1 \in 1..Len(Tail(q)) /\ (i - 1) + 1 = i)
      BY <2>1
    <3> QED BY <2>1, <3>1 DEF Msgs
  <2> QED BY <2>1, <2>2 DEF Msgs
<1> QED BY <1>1, <1>2, <1>3

(* The numbers of the messages of a queue. *)
LEMMA MsgsNumbered ==
    ASSUME TypeOK, Numbered, NEW h \in Handlers
    PROVE  /\ \A m \in Msgs(queue[h]) : m.id \in 1..sent
           /\ queue[h] # <<>> => \A m \in Msgs(Tail(queue[h])) : Head(queue[h]).id < m.id
<1> DEFINE q == queue[h]
<1>1. q \in Seq(Message) /\ sent \in Nat
  BY ConstantsAssumption DEF TypeOK
<1>2. Rising(Ids(q)) /\ \A j \in 1..Len(Ids(q)) : Ids(q)[j] <= sent
  BY DEF Numbered, Line
<1>3. \A m \in Message : m.id \in Nat /\ m.id > 0
  BY ConstantsAssumption DEF Message, Fields
<1> HIDE DEF q
<1>4. Len(q) \in Nat /\ Len(Ids(q)) = Len(q) /\ \A i \in 1..Len(q) : Ids(q)[i] = q[i].id
  BY <1>1 DEF Ids
<1>5. \A m \in Msgs(q) : m.id \in 1..sent
  BY <1>1, <1>2, <1>3, <1>4 DEF Msgs
<1>6. ASSUME q # <<>>, NEW m \in Msgs(Tail(q)) PROVE Head(q).id < m.id
  <2>1. PICK i \in 1..Len(Tail(q)) : m = Tail(q)[i]
    BY <1>6 DEF Msgs
  <2>2. i + 1 \in 1..Len(q) /\ m = q[i + 1] /\ Head(q) = q[1] /\ 1 \in 1..Len(q) /\ 1 < i + 1
    BY <1>1, <1>6, <2>1, TailAt
  <2> QED BY <1>2, <1>4, <2>2 DEF Rising
<1> QED BY <1>5, <1>6 DEF q

(* Only requests to all handlers are about users and memberships. *)
LEMMA WritersFanOut ==
    ASSUME NEW m, NEW u, NEW g, Brings(m, u, g) \/ Takes(m, u, g)
    PROVE  m.kind \in FanOutKinds
  BY DEF Brings, Takes, FanOutKinds

-----------------------------------------------------------------------------
(* A message with the next number decides only about what comes behind it. *)
LEMMA HoldsNext ==
    ASSUME NEW M \in SUBSET Message, NEW m \in Message, NEW s \in Nat, m.id = s + 1,
           \A x \in M : x.id \in 1..s, NEW db, NEW u, NEW g
    PROVE  /\ \A n \in 1..(s + 1) : Holds(M \cup {m}, db, u, g, n) <=> Holds(M, db, u, g, n)
           /\ Holds(M \cup {m}, db, u, g, s + 2)
                <=> Brings(m, u, g) \/ (Holds(M, db, u, g, s + 1) /\ ~Takes(m, u, g))
<1>0. ~(Brings(m, u, g) /\ Takes(m, u, g))
  BY DEF Brings, Takes
<1>1. ASSUME NEW n \in 1..(s + 1)
      PROVE  Holds(M \cup {m}, db, u, g, n) <=> Holds(M, db, u, g, n)
  BY DEF Holds
<1>2. CASE Brings(m, u, g)
  <2>1. \A d \in M \cup {m} : ~(m.id < d.id /\ d.id < s + 2)
    OBVIOUS
  <2>2. m.id < s + 2
    OBVIOUS
  <2> QED BY <1>1, <1>2, <2>1, <2>2 DEF Holds
<1>3. CASE Takes(m, u, g)
  <2>1. ASSUME NEW a \in M \cup {m}, Brings(a, u, g) PROVE a.id < m.id /\ m.id < s + 2
    BY <1>0, <1>3, <2>1
  <2>2. ~(s + 2 <= m.id)
    OBVIOUS
  <2> QED BY <1>0, <1>1, <1>3, <2>1, <2>2 DEF Holds
<1>4. CASE ~Brings(m, u, g) /\ ~Takes(m, u, g)
  <2>1. \A a \in M : a.id < s + 2 /\ a.id < s + 1 /\ ~(s + 2 <= a.id) /\ ~(s + 1 <= a.id)
    OBVIOUS
  <2> QED BY <1>1, <1>4, <2>1 DEF Holds
<1> QED BY <1>2, <1>3, <1>4

(* The message with the lowest number is served. *)
LEMMA HoldsServe ==
    ASSUME NEW M \in SUBSET Message, NEW m \in Message, \A x \in M : m.id < x.id,
           NEW db, NEW db1, NEW u, NEW g,
           Has(db1, u, g) <=> Brings(m, u, g) \/ (Has(db, u, g) /\ ~Takes(m, u, g)),
           NEW n \in Nat, m.id < n
    PROVE  Holds(M, db1, u, g, n) <=> Holds(M \cup {m}, db, u, g, n)
<1>0. /\ ~(Brings(m, u, g) /\ Takes(m, u, g))
      /\ \A x \in M \cup {m} : x.id \in Nat
  BY ConstantsAssumption DEF Brings, Takes, Message, Fields
<1>1. CASE Brings(m, u, g)
  <2>1. /\ \A d \in M : m.id < d.id /\ (n <= d.id <=> ~(m.id < d.id /\ d.id < n))
        /\ \A a \in M : ~(a.id < m.id)
    BY <1>0
  <2> QED BY <1>0, <1>1, <2>1 DEF Holds
<1>2. CASE Takes(m, u, g)
  <2>1. /\ \A a \in M : ~(a.id < m.id)
        /\ ~(n <= m.id)
    BY <1>0
  <2> QED BY <1>0, <1>2, <2>1 DEF Holds
<1>3. CASE ~Brings(m, u, g) /\ ~Takes(m, u, g)
  BY <1>3 DEF Holds
<1> QED BY <1>1, <1>2, <1>3

(* Nothing changes between two numbers with no request to all handlers     *)
(* from the first up to the second.                                        *)
LEMMA HoldsGap ==
    ASSUME NEW M \in SUBSET Message, NEW n \in Nat, NEW k \in Nat, n <= k,
           \A x \in M : x.kind \in FanOutKinds => x.id < n \/ k <= x.id,
           NEW db, NEW u, NEW g
    PROVE  Holds(M, db, u, g, n) <=> Holds(M, db, u, g, k)
<1>1. \A x \in M : /\ x.id \in Nat
                   /\ Brings(x, u, g) \/ Takes(x, u, g) => x.id < n \/ k <= x.id
  BY ConstantsAssumption, WritersFanOut DEF Message, Fields
<1> QED BY <1>1 DEF Holds

-----------------------------------------------------------------------------
(***************************************************************************)
(* Two handlers, with messages M and N left and tables db and eb: whenever *)
(* what both have to serve from number n on is the same, they have the     *)
(* same users and memberships when they get there.  s is the last number.  *)
(***************************************************************************)
Same(M, db, N, eb, s) ==
    \A n \in 1..(s + 1) :
        FanFrom(M, n) = FanFrom(N, n) =>
            \A u \in Users, g \in Groups \cup {None} :
                Holds(M, db, u, g, n) <=> Holds(N, eb, u, g, n)

(* A number is given out that reaches neither of the two.                  *)
LEMMA SameGrow ==
    ASSUME NEW M \in SUBSET Message, NEW N \in SUBSET Message, NEW s \in Nat,
           \A x \in M \cup N : x.id \in 1..s, NEW db, NEW eb, Same(M, db, N, eb, s)
    PROVE  Same(M, db, N, eb, s + 1)
<1> SUFFICES ASSUME NEW n \in 1..(s + 2), FanFrom(M, n) = FanFrom(N, n),
                    NEW u \in Users, NEW g \in Groups \cup {None}
             PROVE  Holds(M, db, u, g, n) <=> Holds(N, eb, u, g, n)
  BY DEF Same
<1>1. CASE n \in 1..(s + 1)
  BY <1>1 DEF Same
<1>2. CASE n = s + 2
  <2>1. FanFrom(M, s + 1) = {} /\ FanFrom(N, s + 1) = {}
    BY DEF FanFrom
  <2>2. Holds(M, db, u, g, s + 1) <=> Holds(N, eb, u, g, s + 1)
    <3>1. s + 1 \in 1..(s + 1)
      OBVIOUS
    <3> QED BY <2>1, <3>1 DEF Same
  <2>3. /\ Holds(M, db, u, g, s + 1) <=> Holds(M, db, u, g, s + 2)
        /\ Holds(N, eb, u, g, s + 1) <=> Holds(N, eb, u, g, s + 2)
    <3>1. s + 1 \in Nat /\ s + 2 \in Nat /\ s + 1 <= s + 2
      OBVIOUS
    <3>2. \A x \in M \cup N : x.id < s + 1
      OBVIOUS
    <3> QED BY <3>1, <3>2, HoldsGap
  <2> QED BY <1>2, <2>2, <2>3
<1> QED BY <1>1, <1>2

(* A message for one handler alone makes no difference. *)
LEMMA SameQuiet ==
    ASSUME NEW M \in SUBSET Message, NEW m \in Message, m.kind \notin FanOutKinds,
           NEW db, NEW N, NEW eb, NEW s
    PROVE  Same(M \cup {m}, db, N, eb, s) <=> Same(M, db, N, eb, s)
<1>1. \A n : FanFrom(M \cup {m}, n) = FanFrom(M, n)
  BY DEF FanFrom
<1>2. \A u, g : ~Brings(m, u, g) /\ ~Takes(m, u, g)
  BY DEF Brings, Takes, FanOutKinds
<1>3. \A u, g, n : Holds(M \cup {m}, db, u, g, n) <=> Holds(M, db, u, g, n)
  BY <1>2 DEF Holds
<1> QED BY <1>1, <1>3 DEF Same

(* Both receive the message with the next number. *)
LEMMA SameNext ==
    ASSUME NEW M \in SUBSET Message, NEW N \in SUBSET Message, NEW s \in Nat,
           \A x \in M \cup N : x.id \in 1..s, NEW m \in Message, m.id = s + 1,
           NEW db, NEW eb, Same(M, db, N, eb, s)
    PROVE  Same(M \cup {m}, db, N \cup {m}, eb, s + 1)
<1> (s + 1) + 1 = s + 2
  OBVIOUS
<1> SUFFICES ASSUME NEW n \in 1..(s + 2), FanFrom(M \cup {m}, n) = FanFrom(N \cup {m}, n),
                    NEW u \in Users, NEW g \in Groups \cup {None}
             PROVE  Holds(M \cup {m}, db, u, g, n) <=> Holds(N \cup {m}, eb, u, g, n)
  BY DEF Same
<1>0. /\ \A x \in M : x.id \in 1..s
      /\ \A x \in N : x.id \in 1..s
  OBVIOUS
<1>1. CASE n \in 1..(s + 1)
  <2>1. FanFrom(M, n) = FanFrom(N, n)
    <3>1. /\ FanFrom(M, n) = FanFrom(M \cup {m}, n) \ {s + 1}
          /\ FanFrom(N, n) = FanFrom(N \cup {m}, n) \ {s + 1}
      BY <1>0 DEF FanFrom
    <3> QED BY <3>1
  <2>2. Holds(M, db, u, g, n) <=> Holds(N, eb, u, g, n)
    BY <1>1, <2>1 DEF Same
  <2> QED BY <1>0, <1>1, <2>2, HoldsNext
<1>2. CASE n = s + 2
  <2>1. FanFrom(M, s + 1) = {} /\ FanFrom(N, s + 1) = {}
    BY <1>0 DEF FanFrom
  <2>2. Holds(M, db, u, g, s + 1) <=> Holds(N, eb, u, g, s + 1)
    <3>1. s + 1 \in 1..(s + 1)
      OBVIOUS
    <3> QED BY <2>1, <3>1 DEF Same
  <2>3. /\ Holds(M \cup {m}, db, u, g, s + 2)
             <=> Brings(m, u, g) \/ (Holds(M, db, u, g, s + 1) /\ ~Takes(m, u, g))
        /\ Holds(N \cup {m}, eb, u, g, s + 2)
             <=> Brings(m, u, g) \/ (Holds(N, eb, u, g, s + 1) /\ ~Takes(m, u, g))
    BY <1>0, HoldsNext
  <2> QED BY <1>2, <2>2, <2>3
<1> QED BY <1>1, <1>2

(* One of the two serves its next message. *)
LEMMA SameServe ==
    ASSUME NEW M \in SUBSET Message, NEW m \in Message, \A x \in M : m.id < x.id,
           NEW N \in SUBSET Message, NEW s \in Nat, m.id \in 1..s,
           NEW db, NEW db1, NEW eb, Same(M \cup {m}, db, N, eb, s),
           \A u \in Users, g \in Groups \cup {None} :
              Has(db1, u, g) <=> Brings(m, u, g) \/ (Has(db, u, g) /\ ~Takes(m, u, g))
    PROVE  Same(M, db1, N, eb, s)
<1> SUFFICES ASSUME NEW n \in 1..(s + 1), FanFrom(M, n) = FanFrom(N, n),
                    NEW u \in Users, NEW g \in Groups \cup {None}
             PROVE  Holds(M, db1, u, g, n) <=> Holds(N, eb, u, g, n)
  BY DEF Same
<1>0. \A x \in M \cup N : x.id \in Nat
  BY ConstantsAssumption DEF Message, Fields
<1>1. CASE m.kind \notin FanOutKinds
  <2>1. Same(M, db, N, eb, s)
    BY <1>1, SameQuiet
  <2>2. Has(db1, u, g) <=> Has(db, u, g)
    BY <1>1, WritersFanOut
  <2>3. Holds(M, db, u, g, n) <=> Holds(N, eb, u, g, n)
    BY <2>1 DEF Same
  <2> QED BY <2>2, <2>3 DEF Holds
<1>2. CASE m.kind \in FanOutKinds /\ m.id < n
  <2>1. FanFrom(M \cup {m}, n) = FanFrom(M, n)
    BY <1>2 DEF FanFrom
  <2>2. Holds(M \cup {m}, db, u, g, n) <=> Holds(N, eb, u, g, n)
    BY <2>1 DEF Same
  <2>3. Holds(M, db1, u, g, n) <=> Holds(M \cup {m}, db, u, g, n)
    BY <1>2, HoldsServe
  <2> QED BY <2>2, <2>3
<1>3. CASE m.kind \in FanOutKinds /\ n <= m.id
  <2> DEFINE k == m.id + 1
  <2>0. k \in 1..(s + 1) /\ k \in Nat /\ n \in Nat /\ n <= k /\ m.id < k
    BY <1>3
  <2>1. \A x \in M : k <= x.id
    BY <1>0, <2>0
  <2>2. \A x \in N : x.kind \in FanOutKinds => x.id < n \/ k <= x.id
    <3> SUFFICES ASSUME NEW x \in N, x.kind \in FanOutKinds, n <= x.id PROVE k <= x.id
      BY <1>0, <2>0
    <3>1. x.id \in FanFrom(M, n)
      BY DEF FanFrom
    <3>2. PICK y \in M : y.id = x.id
      BY <3>1 DEF FanFrom
    <3> QED BY <2>1, <3>2
  <2> HIDE DEF k
  <2>3. FanFrom(M, n) = FanFrom(M \cup {m}, k) /\ FanFrom(N, n) = FanFrom(N, k)
    <3>1. \A x \in M : x.id >= n /\ x.id >= k
      BY <1>0, <2>0, <2>1
    <3>2. ~(m.id >= k)
      BY <2>0
    <3>3. \A x \in N : x.kind \in FanOutKinds => (x.id >= n <=> x.id >= k)
      BY <1>0, <2>0, <2>2
    <3> QED BY <3>1, <3>2, <3>3 DEF FanFrom
  <2>4. Holds(M \cup {m}, db, u, g, k) <=> Holds(N, eb, u, g, k)
    BY <2>0, <2>3 DEF Same
  <2>5. Holds(M, db1, u, g, k) <=> Holds(M \cup {m}, db, u, g, k)
    BY <2>0, HoldsServe
  <2>6. Holds(M, db1, u, g, n) <=> Holds(M, db1, u, g, k)
    BY <2>0, <2>1, HoldsGap
  <2>7. Holds(N, eb, u, g, n) <=> Holds(N, eb, u, g, k)
    BY <2>0, <2>2, HoldsGap
  <2> QED BY <2>4, <2>5, <2>6, <2>7
<1>4. m.id \in Nat /\ n \in Nat
  OBVIOUS
<1> QED BY <1>1, <1>2, <1>3, <1>4

(* The order of the two does not matter, and a handler is like itself. *)
LEMMA SameSymmetric ==
    ASSUME NEW M, NEW db, NEW N, NEW eb, NEW s
    PROVE  /\ Same(M, db, M, db, s)
           /\ Same(M, db, N, eb, s) => Same(N, eb, M, db, s)
<1>1. Same(M, db, M, db, s)
  BY DEF Same
<1>2. ASSUME Same(M, db, N, eb, s) PROVE Same(N, eb, M, db, s)
  BY <1>2 DEF Same
<1> QED BY <1>1, <1>2

-----------------------------------------------------------------------------
(* What a handler makes of the message at the head of its queue.           *)
LEMMA ServesMembers ==
    ASSUME NEW db \in Tables, NEW m \in Message, m.kind # "set_baud_rate",
           m.kind = "add_user" => m.user \notin db.users /\ m.group \in db.groups,
           m.kind \in NeedsUser => m.user \in db.users,
           NEW u \in Users, NEW g \in Groups \cup {None}
    PROVE  Has(IF Succeeds(db, m) THEN Effect(db, m) ELSE db, u, g)
              <=> Brings(m, u, g) \/ (Has(db, u, g) /\ ~Takes(m, u, g))
<1> DEFINE db1 == IF Succeeds(db, m) THEN Effect(db, m) ELSE db
<1>0. /\ m.kind \in FanOutKinds \cup {"port_join"}
      /\ m.kind \in UserKinds => m.user \in Users
      /\ m.kind \in GroupKinds => m.group \in Groups
  BY DEF Message, Fields, PortKinds
<1>1. None \notin Groups
  BY ConstantsAssumption
<1>2. CASE m.kind \in {"create_group", "destroy_group", "port_join"}
  <2>1. \/ db1 = db
        \/ db1 = CreateGroupIn(db, m.group)
        \/ db1 = DestroyGroupIn(db, m.group)
        \/ db1 = PortJoinIn(db, m.port, m.group)
    BY <1>2 DEF Effect
  <2>2. db1.users = db.users /\ db1.member = db.member
    BY <2>1 DEF CreateGroupIn, DestroyGroupIn, PortJoinIn, Tables
  <2> HIDE DEF db1
  <2>3. Has(db1, u, g) <=> Has(db, u, g)
    BY <2>2 DEF Has
  <2>4. ~Brings(m, u, g) /\ ~Takes(m, u, g)
    BY <1>2 DEF Brings, Takes
  <2> QED BY <2>3, <2>4 DEF db1
<1>3. CASE m.kind = "add_user"
  <2>1. db1 = AddUserIn(db, m.user, m.group)
    BY <1>3 DEF Succeeds, Effect, CanAddUser
  <2>2. /\ db1.users = db.users \cup {m.user}
        /\ db1.member = db.member \cup {<<m.user, m.group>>}
    BY <2>1 DEF AddUserIn, Tables
  <2> HIDE DEF db1
  <2>3. ~Takes(m, u, g) /\ (Brings(m, u, g) <=> m.user = u /\ g \in {None, m.group})
    BY <1>3 DEF Brings, Takes
  <2>4. Has(db1, u, g) <=> Brings(m, u, g) \/ Has(db, u, g)
    <3>1. CASE g = None
      BY <2>2, <2>3, <3>1 DEF Has
    <3>2. CASE g # None
      BY <2>2, <2>3, <3>2 DEF Has
    <3> QED BY <3>1, <3>2
  <2> QED BY <2>3, <2>4 DEF db1
<1>4. CASE m.kind = "del_user"
  <2>1. db1 = DelUserIn(db, m.user)
    BY <1>4 DEF Succeeds, Effect, CanDelUser, NeedsUser
  <2>2. /\ db1.users = db.users \ {m.user}
        /\ db1.member = {x \in db.member : x[1] # m.user}
    BY <2>1 DEF DelUserIn, Tables
  <2> HIDE DEF db1
  <2>3. ~Brings(m, u, g) /\ (Takes(m, u, g) <=> m.user = u)
    BY <1>4 DEF Brings, Takes
  <2>4. Has(db1, u, g) <=> Has(db, u, g) /\ m.user # u
    <3>1. CASE g = None
      BY <2>2, <3>1 DEF Has
    <3>2. CASE g # None
      BY <2>2, <3>2 DEF Has
    <3> QED BY <3>1, <3>2
  <2> QED BY <2>3, <2>4 DEF db1
<1>5. CASE m.kind = "user_join"
  <2>1. db1 = IF <<m.user, m.group>> \in db.member THEN db ELSE JoinIn(db, m.user, m.group)
    BY <1>5 DEF Succeeds, Effect, CanJoin, NeedsUser
  <2>2. /\ db1.users = db.users
        /\ db1.member = db.member \cup {<<m.user, m.group>>}
    BY <2>1 DEF JoinIn, Tables
  <2> HIDE DEF db1
  <2>3. ~Takes(m, u, g) /\ (Brings(m, u, g) <=> m.user = u /\ g = m.group)
    BY <1>5 DEF Brings, Takes
  <2>4. m.group # None
    BY <1>0, <1>1, <1>5 DEF GroupKinds, FanOutKinds
  <2>5. Has(db1, u, g) <=> Brings(m, u, g) \/ Has(db, u, g)
    BY <2>2, <2>3, <2>4 DEF Has
  <2> QED BY <2>3, <2>5 DEF db1
<1>6. CASE m.kind = "user_leave"
  <2>1. db1 = IF <<m.user, m.group>> \in db.member THEN LeaveIn(db, m.user, m.group) ELSE db
    BY <1>6 DEF Succeeds, Effect, CanLeave, NeedsUser
  <2>2. /\ db1.users = db.users
        /\ db1.member = db.member \ {<<m.user, m.group>>}
    BY <2>1 DEF LeaveIn, Tables
  <2> HIDE DEF db1
  <2>3. ~Brings(m, u, g) /\ (Takes(m, u, g) <=> m.user = u /\ g = m.group)
    BY <1>6 DEF Brings, Takes
  <2>4. m.group # None
    BY <1>0, <1>1, <1>6 DEF GroupKinds, FanOutKinds
  <2>5. Has(db1, u, g) <=> Has(db, u, g) /\ ~Takes(m, u, g)
    BY <2>2, <2>3, <2>4 DEF Has
  <2> QED BY <2>3, <2>5 DEF db1
<1> QED BY <1>0, <1>2, <1>3, <1>4, <1>5, <1>6 DEF FanOutKinds

(***************************************************************************)
(* One step of handler k: a message m leaves its queue, and its table      *)
(* becomes db1.  Of the other handlers, nothing changes.                   *)
(***************************************************************************)
Serves(k, m, db1) ==
    /\ m = Head(queue[k]) /\ m \in Message
    /\ Msgs(queue[k]) = Msgs(Tail(queue[k])) \cup {m}
    /\ m.id \in 1..sent /\ \A x \in Msgs(Tail(queue[k])) : m.id < x.id
    /\ \A u \in Users, g \in Groups \cup {None} :
          Has(db1, u, g) <=> Brings(m, u, g) \/ (Has(hdb[k], u, g) /\ ~Takes(m, u, g))
    /\ queue' = [queue EXCEPT ![k] = Tail(@)]
    /\ hdb' = [hdb EXCEPT ![k] = db1]
    /\ UNCHANGED <<config, op, sent>>

(* _process_dispatcher_message of the handler takes one message, in the    *)
(* order of their numbers, and serves it or dies of it.                    *)
LEMMA HandlerServesOne ==
    ASSUME TypeOK, Numbered, Consistent, NEW k \in Handlers, HandlerStep(k)
    PROVE  \E m, db1 : Serves(k, m, db1)
<1> DEFINE q == queue[k]
           m == Head(q)
           db == hdb[k]
<1>1. /\ q # <<>> /\ q \in Seq(Message) /\ db \in Tables
      /\ queue' = [queue EXCEPT ![k] = Tail(@)] /\ UNCHANGED <<config, op, sent>>
  BY DEF HandlerStep, HandlerServes, HandlerCrashes, TypeOK
<1>2. m \in Message /\ Msgs(q) = Msgs(Tail(q)) \cup {m}
  BY <1>1, MsgsOf
<1>3. m.id \in 1..sent /\ \A x \in Msgs(Tail(q)) : m.id < x.id
  BY <1>1, <1>2, MsgsNumbered
<1>4. CASE HandlerCrashes(k)
  <2>1. hdb' = [hdb EXCEPT ![k] = db] /\ m.kind = "set_baud_rate"
    BY <1>4 DEF HandlerCrashes, TypeOK
  <2> HIDE DEF m
  <2>2. \A u, g : ~Brings(m, u, g) /\ ~Takes(m, u, g)
    BY <2>1 DEF Brings, Takes
  <2>3. Serves(k, m, db)
    BY <1>1, <1>2, <1>3, <2>1, <2>2 DEF Serves, m
  <2> QED BY <2>3
<1>5. CASE HandlerServes(k)
  <2> DEFINE db1 == IF Succeeds(db, m) THEN Effect(db, m) ELSE db
  <2>1. hdb' = [hdb EXCEPT ![k] = db1] /\ m.kind # "set_baud_rate"
    BY <1>5 DEF HandlerServes
  <2>2. /\ m.kind = "add_user" => m.user \notin db.users /\ m.group \in db.groups
        /\ m.kind \in NeedsUser => m.user \in db.users
    BY <1>1, HeadFits DEF Consistent
  <2> HIDE DEF m, db, q
  <2>3. \A u \in Users, g \in Groups \cup {None} :
           Has(db1, u, g) <=> Brings(m, u, g) \/ (Has(db, u, g) /\ ~Takes(m, u, g))
    BY <1>1, <1>2, <2>1, <2>2, ServesMembers
  <2> HIDE DEF db1
  <2>4. Serves(k, m, db1)
    BY <1>1, <1>2, <1>3, <2>1, <2>3 DEF Serves, m, db, q
  <2> QED BY <2>4
<1> QED BY <1>4, <1>5 DEF HandlerStep

-----------------------------------------------------------------------------
(* Every two handlers are alike when they have come equally far. *)
SameProgress ==
    \A h, k \in Handlers : Same(Msgs(queue[h]), hdb[h], Msgs(queue[k]), hdb[k], sent)

(* At the start they are. *)
LEMMA SameProgressInit == Init => SameProgress
<1> SUFFICES ASSUME Init, NEW h \in Handlers, NEW k \in Handlers
             PROVE  Same(Msgs(queue[h]), hdb[h], Msgs(queue[k]), hdb[k], sent)
  BY DEF SameProgress
<1>1. queue[h] = <<>> /\ queue[k] = <<>> /\ Msgs(<<>>) = {}
  BY DEF Init, Msgs
<1>2. hdb[h].users = hdb[k].users /\ hdb[h].member = hdb[k].member
  BY DEF Init, InitialTable
<1>3. \A u, g : Has(hdb[h], u, g) <=> Has(hdb[k], u, g)
  BY <1>2 DEF Has
<1> QED BY <1>1, <1>3 DEF Same, Holds

(* A request reaches both, one of them, or none. *)
LEMMA SameProgressRequest ==
    ASSUME TypeOK, Numbered, SameProgress, NEW fd \in Fds, RequestOutcome(fd)
    PROVE  SameProgress'
<1> SUFFICES ASSUME NEW h \in Handlers, NEW k \in Handlers
             PROVE  Same(Msgs(queue'[h]), hdb'[h], Msgs(queue'[k]), hdb'[k], sent')
  BY DEF SameProgress
<1> DEFINE M == Msgs(queue[h])
           N == Msgs(queue[k])
<1>1. /\ queue[h] \in Seq(Message) /\ queue[k] \in Seq(Message) /\ sent \in Nat
      /\ hdb' = hdb /\ sent' = sent + 1
  BY ConstantsAssumption DEF TypeOK, RequestOutcome
<1>2. /\ M \in SUBSET Message /\ N \in SUBSET Message
      /\ \A x \in M \cup N : x.id \in 1..sent
  BY <1>1, MsgsOf, MsgsNumbered
<1>3. Same(M, hdb[h], N, hdb[k], sent)
  BY DEF SameProgress
<1>4. Same(M, hdb[h], N, hdb[k], sent + 1)
  BY <1>1, <1>2, <1>3, SameGrow
<1>5. CASE queue' = queue
  BY <1>1, <1>4, <1>5
<1>6. ASSUME NEW m, Passed(fd, m)
      PROVE  Same(Msgs(queue'[h]), hdb'[h], Msgs(queue'[k]), hdb'[k], sent')
  <2>1. m \in Message /\ m.id = sent + 1
    BY <1>6 DEF Passed
  <2>2. CASE FanOut(m)
    <3>1. Msgs(queue'[h]) = M \cup {m} /\ Msgs(queue'[k]) = N \cup {m}
      BY <1>1, <2>1, <2>2, MsgsOf DEF FanOut
    <3> HIDE DEF M, N
    <3>2. Same(M \cup {m}, hdb[h], N \cup {m}, hdb[k], sent + 1)
      BY <1>1, <1>2, <1>3, <2>1, SameNext
    <3> QED BY <1>1, <3>1, <3>2
  <2>3. CASE m.kind \in PortKinds /\ ToHandler(m)
    <3>1. m.kind \notin FanOutKinds
      BY <2>3 DEF FanOutKinds, PortKinds
    <3>2. ASSUME NEW b \in Handlers
          PROVE  Msgs(queue'[b]) = Msgs(queue[b]) \/ Msgs(queue'[b]) = Msgs(queue[b]) \cup {m}
      <4>1. queue[b] \in Seq(Message)
        BY DEF TypeOK
      <4>2. queue'[b] = queue[b] \/ queue'[b] = Append(queue[b], m)
        BY <2>3 DEF ToHandler, TypeOK
      <4> QED BY <2>1, <4>1, <4>2, MsgsOf
    <3> HIDE DEF M, N
    <3>3. Same(M \cup {m}, hdb[h], N, hdb[k], sent + 1)
      BY <1>2, <1>4, <2>1, <3>1, SameQuiet
    <3>4. /\ Same(N, hdb[k], M, hdb[h], sent + 1)
          /\ Same(N, hdb[k], M \cup {m}, hdb[h], sent + 1)
      BY <1>4, <3>3, SameSymmetric
    <3>5. /\ Same(N \cup {m}, hdb[k], M, hdb[h], sent + 1)
          /\ Same(N \cup {m}, hdb[k], M \cup {m}, hdb[h], sent + 1)
      BY <1>2, <2>1, <3>1, <3>4, SameQuiet
    <3>6. /\ Same(M, hdb[h], N \cup {m}, hdb[k], sent + 1)
          /\ Same(M \cup {m}, hdb[h], N \cup {m}, hdb[k], sent + 1)
      BY <3>5, SameSymmetric
    <3>7. /\ Msgs(queue'[h]) = M \/ Msgs(queue'[h]) = M \cup {m}
          /\ Msgs(queue'[k]) = N \/ Msgs(queue'[k]) = N \cup {m}
      BY <3>2 DEF M, N
    <3> QED BY <1>1, <1>4, <3>3, <3>6, <3>7
  <2> QED BY <1>6, <2>2, <2>3 DEF Passed
<1> QED BY <1>5, <1>6 DEF RequestOutcome, Answered, Unanswered

(* A handler goes one message further. *)
LEMMA SameProgressHandler ==
    ASSUME TypeOK, Numbered, Consistent, SameProgress, NEW b \in Handlers, HandlerStep(b)
    PROVE  SameProgress'
<1>1. PICK m, db1 : Serves(b, m, db1)
  BY HandlerServesOne
<1> DEFINE M == Msgs(Tail(queue[b]))
<1>2. /\ m \in Message /\ m.id \in 1..sent /\ \A x \in M : m.id < x.id
      /\ Msgs(queue[b]) = M \cup {m}
      /\ \A u \in Users, g \in Groups \cup {None} :
            Has(db1, u, g) <=> Brings(m, u, g) \/ (Has(hdb[b], u, g) /\ ~Takes(m, u, g))
      /\ sent' = sent /\ sent \in Nat
  BY <1>1, ConstantsAssumption DEF Serves, TypeOK
<1>3. /\ Msgs(queue'[b]) = M /\ hdb'[b] = db1
      /\ \A h \in Handlers \ {b} : queue'[h] = queue[h] /\ hdb'[h] = hdb[h]
  BY <1>1 DEF Serves, TypeOK
<1>4. M \in SUBSET Message /\ \A h \in Handlers : Msgs(queue[h]) \in SUBSET Message
  <2>1. \A h \in Handlers : Msgs(queue[h]) \in SUBSET Message
    BY MsgsOf DEF TypeOK
  <2> HIDE DEF M
  <2> QED BY <1>2, <2>1
<1> HIDE DEF M
<1>5. ASSUME NEW h \in Handlers \ {b} PROVE Same(M, db1, Msgs(queue[h]), hdb[h], sent)
  <2>1. Same(M \cup {m}, hdb[b], Msgs(queue[h]), hdb[h], sent)
    BY <1>2 DEF SameProgress
  <2> QED BY <1>2, <1>4, <2>1, SameServe
<1> SUFFICES ASSUME NEW h \in Handlers, NEW k \in Handlers
             PROVE  Same(Msgs(queue'[h]), hdb'[h], Msgs(queue'[k]), hdb'[k], sent')
  BY DEF SameProgress
<1>6. CASE h = b /\ k = b
  BY <1>6, SameSymmetric
<1>7. CASE h = b /\ k # b
  BY <1>2, <1>3, <1>5, <1>7
<1>8. CASE h # b /\ k = b
  <2>1. Same(Msgs(queue[h]), hdb[h], M, db1, sent)
    BY <1>5, <1>8, SameSymmetric
  <2> QED BY <1>2, <1>3, <1>8, <2>1
<1>9. CASE h # b /\ k # b
  BY <1>2, <1>3, <1>9 DEF SameProgress
<1> QED BY <1>6, <1>7, <1>8, <1>9

(* Steps of other parts leave queues and tables alone. *)
LEMMA QuietSteps ==
    ASSUME [Next]_vars, ~\E fd \in Fds : ClientRequest(fd), ~\E h \in Handlers : HandlerStep(h)
    PROVE  UNCHANGED <<config, hdb, queue, sent>>
<1>1. CASE \E fd \in Fds : Connection(fd)
  BY <1>1 DEF Connection, Accept, PeerClose, CloseClient
<1>2. CASE \E h \in Handlers : ServerTakesReply(h)
  BY <1>2 DEF ServerTakesReply, ReplyIgnored, ReplyRaises, ReplyRecorded, ReplyCompletes, TakeReply
<1>3. CASE \E h \in Handlers : HandlerStops(h)
  BY <1>3 DEF HandlerStops
<1>4. CASE UNCHANGED vars
  BY <1>4 DEF vars
<1> QED BY <1>1, <1>2, <1>3, <1>4 DEF Next

(* Every step keeps them alike. *)
LEMMA SameProgressStep ==
    TypeOK /\ Numbered /\ Consistent /\ SameProgress /\ [Next]_vars => SameProgress'
<1> SUFFICES ASSUME TypeOK, Numbered, Consistent, SameProgress, [Next]_vars
             PROVE  SameProgress'
  OBVIOUS
<1>1. CASE \E fd \in Fds : ClientRequest(fd)
  BY <1>1, ClientRequestOutcome, SameProgressRequest
<1>2. CASE \E h \in Handlers : HandlerStep(h)
  BY <1>2, SameProgressHandler
<1>3. CASE UNCHANGED <<config, hdb, queue, sent>>
  BY <1>3 DEF SameProgress
<1> QED BY <1>1, <1>2, <1>3, QuietSteps

(* Two handlers with the same requests left to serve have the same users   *)
(* and memberships, whatever the ports they have, and whichever of them    *)
(* has died (EqualProgressEqualAccounts).                                  *)
THEOREM EqualAccounts == Spec => []EqualProgressEqualAccounts
<1>1. TypeOK /\ Numbered /\ SameProgress => EqualProgressEqualAccounts
  <2> SUFFICES ASSUME TypeOK, Numbered, SameProgress, NEW h \in Handlers, NEW k \in Handlers,
                      FanOutPending(h) = FanOutPending(k)
               PROVE  hdb[h].users = hdb[k].users /\ hdb[h].member = hdb[k].member
    BY DEF EqualProgressEqualAccounts
  <2>1. ASSUME NEW b \in Handlers
        PROVE  /\ \A x \in Msgs(queue[b]) : x.id \in Nat /\ 1 <= x.id
               /\ FanFrom(Msgs(queue[b]), 1) = FanOutPending(b)
    <3>1. \A x \in Msgs(queue[b]) : x.id \in Nat /\ 1 <= x.id
      BY MsgsNumbered
    <3> QED BY <3>1 DEF FanFrom, FanOutPending, Msgs
  <2>2. 1 \in 1..(sent + 1)
    BY ConstantsAssumption DEF TypeOK
  <2>3. \A u \in Users, g \in Groups \cup {None} :
           Holds(Msgs(queue[h]), hdb[h], u, g, 1) <=> Holds(Msgs(queue[k]), hdb[k], u, g, 1)
    BY <2>1, <2>2 DEF SameProgress, Same
  <2>4. ASSUME NEW b \in Handlers, NEW u, NEW g
        PROVE  Holds(Msgs(queue[b]), hdb[b], u, g, 1) <=> Has(hdb[b], u, g)
    BY <2>1 DEF Holds
  <2>5. \A u \in Users, g \in Groups \cup {None} : Has(hdb[h], u, g) <=> Has(hdb[k], u, g)
    BY <2>3, <2>4
  <2>6. /\ \A u \in Users : u \in hdb[h].users <=> u \in hdb[k].users
        /\ \A u \in Users, g \in Groups : <<u, g>> \in hdb[h].member <=> <<u, g>> \in hdb[k].member
    BY <2>5, ConstantsAssumption DEF Has
  <2>7. /\ hdb[h].users \subseteq Users /\ hdb[k].users \subseteq Users
        /\ hdb[h].member \subseteq Users \X Groups /\ hdb[k].member \subseteq Users \X Groups
    BY DEF TypeOK, Tables
  <2>8. hdb[h].users = hdb[k].users
    BY <2>6, <2>7
  <2>9. \A x \in Users \X Groups : x \in hdb[h].member <=> x \in hdb[k].member
    <3> SUFFICES ASSUME NEW x \in Users \X Groups
                 PROVE  x \in hdb[h].member <=> x \in hdb[k].member
      OBVIOUS
    <3>1. x[1] \in Users /\ x[2] \in Groups /\ x = <<x[1], x[2]>>
      OBVIOUS
    <3> QED BY <2>6, <3>1
  <2>10. hdb[h].member = hdb[k].member
    BY <2>7, <2>9
  <2> QED BY <2>8, <2>10
<1> QED
  BY <1>1, SameProgressInit, SameProgressStep, NumberedInit, NumberedStep,
     ConsistentInit, ConsistentStep, TypeCorrect, PTL DEF Spec

-----------------------------------------------------------------------------
(* A membership a handler has, or will have, is one of the configuration DB. *)
MembersKnown ==
    \A h \in Handlers, u \in Users, g \in Groups :
        Holds(Msgs(queue[h]), hdb[h], u, g, sent + 1) => <<u, g>> \in config.member

(* The first user is in the first group everywhere. *)
LEMMA MembersKnownInit == Init => MembersKnown
<1> SUFFICES ASSUME Init, NEW h \in Handlers, NEW u \in Users, NEW g \in Groups,
                    Holds(Msgs(queue[h]), hdb[h], u, g, sent + 1)
             PROVE  <<u, g>> \in config.member
  BY DEF MembersKnown
<1>1. queue[h] = <<>> /\ Msgs(<<>>) = {}
  BY DEF Init, Msgs
<1>2. hdb[h].member = config.member
  BY DEF Init, InitialTable, WithRoles
<1> QED BY <1>1, <1>2, ConstantsAssumption DEF Holds, Has

(* The configuration DB makes every change of membership it sends. *)
LEMMA MembersKnownRequest ==
    ASSUME TypeOK, Numbered, MembersKnown, NEW fd \in Fds, RequestOutcome(fd)
    PROVE  MembersKnown'
<1> SUFFICES ASSUME NEW h \in Handlers, NEW u \in Users, NEW g \in Groups,
                    Holds(Msgs(queue'[h]), hdb'[h], u, g, sent' + 1)
             PROVE  <<u, g>> \in config'.member
  BY DEF MembersKnown
<1> DEFINE M == Msgs(queue[h])
<1>1. /\ queue[h] \in Seq(Message) /\ sent \in Nat
      /\ hdb' = hdb /\ sent' + 1 = sent + 2
  BY ConstantsAssumption DEF TypeOK, RequestOutcome
<1>2. M \in SUBSET Message /\ \A x \in M : x.id \in 1..sent
  BY <1>1, MsgsOf, MsgsNumbered
<1>3. Holds(M, hdb[h], u, g, sent + 1) => <<u, g>> \in config.member
  BY DEF MembersKnown
<1>4. Holds(M, hdb[h], u, g, sent + 1) <=> Holds(M, hdb[h], u, g, sent + 2)
  <2>1. sent + 1 \in Nat /\ sent + 2 \in Nat /\ sent + 1 <= sent + 2
    BY <1>1
  <2>2. \A x \in M : x.id < sent + 1
    BY <1>1, <1>2
  <2> HIDE DEF M
  <2> QED BY <1>2, <2>1, <2>2, HoldsGap
<1>5. CASE AccountsKept /\ config.member \subseteq config'.member
           /\ (Answered \/ Unanswered(fd))
  BY <1>1, <1>3, <1>4, <1>5 DEF Answered, Unanswered
<1>6. ASSUME NEW m, Passed(fd, m) PROVE <<u, g>> \in config'.member
  <2>1. m \in Message /\ m.id = sent + 1
    BY <1>6 DEF Passed
  <2>2. <<u, g>> \in config'.member
           <=> Brings(m, u, g) \/ (<<u, g>> \in config.member /\ ~Takes(m, u, g))
    BY <1>6 DEF Passed, MemberChange
  <2>3. CASE queue'[h] = Append(queue[h], m)
    <3>1. Msgs(queue'[h]) = M \cup {m}
      BY <1>1, <2>1, <2>3, MsgsOf
    <3> HIDE DEF M
    <3>2. Brings(m, u, g) \/ (Holds(M, hdb[h], u, g, sent + 1) /\ ~Takes(m, u, g))
      BY <1>1, <1>2, <2>1, <3>1, HoldsNext
    <3> QED BY <1>3, <2>2, <3>2
  <2>4. CASE queue'[h] = queue[h] /\ m.kind \notin FanOutKinds
    BY <1>1, <1>3, <1>4, <2>2, <2>4, WritersFanOut
  <2>5. \/ queue'[h] = Append(queue[h], m)
        \/ queue'[h] = queue[h] /\ m.kind \notin FanOutKinds
    BY <1>6 DEF Passed, FanOut, ToHandler, TypeOK, FanOutKinds, PortKinds
  <2> QED BY <2>3, <2>4, <2>5
<1> QED BY <1>5, <1>6 DEF RequestOutcome

(* Serving a message changes nothing in the end. *)
LEMMA MembersKnownHandler ==
    ASSUME TypeOK, Numbered, Consistent, MembersKnown, NEW b \in Handlers, HandlerStep(b)
    PROVE  MembersKnown'
<1>1. PICK m, db1 : Serves(b, m, db1)
  BY HandlerServesOne
<1> DEFINE M == Msgs(Tail(queue[b]))
<1>2. /\ m \in Message /\ m.id \in 1..sent /\ \A x \in M : m.id < x.id
      /\ Msgs(queue[b]) = M \cup {m}
      /\ \A u \in Users, g \in Groups \cup {None} :
            Has(db1, u, g) <=> Brings(m, u, g) \/ (Has(hdb[b], u, g) /\ ~Takes(m, u, g))
      /\ sent' = sent /\ config' = config /\ sent \in Nat
  BY <1>1, ConstantsAssumption DEF Serves, TypeOK
<1>3. /\ Msgs(queue'[b]) = M /\ hdb'[b] = db1
      /\ \A h \in Handlers \ {b} : queue'[h] = queue[h] /\ hdb'[h] = hdb[h]
  BY <1>1 DEF Serves, TypeOK
<1>4. M \in SUBSET Message
  <2>1. Msgs(queue[b]) \in SUBSET Message
    BY MsgsOf DEF TypeOK
  <2> HIDE DEF M
  <2> QED BY <1>2, <2>1
<1> HIDE DEF M
<1> SUFFICES ASSUME NEW h \in Handlers, NEW u \in Users, NEW g \in Groups,
                    Holds(Msgs(queue'[h]), hdb'[h], u, g, sent' + 1)
             PROVE  <<u, g>> \in config'.member
  BY DEF MembersKnown
<1>5. CASE h # b
  BY <1>2, <1>3, <1>5 DEF MembersKnown
<1>6. CASE h = b
  <2>1. Has(db1, u, g) <=> Brings(m, u, g) \/ (Has(hdb[b], u, g) /\ ~Takes(m, u, g))
    BY <1>2
  <2>2. sent + 1 \in Nat /\ m.id < sent + 1
    BY <1>2
  <2>3. Holds(M \cup {m}, hdb[b], u, g, sent + 1)
    BY <1>2, <1>3, <1>4, <1>6, <2>1, <2>2, HoldsServe
  <2> QED BY <1>2, <2>3 DEF MembersKnown
<1> QED BY <1>5, <1>6

(* Every step keeps the memberships known. *)
LEMMA MembersKnownStep ==
    TypeOK /\ Numbered /\ Consistent /\ MembersKnown /\ [Next]_vars => MembersKnown'
<1> SUFFICES ASSUME TypeOK, Numbered, Consistent, MembersKnown, [Next]_vars
             PROVE  MembersKnown'
  OBVIOUS
<1>1. CASE \E fd \in Fds : ClientRequest(fd)
  BY <1>1, ClientRequestOutcome, MembersKnownRequest
<1>2. CASE \E h \in Handlers : HandlerStep(h)
  BY <1>2, MembersKnownHandler
<1>3. CASE UNCHANGED <<config, hdb, queue, sent>>
  BY <1>3 DEF MembersKnown
<1> QED BY <1>1, <1>2, <1>3, QuietSteps

(* A handler that has served every message about a user has no membership  *)
(* of the user that the configuration DB lacks (HandlerMembershipsKnown).  *)
THEOREM MembershipsKnown == Spec => []HandlerMembershipsKnown
<1>1. TypeOK /\ MembersKnown => HandlerMembershipsKnown
  <2> SUFFICES ASSUME TypeOK, MembersKnown, NEW h \in Handlers, NEW u \in Users,
                      ~UserPending(h, u), NEW g \in GroupsOf(hdb[h], u)
               PROVE  g \in GroupsOf(config, u)
    BY DEF HandlerMembershipsKnown
  <2>1. <<u, g>> \in hdb[h].member /\ g \in Groups
    BY DEF GroupsOf, TypeOK, Tables
  <2>2. \A x \in Msgs(queue[h]) : ~Takes(x, u, g)
    BY DEF UserPending, Msgs, Takes
  <2>3. Holds(Msgs(queue[h]), hdb[h], u, g, sent + 1)
    BY <2>1, <2>2, ConstantsAssumption DEF Holds, Has
  <2>4. <<u, g>> \in config.member
    BY <2>1, <2>3 DEF MembersKnown
  <2> QED BY <2>4 DEF GroupsOf
<1> QED
  BY <1>1, MembersKnownInit, MembersKnownStep, NumberedInit, NumberedStep,
     ConsistentInit, ConsistentStep, TypeCorrect, PTL DEF Spec

-----------------------------------------------------------------------------
(***************************************************************************)
(* The refinement of AccountReplication.                                   *)
(***************************************************************************)

(* The changes on a queue after an append and after a tail. *)
LEMMA ChangesOf ==
    ASSUME NEW q \in Seq(Message)
    PROVE  /\ Changes(q) = {ChangeOf(m) : m \in {x \in Msgs(q) : IsChange(x)}}
           /\ \A m \in Message :
                 Changes(Append(q, m)) = IF IsChange(m) THEN Changes(q) \cup {ChangeOf(m)}
                                                        ELSE Changes(q)
           /\ q # <<>> =>
                 Changes(q) = IF IsChange(Head(q)) THEN Changes(Tail(q)) \cup {ChangeOf(Head(q))}
                                                   ELSE Changes(Tail(q))
<1>1. \A r : Changes(r) = {ChangeOf(m) : m \in {x \in Msgs(r) : IsChange(x)}}
  BY DEF Changes, Msgs
<1>2. \A m \in Message : Msgs(Append(q, m)) = Msgs(q) \cup {m}
  BY MsgsOf
<1>3. q # <<>> => Msgs(q) = Msgs(Tail(q)) \cup {Head(q)}
  BY MsgsOf
<1>4. ASSUME NEW M, NEW N, NEW m, N = M \cup {m}
      PROVE  {ChangeOf(y) : y \in {x \in N : IsChange(x)}} =
                IF IsChange(m) THEN {ChangeOf(y) : y \in {x \in M : IsChange(x)}} \cup {ChangeOf(m)}
                               ELSE {ChangeOf(y) : y \in {x \in M : IsChange(x)}}
  BY <1>4
<1>5. ASSUME NEW m \in Message
      PROVE  Changes(Append(q, m)) = IF IsChange(m) THEN Changes(q) \cup {ChangeOf(m)}
                                                    ELSE Changes(q)
  BY <1>1, <1>2, <1>4
<1>6. ASSUME q # <<>>
      PROVE  Changes(q) = IF IsChange(Head(q)) THEN Changes(Tail(q)) \cup {ChangeOf(Head(q))}
                                               ELSE Changes(Tail(q))
  BY <1>1, <1>3, <1>4, <1>6
<1> QED BY <1>1, <1>5, <1>6

(* The number of a change is that of its message. *)
LEMMA ChangeNumbers ==
    ASSUME TypeOK, Numbered, NEW h \in Handlers
    PROVE  /\ \A d \in Changes(queue[h]) : d.number \in 1..sent
           /\ queue[h] # <<>> =>
                 \A d \in Changes(Tail(queue[h])) : Head(queue[h]).id < d.number
<1>1. queue[h] \in Seq(Message) /\ (queue[h] # <<>> => Tail(queue[h]) \in Seq(Message))
  BY DEF TypeOK
<1>2. \A r : Changes(r) = {ChangeOf(m) : m \in {x \in Msgs(r) : IsChange(x)}}
  BY DEF Changes, Msgs
<1>3. \A m : ChangeOf(m).number = m.id
  BY DEF ChangeOf
<1> QED BY <1>2, <1>3, MsgsNumbered

(* A request about an account is a change of the primary set; any other    *)
(* leaves it alone.                                                        *)
LEMMA RequestImplements ==
    ASSUME TypeOK, Numbered, DefaultsSafe, NEW fd \in Fds, RequestOutcome(fd)
    PROVE  [Replication!Next]_(Replication!vars)
<1>1. /\ \A h \in Handlers : queue[h] \in Seq(Message)
      /\ hdb' = hdb /\ alive' = alive /\ sent \in Nat
  BY ConstantsAssumption DEF TypeOK, RequestOutcome
<1>2. CASE AccountsKept /\ queue' = queue
  BY <1>1, <1>2 DEF AccountsKept, Replication!vars
<1>3. ASSUME NEW m, Passed(fd, m) PROVE [Replication!Next]_(Replication!vars)
  <2>1. m \in Message /\ m.id = sent + 1 /\ m.id \in 1..MaxRequests
    BY <1>3 DEF Passed, Message, Fields
  <2>2. CASE ~IsChange(m)
    <3>1. AccountsKept \/ config'.users = config.users
      BY <1>3, <2>2 DEF Passed, AccountChange, IsChange
    <3>2. \A h \in Handlers : queue'[h] = queue[h] \/ queue'[h] = Append(queue[h], m)
      BY <1>3 DEF Passed, FanOut, ToHandler, TypeOK
    <3>3. \A h \in Handlers : Changes(queue'[h]) = Changes(queue[h])
      BY <1>1, <2>1, <2>2, <3>2, ChangesOf
    <3> QED BY <1>1, <3>1, <3>3 DEF AccountsKept, Replication!vars
  <2>3. CASE IsChange(m)
    <3> DEFINE c == ChangeOf(m)
    <3>1. AccountChange(m) /\ FanOut(m)
      BY <1>3, <2>3 DEF Passed, IsChange, PortKinds
    <3>2. /\ m.kind = "add_user" => /\ m.user \in Users \ config.users
                                    /\ config'.users = config.users \cup {m.user}
          /\ m.kind = "del_user" => /\ m.user \in config.users \ {Admin}
                                    /\ config'.users = config.users \ {m.user}
      BY <3>1 DEF AccountChange
    <3>3. config.users \subseteq Users /\ Admin \in config.users
      BY DEF TypeOK, RoleTables, DefaultsSafe, DefaultAccountKept
    <3>4. c.number = m.id /\ c.kind = m.kind /\ c.user = m.user
      BY DEF ChangeOf
    <3>5. c \in Replication!Change
      BY <2>1, <2>3, <3>2, <3>3 DEF Replication!Change, ChangeOf, IsChange
    <3>6. /\ m.user # Admin
          /\ config'.users = Replication!After(config.users, c)
          /\ config'.users # config.users
      BY <2>3, <3>2, <3>3, <3>4 DEF Replication!After, IsChange
    <3>7. \A h \in Handlers : \A d \in Changes(queue[h]) : d.number < c.number
      BY <1>1, <2>1, <3>4, ChangeNumbers
    <3>8. \A h \in Handlers : Changes(queue'[h]) = Changes(queue[h]) \cup {c}
      BY <1>1, <2>1, <2>3, <3>1, ChangesOf DEF FanOut
    <3> HIDE DEF c
    <3>9. Replication!Write(c)
      BY <1>1, <3>4, <3>6, <3>7, <3>8 DEF Replication!Write
    <3> QED BY <3>5, <3>9 DEF Replication!Next
  <2> QED BY <2>2, <2>3
<1> QED BY <1>2, <1>3 DEF RequestOutcome, Answered, Unanswered

(* A handler that serves an account makes the oldest change it is behind,  *)
(* one that dies stops, and any other message leaves its accounts alone.   *)
LEMMA HandlerImplements ==
    ASSUME TypeOK, Numbered, Consistent, NEW k \in Handlers, HandlerStep(k)
    PROVE  [Replication!Next]_(Replication!vars)
<1> DEFINE q == queue[k]
           m == Head(q)
           c == ChangeOf(m)
<1>1. /\ q # <<>> /\ q \in Seq(Message) /\ hdb[k] \in Tables
      /\ alive[k] /\ config' = config
      /\ queue' = [queue EXCEPT ![k] = Tail(@)]
  BY DEF HandlerStep, HandlerServes, HandlerCrashes, TypeOK
<1>2. /\ m \in Message /\ Tail(q) \in Seq(Message)
      /\ Changes(q) = IF IsChange(m) THEN Changes(Tail(q)) \cup {c} ELSE Changes(Tail(q))
  BY <1>1, ChangesOf, TailAt
<1>3. \A d \in Changes(Tail(q)) : m.id < d.number
  BY <1>1, ChangeNumbers
<1>4. /\ Changes(queue'[k]) = Changes(Tail(q))
      /\ \A h \in Handlers \ {k} : queue'[h] = queue[h]
  BY <1>1 DEF TypeOK
<1>5. CASE HandlerCrashes(k)
  <2>1. hdb' = hdb /\ alive' = [alive EXCEPT ![k] = FALSE] /\ ~IsChange(m)
    BY <1>5 DEF HandlerCrashes, IsChange
  <2>2. \A h \in Handlers : Changes(queue'[h]) = Changes(queue[h])
    BY <1>2, <1>4, <2>1
  <2>3. Replication!Stop(k)
    BY <1>1, <2>1, <2>2 DEF Replication!Stop
  <2> QED BY <2>3 DEF Replication!Next
<1>6. CASE HandlerServes(k)
  <2> DEFINE db1 == IF Succeeds(hdb[k], m) THEN Effect(hdb[k], m) ELSE hdb[k]
  <2>1. /\ hdb' = [hdb EXCEPT ![k] = db1] /\ alive' = alive /\ m.kind # "set_baud_rate"
    BY <1>6 DEF HandlerServes
  <2>2. /\ m.kind = "add_user" => m.user \notin hdb[k].users /\ m.group \in hdb[k].groups
        /\ m.kind \in NeedsUser => m.user \in hdb[k].users
    BY <1>1, HeadFits DEF Consistent
  <2>3. hdb'[k] = db1 /\ \A h \in Handlers \ {k} : hdb'[h] = hdb[h]
    BY <2>1 DEF TypeOK
  <2> HIDE DEF m, q
  <2>4. Served(m, hdb[k], db1)
    BY <1>1, <1>2, <2>1, <2>2, ServesWell DEF NeedsUser
  <2> HIDE DEF db1
  <2>5. CASE ~IsChange(m)
    <3>1. db1.users = hdb[k].users
      BY <2>4, <2>5 DEF Served, IsChange
    <3>2. \A h \in Handlers : Changes(queue'[h]) = Changes(queue[h])
      BY <1>2, <1>4, <2>5 DEF q
    <3>3. \A h \in Handlers : hdb'[h].users = hdb[h].users
      BY <2>3, <3>1
    <3> QED BY <1>1, <2>1, <3>2, <3>3 DEF Replication!vars
  <2>6. CASE IsChange(m)
    <3>1. c.number = m.id /\ c.kind = m.kind /\ c.user = m.user
      BY DEF ChangeOf
    <3>2. /\ db1.users = Replication!After(hdb[k].users, c)
          /\ Replication!After(hdb[k].users, c) # hdb[k].users
      BY <2>2, <2>4, <2>6, <3>1 DEF Served, IsChange, NeedsUser, Replication!After
    <3> HIDE DEF c
    <3>3. /\ c \in Changes(queue[k])
          /\ Changes(queue'[k]) = Changes(queue[k]) \ {c}
          /\ \A d \in Changes(queue[k]) \ {c} : c.number < d.number
      <4>1. c \notin Changes(Tail(q))
        BY <1>2, <1>3, <3>1, ConstantsAssumption DEF Message, Fields
      <4> QED BY <1>2, <1>3, <1>4, <2>6, <3>1, <4>1 DEF q
    <3>4. Replication!Deliver(k)
      <4> DEFINE backup == [h \in Handlers |-> hdb[h].users]
                 lag == [h \in Handlers |-> Changes(queue[h])]
      <4>1. /\ backup[k] = hdb[k].users /\ lag[k] = Changes(queue[k])
            /\ \A S : [backup EXCEPT ![k] = S] = [h \in Handlers |-> IF h = k THEN S ELSE hdb[h].users]
            /\ \A S : [lag EXCEPT ![k] = S] = [h \in Handlers |-> IF h = k THEN S ELSE Changes(queue[h])]
        OBVIOUS
      <4>2. [h \in Handlers |-> hdb'[h].users]
               = [backup EXCEPT ![k] = Replication!After(backup[k], c)]
        BY <2>3, <3>2, <4>1
      <4>3. [h \in Handlers |-> Changes(queue'[h])] = [lag EXCEPT ![k] = lag[k] \ {c}]
        BY <1>4, <3>3, <4>1
      <4> QED BY <1>1, <2>1, <3>2, <3>3, <4>1, <4>2, <4>3 DEF Replication!Deliver
    <3> QED BY <3>4 DEF Replication!Next
  <2> QED BY <2>5, <2>6
<1> QED BY <1>5, <1>6 DEF HandlerStep

(* The server and its handlers implement AccountReplication: every account *)
(* request the server takes reaches every handler once and in its order,   *)
(* and none refuses it (ImplementsReplication).                            *)
THEOREM Implements == Spec => ImplementsReplication
<1>1. Init => Replication!Init
  <2> SUFFICES ASSUME Init PROVE Replication!Init
    OBVIOUS
  <2>1. config.users = {Admin} /\ \A h \in Handlers : hdb[h].users = {Admin}
    BY DEF Init, WithRoles, InitialTable
  <2>2. \A h \in Handlers : Changes(queue[h]) = {}
    BY DEF Init, Changes
  <2>3. alive = [h \in Handlers |-> TRUE]
    BY DEF Init
  <2> QED BY <2>1, <2>2, <2>3 DEF Replication!Init
<1>2. TypeOK /\ Numbered /\ Consistent /\ DefaultsSafe /\ [Next]_vars
         => [Replication!Next]_(Replication!vars)
  <2> SUFFICES ASSUME TypeOK, Numbered, Consistent, DefaultsSafe, [Next]_vars
               PROVE  [Replication!Next]_(Replication!vars)
    OBVIOUS
  <2>1. CASE \E fd \in Fds : ClientRequest(fd)
    BY <2>1, ClientRequestOutcome, RequestImplements
  <2>2. CASE \E h \in Handlers : HandlerStep(h)
    BY <2>2, HandlerImplements
  <2>3. CASE \E h \in Handlers : HandlerStops(h)
    <3>1. PICK h \in Handlers : HandlerStops(h)
      BY <2>3
    <3>2. Replication!Stop(h)
      BY <3>1 DEF HandlerStops, Replication!Stop
    <3> QED BY <3>2 DEF Replication!Next
  <2>4. CASE UNCHANGED <<config, hdb, queue, alive>>
    BY <2>4 DEF Replication!vars
  <2>5. (\E fd \in Fds : Connection(fd)) \/ (\E h \in Handlers : ServerTakesReply(h))
           \/ UNCHANGED vars => UNCHANGED <<config, hdb, queue, alive>>
    BY DEF Connection, Accept, PeerClose, CloseClient, ServerTakesReply, ReplyIgnored,
           ReplyRaises, ReplyRecorded, ReplyCompletes, TakeReply, vars
  <2> QED BY <2>1, <2>2, <2>3, <2>4, <2>5 DEF Next
<1> QED
  BY <1>1, <1>2, DefaultsInit, DefaultsStep, NumberedInit, NumberedStep, ConsistentInit, ConsistentStep,
     TypeCorrect, PTL DEF Spec, ImplementsReplication, Replication!Spec

=============================================================================
