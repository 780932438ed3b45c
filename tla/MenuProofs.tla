------------------------------ MODULE MenuProofs ------------------------------
(***************************************************************************)
(* Proofs about the menus at the top: the line is what has been typed and  *)
(* not erased, and the keys are handled in the order they were typed.      *)
(***************************************************************************)
EXTENDS MenuProperties, FiniteSetTheorems, TLAPS

Typable == Printing \cup {"back"}

-----------------------------------------------------------------------------
(***************************************************************************)
(* p tells the keys of the text among the keys that were typed: they are   *)
(* the ones that are not erased, and behind the n-th of them there are as  *)
(* many more keys than backspaces as the text has keys behind it.          *)
(***************************************************************************)
Behind(keys, i, set) == CountOf(keys, i + 1, Len(keys), set)

IsEdit(text, keys, p) ==
    /\ \A m, n \in 1..Len(text) : m < n => p[m] < p[n]
    /\ \A n \in 1..Len(text) :
          /\ text[n] = keys[p[n]] /\ keys[p[n]] \in Printing
          /\ ~IsErased(keys, p[n])
          /\ Behind(keys, p[n], Printing) = Behind(keys, p[n], {"back"}) + (Len(text) - n)
    /\ \A i \in 1..Len(keys) : keys[i] \in Printing =>
          IsErased(keys, i) \/ \E n \in 1..Len(text) : i = p[n]

HasEdit(text, keys) == \E p \in [1..Len(text) -> 1..Len(keys)] : IsEdit(text, keys, p)

(* The line is an edit of what was entered, and so is the last one.        *)
LineIsEdit ==
    /\ over = "runs" => HasEdit(line, entered)
    /\ over = "exit" => \E text \in Seq(Printing) :
          Stripped(text) = <<"Q">> /\ HasEdit(text, entered)

(* A visit has never read more than it can take, and has drawn the menu    *)
(* before it reads.                                                        *)
ChunkFits == Len(chunk) <= ChunkSize /\ (chunk # <<>> => login)

IInv == TypeOK /\ ChunkFits /\ LineIsEdit

-----------------------------------------------------------------------------
(* Counting keys. *)

LEMMA CountType ==
    ASSUME NEW keys, NEW from \in Nat, NEW to \in Nat, NEW set
    PROVE  /\ IsFiniteSet({i \in from..to : keys[i] \in set})
           /\ CountOf(keys, from, to, set) \in Nat
           /\ from > to => CountOf(keys, from, to, set) = 0
<1>1. IsFiniteSet(from..to)
  BY FS_Interval
<1>2. IsFiniteSet({i \in from..to : keys[i] \in set})
  BY <1>1, FS_Subset
<1>3. from > to => {i \in from..to : keys[i] \in set} = {}
  OBVIOUS
<1> QED BY <1>2, <1>3, FS_CardinalityType, FS_EmptySet DEF CountOf

(* One key more at the end is not counted before the end. *)
LEMMA CountBefore ==
    ASSUME NEW keys \in Seq(Typable), NEW e \in Typable, NEW set,
           NEW from \in 1..(Len(keys) + 1), NEW to \in 0..Len(keys)
    PROVE  CountOf(Append(keys, e), from, to, set) = CountOf(keys, from, to, set)
<1>1. \A i \in 1..Len(keys) : Append(keys, e)[i] = keys[i]
  OBVIOUS
<1>2. Len(keys) \in Nat
  OBVIOUS
<1>3. {i \in from..to : Append(keys, e)[i] \in set} = {i \in from..to : keys[i] \in set}
  <2>1. \A i \in from..to : i \in 1..Len(keys)
    BY <1>2
  <2> QED BY <1>1, <2>1
<1> QED BY <1>3 DEF CountOf

(* At the end it is counted once. *)
LEMMA CountAppend ==
    ASSUME NEW keys \in Seq(Typable), NEW e \in Typable, NEW set,
           NEW from \in 1..(Len(keys) + 1)
    PROVE  CountOf(Append(keys, e), from, Len(keys) + 1, set) =
              CountOf(keys, from, Len(keys), set) + (IF e \in set THEN 1 ELSE 0)
<1> DEFINE longer == Append(keys, e)
<1>1. /\ Len(keys) \in Nat /\ longer[Len(keys) + 1] = e
      /\ \A i \in 1..Len(keys) : longer[i] = keys[i]
  OBVIOUS
<1> HIDE DEF longer
<1>2. {i \in from..(Len(keys) + 1) : longer[i] \in set} =
         {i \in from..Len(keys) : keys[i] \in set}
            \cup (IF e \in set THEN {Len(keys) + 1} ELSE {})
  BY <1>1
<1>3. /\ Len(keys) + 1 \notin {i \in from..Len(keys) : keys[i] \in set}
      /\ IsFiniteSet({i \in from..Len(keys) : keys[i] \in set})
      /\ CountOf(keys, from, Len(keys), set) \in Nat
  <2>1. from \in Nat /\ Len(keys) \in Nat
    BY <1>1
  <2>2. Len(keys) + 1 \notin from..Len(keys)
    BY <2>1
  <2>3. /\ IsFiniteSet({i \in from..Len(keys) : keys[i] \in set})
        /\ CountOf(keys, from, Len(keys), set) \in Nat
    BY <2>1, CountType, Zenon
  <2> QED BY <2>2, <2>3
<1>4. CASE e \in set
  BY <1>2, <1>3, <1>4, FS_AddElement DEF CountOf, longer
<1>5. CASE e \notin set
  <2>1. CountOf(longer, from, Len(keys) + 1, set) = CountOf(keys, from, Len(keys), set)
    BY <1>2, <1>5 DEF CountOf
  <2> QED BY <1>3, <1>5, <2>1 DEF longer
<1> QED BY <1>4, <1>5

(* What is erased stays erased; what is not is erased by a backspace that  *)
(* has as many keys as backspaces before it.                               *)
LEMMA ErasedAppend ==
    ASSUME NEW keys \in Seq(Typable), NEW e \in Typable
    PROVE  /\ \A i \in 1..Len(keys) :
                 IsErased(Append(keys, e), i) <=>
                    \/ IsErased(keys, i)
                    \/ Behind(Append(keys, e), i, {"back"}) > Behind(Append(keys, e), i, Printing)
           /\ ~IsErased(Append(keys, e), Len(keys) + 1)
           /\ \A i \in 1..Len(keys) :
                 /\ Behind(Append(keys, e), i, Printing) =
                       Behind(keys, i, Printing) + (IF e \in Printing THEN 1 ELSE 0)
                 /\ Behind(Append(keys, e), i, {"back"}) =
                       Behind(keys, i, {"back"}) + (IF e = "back" THEN 1 ELSE 0)
                 /\ Behind(keys, i, Printing) \in Nat /\ Behind(keys, i, {"back"}) \in Nat
<1> DEFINE longer == Append(keys, e)
<1>1. Len(keys) \in Nat /\ Len(longer) = Len(keys) + 1
  OBVIOUS
<1>2. \A i \in 1..Len(keys) : i + 1 \in 1..(Len(keys) + 1) /\ i + 1 \in Nat
  BY <1>1
<1>3. ASSUME NEW i \in 1..Len(keys)
      PROVE  /\ \A to \in 0..Len(keys) :
                   /\ CountOf(longer, i + 1, to, Printing) = CountOf(keys, i + 1, to, Printing)
                   /\ CountOf(longer, i + 1, to, {"back"}) = CountOf(keys, i + 1, to, {"back"})
             /\ CountOf(longer, i + 1, Len(keys) + 1, Printing) =
                   CountOf(keys, i + 1, Len(keys), Printing) + (IF e \in Printing THEN 1 ELSE 0)
             /\ CountOf(longer, i + 1, Len(keys) + 1, {"back"}) =
                   CountOf(keys, i + 1, Len(keys), {"back"}) + (IF e = "back" THEN 1 ELSE 0)
  <2>1. PICK from \in 1..(Len(keys) + 1) : from = i + 1
    BY <1>2
  <2>2. ASSUME NEW set
        PROVE  /\ \A to \in 0..Len(keys) :
                     CountOf(longer, from, to, set) = CountOf(keys, from, to, set)
               /\ CountOf(longer, from, Len(keys) + 1, set) =
                     CountOf(keys, from, Len(keys), set) + (IF e \in set THEN 1 ELSE 0)
    <3>1. \A to \in 0..Len(keys) :
             CountOf(longer, from, to, set) = CountOf(keys, from, to, set)
      BY CountBefore
    <3>2. CountOf(longer, from, Len(keys) + 1, set) =
             CountOf(keys, from, Len(keys), set) + (IF e \in set THEN 1 ELSE 0)
      BY CountAppend
    <3> QED BY <3>1, <3>2
  <2>3. e \in {"back"} <=> e = "back"
    OBVIOUS
  <2> QED BY <2>1, <2>2, <2>3, Zenon
<1> HIDE DEF longer
<1>4. ~IsErased(longer, Len(keys) + 1)
  <2>1. ((Len(keys) + 1) + 1)..Len(longer) = {}
    BY <1>1
  <2> QED BY <2>1 DEF IsErased
<1>5. ASSUME NEW i \in 1..Len(keys)
      PROVE  IsErased(longer, i) <=>
                IsErased(keys, i) \/ Behind(longer, i, {"back"}) > Behind(longer, i, Printing)
  <2>1. (i + 1)..Len(longer) = ((i + 1)..Len(keys)) \cup {Len(keys) + 1}
    BY <1>1
  <2>2. (i + 1)..Len(keys) \subseteq 0..Len(keys)
    BY <1>1
  <2> QED BY <1>1, <1>3, <2>1, <2>2 DEF IsErased, Behind
<1>6. ASSUME NEW i \in 1..Len(keys)
      PROVE  /\ Behind(longer, i, Printing) =
                   Behind(keys, i, Printing) + (IF e \in Printing THEN 1 ELSE 0)
             /\ Behind(longer, i, {"back"}) =
                   Behind(keys, i, {"back"}) + (IF e = "back" THEN 1 ELSE 0)
             /\ Behind(keys, i, Printing) \in Nat /\ Behind(keys, i, {"back"}) \in Nat
  BY <1>1, <1>2, <1>3, CountType DEF Behind
<1> QED BY <1>4, <1>5, <1>6 DEF longer
-----------------------------------------------------------------------------
(* What a key does to the keys that are not erased. *)

(* Nothing typed is an empty line. *)
LEMMA EditEmpty == HasEdit(<<>>, <<>>)
<1>1. 1..Len(<<>>) = {}
  OBVIOUS
<1> DEFINE p == [n \in 1..Len(<<>>) |-> 1]
<1>2. p \in [1..Len(<<>>) -> 1..Len(<<>>)]
  BY <1>1
<1>3. IsEdit(<<>>, <<>>, p)
  BY <1>1 DEF IsEdit
<1> QED BY <1>2, <1>3 DEF HasEdit

(* A printing key is behind all that is not erased, and erases nothing. *)
LEMMA EditPrint ==
    ASSUME NEW keys \in Seq(Typable), NEW text \in Seq(Printing), NEW e \in Printing,
           HasEdit(text, keys)
    PROVE  HasEdit(Append(text, e), Append(keys, e))
<1> DEFINE longer == Append(keys, e)
           last == Len(keys) + 1
           size == Len(text)
<1>1. PICK p \in [1..size -> 1..Len(keys)] : IsEdit(text, keys, p)
  BY DEF HasEdit
<1>2. e \in Typable /\ e # "back"
  BY DEF Typable, Printing
<1>3. /\ Len(keys) \in Nat /\ size \in Nat /\ Len(longer) = last
      /\ longer[last] = e /\ \A i \in 1..Len(keys) : longer[i] = keys[i]
      /\ Len(Append(text, e)) = size + 1 /\ Append(text, e)[size + 1] = e
      /\ \A n \in 1..size : Append(text, e)[n] = text[n]
  BY <1>2
<1> DEFINE q == [n \in 1..(size + 1) |-> IF n = size + 1 THEN last ELSE p[n]]
<1>4. /\ q \in [1..(size + 1) -> 1..last] /\ q[size + 1] = last
      /\ \A n \in 1..size : q[n] = p[n] /\ p[n] \in 1..Len(keys)
  <2> HIDE DEF longer, last, size
  <2>1. /\ size + 1 \in 1..(size + 1) /\ last \in 1..last
        /\ 1..Len(keys) \subseteq 1..last
        /\ \A n \in 1..size : n \in 1..(size + 1) /\ n # size + 1
        /\ \A n \in 1..(size + 1) : n = size + 1 \/ n \in 1..size
    BY <1>3 DEF last
  <2>2. \A n \in 1..size : p[n] \in 1..Len(keys)
    OBVIOUS
  <2> QED BY <2>1, <2>2
<1>5. /\ ~IsErased(longer, last)
      /\ \A i \in 1..Len(keys) :
            /\ IsErased(longer, i) <=>
                  IsErased(keys, i) \/ Behind(longer, i, {"back"}) > Behind(longer, i, Printing)
            /\ Behind(longer, i, Printing) = Behind(keys, i, Printing) + 1
            /\ Behind(longer, i, {"back"}) = Behind(keys, i, {"back"})
            /\ Behind(keys, i, Printing) \in Nat /\ Behind(keys, i, {"back"}) \in Nat
  BY <1>2, ErasedAppend
<1>6. Behind(longer, last, Printing) = 0 /\ Behind(longer, last, {"back"}) = 0
  <2>1. last + 1 \in Nat /\ last \in Nat /\ last + 1 > last
    BY <1>3
  <2> QED BY <1>3, <2>1, CountType DEF Behind
<1> HIDE DEF longer, last, q
<1>7. \A m, n \in 1..(size + 1) : m < n => q[m] < q[n]
  <2> SUFFICES ASSUME NEW m \in 1..(size + 1), NEW n \in 1..(size + 1), m < n
               PROVE  q[m] < q[n]
    OBVIOUS
  <2>1. m \in 1..size
    BY <1>3
  <2>2. CASE n = size + 1
    BY <1>3, <1>4, <2>1, <2>2 DEF last
  <2>3. CASE n \in 1..size
    BY <1>1, <1>4, <2>1, <2>3 DEF IsEdit
  <2> QED BY <1>3, <2>2, <2>3
<1>8. ASSUME NEW n \in 1..size
      PROVE  /\ text[n] = longer[p[n]] /\ longer[p[n]] \in Printing
             /\ ~IsErased(longer, p[n])
             /\ Behind(longer, p[n], Printing) =
                   Behind(longer, p[n], {"back"}) + ((size + 1) - n)
  <2>1. /\ p[n] \in 1..Len(keys)
        /\ text[n] = keys[p[n]] /\ keys[p[n]] \in Printing
        /\ ~IsErased(keys, p[n])
        /\ Behind(keys, p[n], Printing) = Behind(keys, p[n], {"back"}) + (size - n)
    BY <1>1, <1>4 DEF IsEdit
  <2>2. Behind(longer, p[n], Printing) = Behind(longer, p[n], {"back"}) + ((size + 1) - n)
    BY <1>3, <1>5, <2>1
  <2>3. ~(Behind(longer, p[n], {"back"}) > Behind(longer, p[n], Printing))
    BY <1>3, <1>5, <2>1, <2>2
  <2> QED BY <1>3, <1>5, <2>1, <2>2, <2>3
<1>9. ASSUME NEW n \in 1..(size + 1)
      PROVE  /\ Append(text, e)[n] = longer[q[n]] /\ longer[q[n]] \in Printing
             /\ ~IsErased(longer, q[n])
             /\ Behind(longer, q[n], Printing) =
                   Behind(longer, q[n], {"back"}) + ((size + 1) - n)
  <2>1. CASE n = size + 1
    BY <1>3, <1>4, <1>5, <1>6, <2>1
  <2>2. CASE n \in 1..size
    BY <1>3, <1>4, <1>8, <2>2
  <2> QED BY <1>3, <2>1, <2>2
<1>10. ASSUME NEW i \in 1..last, longer[i] \in Printing
       PROVE  IsErased(longer, i) \/ \E n \in 1..(size + 1) : i = q[n]
  <2>1. CASE i = last
    <3>1. size + 1 \in 1..(size + 1)
      BY <1>3
    <3> QED BY <1>4, <2>1, <3>1
  <2>2. CASE i \in 1..Len(keys)
    <3>1. IsErased(keys, i) \/ \E n \in 1..size : i = p[n]
      BY <1>1, <1>3, <1>10, <2>2 DEF IsEdit
    <3>2. 1..size \subseteq 1..(size + 1)
      BY <1>3
    <3> QED BY <1>4, <1>5, <2>2, <3>1, <3>2
  <2>3. 1..last = 1..Len(keys) \cup {last}
    BY <1>3 DEF last
  <2> QED BY <1>10, <2>1, <2>2, <2>3
<1>11. IsEdit(Append(text, e), longer, q)
  BY <1>3, <1>7, <1>9, <1>10 DEF IsEdit
<1> QED BY <1>3, <1>4, <1>11 DEF HasEdit, longer

(* A backspace erases the last key that is not erased, if there is one. *)
LEMMA EditBack ==
    ASSUME NEW keys \in Seq(Typable), NEW text \in Seq(Printing), HasEdit(text, keys)
    PROVE  HasEdit(IF text = <<>> THEN text ELSE SubSeq(text, 1, Len(text) - 1),
                   Append(keys, "back"))
<1> DEFINE longer == Append(keys, "back")
           last == Len(keys) + 1
           size == Len(text)
           left == IF size = 0 THEN 0 ELSE size - 1
           front == IF text = <<>> THEN text ELSE SubSeq(text, 1, Len(text) - 1)
<1>1. PICK p \in [1..size -> 1..Len(keys)] : IsEdit(text, keys, p)
  BY DEF HasEdit
<1>2. "back" \in Typable /\ "back" \notin Printing
  BY DEF Typable, Printing
<1>3. /\ Len(keys) \in Nat /\ size \in Nat /\ Len(longer) = last
      /\ longer[last] = "back" /\ \A i \in 1..Len(keys) : longer[i] = keys[i]
      /\ left \in Nat /\ left <= size /\ size <= left + 1
  BY <1>2
<1>4. /\ Len(front) = left
      /\ \A n \in 1..left : front[n] = text[n]
  <2>1. text = <<>> <=> size = 0
    BY <1>3
  <2> QED BY <1>3, <2>1
<1> DEFINE q == [n \in 1..left |-> p[n]]
<1>5. /\ q \in [1..left -> 1..last]
      /\ \A n \in 1..left : q[n] = p[n] /\ p[n] \in 1..Len(keys) /\ n \in 1..size
  <2> HIDE DEF left, size, last
  <2>1. \A n \in 1..left : n \in 1..size /\ p[n] \in 1..Len(keys)
    BY <1>3
  <2>2. 1..Len(keys) \subseteq 1..last
    BY <1>3 DEF last
  <2> QED BY <2>1, <2>2
<1>6. \A i \in 1..Len(keys) :
         /\ IsErased(longer, i) <=>
               IsErased(keys, i) \/ Behind(longer, i, {"back"}) > Behind(longer, i, Printing)
         /\ Behind(longer, i, Printing) = Behind(keys, i, Printing)
         /\ Behind(longer, i, {"back"}) = Behind(keys, i, {"back"}) + 1
         /\ Behind(keys, i, Printing) \in Nat /\ Behind(keys, i, {"back"}) \in Nat
  BY <1>2, ErasedAppend
<1> HIDE DEF longer, last, q, front, left
<1>7. \A m, n \in 1..left : m < n => q[m] < q[n]
  BY <1>1, <1>5 DEF IsEdit
<1>8. ASSUME NEW n \in 1..size
      PROVE  /\ p[n] \in 1..Len(keys)
             /\ text[n] = longer[p[n]] /\ longer[p[n]] \in Printing
             /\ IsErased(longer, p[n]) <=> n = size
             /\ Behind(longer, p[n], Printing) =
                   Behind(longer, p[n], {"back"}) + ((size - 1) - n)
  <2>1. /\ p[n] \in 1..Len(keys)
        /\ text[n] = keys[p[n]] /\ keys[p[n]] \in Printing
        /\ ~IsErased(keys, p[n])
        /\ Behind(keys, p[n], Printing) = Behind(keys, p[n], {"back"}) + (size - n)
    BY <1>1 DEF IsEdit
  <2>2. Behind(longer, p[n], Printing) = Behind(longer, p[n], {"back"}) + ((size - 1) - n)
    BY <1>3, <1>6, <2>1
  <2>3. Behind(longer, p[n], {"back"}) > Behind(longer, p[n], Printing) <=> n = size
    BY <1>3, <1>6, <2>1, <2>2
  <2> QED BY <1>3, <1>6, <2>1, <2>2, <2>3
<1>9. ASSUME NEW n \in 1..left
      PROVE  /\ front[n] = longer[q[n]] /\ longer[q[n]] \in Printing
             /\ ~IsErased(longer, q[n])
             /\ Behind(longer, q[n], Printing) =
                   Behind(longer, q[n], {"back"}) + (left - n)
  <2>1. left = size - 1 /\ n \in 1..size /\ n # size
    BY <1>3, <1>5 DEF left
  <2> QED BY <1>4, <1>5, <1>8, <2>1
<1>10. ASSUME NEW i \in 1..last, longer[i] \in Printing
       PROVE  IsErased(longer, i) \/ \E n \in 1..left : i = q[n]
  <2>1. i \in 1..Len(keys)
    BY <1>2, <1>3, <1>10 DEF last
  <2>2. CASE IsErased(keys, i)
    BY <1>6, <2>1, <2>2
  <2>3. CASE ~IsErased(keys, i)
    <3>1. PICK n \in 1..size : i = p[n]
      BY <1>1, <1>3, <1>10, <2>1, <2>3 DEF IsEdit
    <3>2. CASE n = size
      BY <1>8, <3>1, <3>2
    <3>3. CASE n # size
      <4>1. n \in 1..left
        BY <1>3, <3>3
      <4> QED BY <1>5, <3>1, <4>1
    <3> QED BY <3>2, <3>3
  <2> QED BY <2>2, <2>3
<1>11. IsEdit(front, longer, q)
  BY <1>3, <1>4, <1>7, <1>9, <1>10 DEF IsEdit
<1>12. q \in [1..Len(front) -> 1..Len(longer)]
  BY <1>3, <1>4, <1>5
<1>13. HasEdit(front, longer)
  BY <1>11, <1>12 DEF HasEdit
<1> QED BY <1>13 DEF front, longer

(* The line of LineIsWhatWasTyped is made of the keys that p tells: p      *)
(* counts the places that are not erased.                                  *)
LEMMA EditIs ==
    ASSUME NEW keys \in Seq(Typable), NEW text \in Seq(Printing), HasEdit(text, keys)
    PROVE  text = Edited(keys)
<1> DEFINE size == Len(text)
           places == Places(keys)
           upTo(i) == {k \in places : k <= i}
<1>1. PICK p \in [1..size -> 1..Len(keys)] : IsEdit(text, keys, p)
  BY DEF HasEdit
<1>2. /\ Len(keys) \in Nat /\ size \in Nat /\ DOMAIN keys = 1..Len(keys)
      /\ text = [n \in 1..size |-> text[n]]
  OBVIOUS
<1>3. /\ \A n \in 1..size : p[n] \in places /\ p[n] \in Nat
      /\ \A i \in places : \E n \in 1..size : i = p[n]
  BY <1>1, <1>2 DEF IsEdit, Places
<1>4. \A m, n \in 1..size : p[m] <= p[n] <=> m <= n
  <2> SUFFICES ASSUME NEW m \in 1..size, NEW n \in 1..size
               PROVE  p[m] <= p[n] <=> m <= n
    OBVIOUS
  <2>1. (m < n => p[m] < p[n]) /\ (n < m => p[n] < p[m]) /\ (m = n => p[m] = p[n])
    BY <1>1 DEF IsEdit
  <2>2. m \in Nat /\ n \in Nat /\ p[m] \in Nat /\ p[n] \in Nat
    BY <1>2, <1>3
  <2> QED BY <2>1, <2>2
<1>5. ASSUME NEW n \in 0..size
      PROVE  /\ n \in Nat
             /\ ExistsBijection(1..n, {p[m] : m \in 1..n})
  <2> DEFINE f == [m \in 1..n |-> p[m]]
             image == {p[m] : m \in 1..n}
  <2>1. n \in Nat /\ 1..n \subseteq 1..size
    BY <1>2
  <2>2. f \in [1..n -> image] /\ \A m \in 1..n : f[m] = p[m]
    OBVIOUS
  <2>3. \A m, o \in 1..n : f[m] = f[o] => m = o
    <3> SUFFICES ASSUME NEW m \in 1..n, NEW o \in 1..n, p[m] = p[o]
                 PROVE  m = o
      BY <2>2
    <3>1. p[m] <= p[o] /\ p[o] <= p[m]
      BY <1>3, <2>1
    <3>2. m <= o /\ o <= m
      BY <1>4, <2>1, <3>1
    <3> QED BY <2>1, <3>2
  <2>4. \A i \in image : \E m \in 1..n : f[m] = i
    BY <2>2
  <2> HIDE DEF f, image
  <2>5. f \in Bijection(1..n, image)
    BY <2>2, <2>3, <2>4 DEF Bijection, Injection, Surjection, IsInjective
  <2> QED BY <2>1, <2>5 DEF ExistsBijection, image
<1>6. Cardinality(places) = size
  <2>1. places = {p[m] : m \in 1..size}
    BY <1>3
  <2>2. size \in 0..size
    BY <1>2
  <2> QED BY <1>2, <1>5, <2>1, <2>2, FS_CountingElements
<1>7. ASSUME NEW n \in 1..size
      PROVE  Cardinality(upTo(p[n])) = n
  <2>1. n \in 0..size /\ 1..n \subseteq 1..size
    BY <1>2
  <2>2. upTo(p[n]) = {p[m] : m \in 1..n}
    <3>1. \A m \in 1..size : p[m] <= p[n] <=> m \in 1..n
      BY <1>2, <1>4
    <3> QED BY <1>3, <2>1, <3>1
  <2> QED BY <1>5, <2>1, <2>2, FS_CountingElements
<1>8. ASSUME NEW n \in 1..size
      PROVE  (CHOOSE i \in places : Cardinality(upTo(i)) = n) = p[n]
  <2>1. p[n] \in places /\ Cardinality(upTo(p[n])) = n
    BY <1>3, <1>7
  <2>2. ASSUME NEW i \in places, Cardinality(upTo(i)) = n
        PROVE  i = p[n]
    <3>1. PICK m \in 1..size : i = p[m]
      BY <1>3
    <3>2. m = n
      BY <1>7, <2>2, <3>1
    <3> QED BY <3>1, <3>2
  <2> QED BY <2>1, <2>2
<1>9. Edited(keys) = [n \in 1..size |-> text[n]]
  <2>1. \A n \in 1..size : keys[p[n]] = text[n]
    BY <1>1 DEF IsEdit
  <2>2. \A n \in 1..size : keys[CHOOSE i \in places : Cardinality(upTo(i)) = n] = text[n]
    BY <1>8, <2>1
  <2> QED BY <1>6, <2>2 DEF Edited
<1> QED BY <1>2, <1>9

-----------------------------------------------------------------------------
(* The steps. *)

(* A visit handles the keys of its chunk from the first to the last.       *)
LEMMA ChunkShrinks ==
    ASSUME TypeOK, chunk # <<>>
    PROVE  /\ Tail(chunk) \in Seq(Keys)
           /\ Head(chunk) \in Keys
           /\ Len(Tail(chunk)) <= Len(chunk)
           /\ Len(Tail(chunk)) \in Nat /\ Len(chunk) \in Nat
  BY DEF TypeOK

(* A chunk is the beginning of what has come, the rest of it stays.        *)
LEMMA ChunkIsRead ==
    ASSUME TypeOK
    PROVE  /\ Chunk \in Seq(Keys)
           /\ SubSeq(channel, Len(Chunk) + 1, Len(channel)) \in Seq(Keys)
           /\ Len(Chunk) <= ChunkSize
           /\ Chunk \o SubSeq(channel, Len(Chunk) + 1, Len(channel)) = channel
<1>1. channel \in Seq(Keys) /\ Len(channel) \in Nat /\ ChunkSize \in Nat
  BY MenuAssumption DEF TypeOK
<1>2. Chunk \in Seq(Keys)
  BY <1>1 DEF Chunk
<1>3. Len(Chunk) + 1 \in 1..(Len(Chunk) + 1) /\ Len(Chunk) \in Nat
  BY <1>2
<1>4. /\ Chunk = SubSeq(channel, 1, Len(Chunk))
      /\ Len(Chunk) <= ChunkSize /\ Len(Chunk) <= Len(channel)
  BY <1>1 DEF Chunk
<1>5. ASSUME NEW n \in 0..Len(channel)
      PROVE  SubSeq(channel, 1, n) \o SubSeq(channel, n + 1, Len(channel)) = channel
  <2> DEFINE front == SubSeq(channel, 1, n)
             rest == SubSeq(channel, n + 1, Len(channel))
  <2>1. /\ front \in Seq(Keys) /\ Len(front) = n
        /\ \A i \in 1..n : front[i] = channel[i]
    BY <1>1
  <2>2. /\ rest \in Seq(Keys) /\ Len(rest) = Len(channel) - n
        /\ \A i \in 1..(Len(channel) - n) : rest[i] = channel[n + i]
    BY <1>1
  <2> HIDE DEF front, rest
  <2>3. front \o rest \in Seq(Keys) /\ Len(front \o rest) = Len(channel)
    BY <1>1, <2>1, <2>2
  <2>4. ASSUME NEW i \in 1..Len(channel)
        PROVE  (front \o rest)[i] = channel[i]
    <3>1. CASE i \in 1..n
      BY <1>1, <2>1, <2>2, <3>1
    <3>2. CASE i \notin 1..n
      <4>1. i - n \in 1..(Len(channel) - n) /\ n + (i - n) = i
        BY <1>1, <3>2
      <4>2. (front \o rest)[i] = rest[i - n]
        BY <1>1, <2>1, <2>2, <3>2, <4>1
      <4> QED BY <2>2, <4>1, <4>2
    <3> QED BY <3>1, <3>2
  <2>5. front \o rest = channel
    <3>1. ASSUME NEW s \in Seq(Keys)
          PROVE  s = [i \in 1..Len(s) |-> s[i]]
      OBVIOUS
    <3>2. /\ front \o rest = [i \in 1..Len(channel) |-> (front \o rest)[i]]
          /\ channel = [i \in 1..Len(channel) |-> channel[i]]
      BY <1>1, <2>3, <3>1, Zenon
    <3>3. [i \in 1..Len(channel) |-> (front \o rest)[i]] =
             [i \in 1..Len(channel) |-> channel[i]]
      BY <2>4
    <3> QED BY <3>2, <3>3, Zenon
  <2> QED BY <2>5 DEF front, rest
<1> HIDE DEF Chunk
<1>6. SubSeq(channel, Len(Chunk) + 1, Len(channel)) \in Seq(Keys)
  BY <1>1, <1>3
<1>7. Len(Chunk) \in 0..Len(channel)
  BY <1>1, <1>3, <1>4
<1> QED BY <1>2, <1>4, <1>5, <1>6, <1>7, Zenon

(* The first key that waits is the first of the chunk.                     *)
LEMMA FirstOfWaiting ==
    ASSUME NEW s \in Seq(Keys), NEW t \in Seq(Keys), s # <<>>
    PROVE  /\ s \o t # <<>>
           /\ Head(s \o t) = Head(s)
           /\ Tail(s \o t) = Tail(s) \o t
<1>1. Len(s) \in Nat /\ Len(t) \in Nat /\ Len(s) > 0
  OBVIOUS
<1>2. Len(s \o t) = Len(s) + Len(t) /\ (s \o t)[1] = s[1]
  BY <1>1
<1> QED BY <1>1, <1>2

(* What has not been read stands behind what has.                          *)
LEMMA RestIsLost ==
    ASSUME NEW s \in Seq(Keys), NEW t \in Seq(Keys), s # <<>>, Tail(s) # <<>>,
           Len(s) <= ChunkSize
    PROVE  \E lost \in 1..(ChunkSize - 1) : t = SubSeq(s \o t, lost + 2, Len(s \o t))
<1>1. Len(s) \in Nat /\ Len(t) \in Nat /\ Len(s) > 1 /\ ChunkSize \in Nat
  BY MenuAssumption
<1>2. s \o t \in Seq(Keys) /\ Len(s \o t) = Len(s) + Len(t)
  OBVIOUS
<1>3. Len(s) - 1 \in 1..(ChunkSize - 1) /\ (Len(s) - 1) + 2 = Len(s) + 1
  BY <1>1
<1>4. t = SubSeq(s \o t, Len(s) + 1, Len(s) + Len(t))
  OBVIOUS
<1> QED BY <1>2, <1>3, <1>4

(* What a line asks for is known by its text. *)
LEMMA DecisionOf ==
    ASSUME NEW text
    PROVE  /\ Decision(text) \in {"exit", "ports", "config", "same", "redraw"}
           /\ Decision(text) = "exit" => Stripped(text) = <<"Q">>
           /\ Decision(text) = "config" => admin
  BY DEF Decision

(* A key erased leaves a line. *)
LEMMA FrontType ==
    ASSUME TypeOK, line # <<>>
    PROVE  SubSeq(line, 1, Len(line) - 1) \in Seq(Printing)
<1>1. line \in Seq(Printing) /\ Len(line) - 1 \in Nat
  BY DEF TypeOK
<1> QED BY <1>1

(* Every variable keeps its type. *)
LEMMA TypeStep ==
    ASSUME TypeOK, [Next]_vars
    PROVE  TypeOK'
<1> USE DEF Below, Top
<1>1. CASE VisitTop
  BY <1>1, ChunkIsRead DEF TypeOK, VisitTop
<1>2. CASE EscapeKey
  BY <1>2, ChunkShrinks DEF TypeOK, EscapeKey, Handling
<1>3. CASE PrintingKey
  BY <1>3, ChunkShrinks DEF TypeOK, PrintingKey, Handling, Echoed
<1>4. CASE BackKey
  <2>1. line' \in Seq(Printing)
    BY <1>4, FrontType DEF TypeOK, BackKey, Erased, Echoed
  <2>2. over' \in {"runs", "exit", "raised"}
    BY <1>4 DEF TypeOK, BackKey, Erased, Echoed
  <2>3. chunk' \in Seq(Keys) /\ entered' \in Seq(Printing \cup {"back"})
    <3>1. "back" \in Printing \cup {"back"} /\ entered \in Seq(Printing \cup {"back"})
      BY DEF TypeOK
    <3> QED BY <1>4, <3>1, ChunkShrinks DEF BackKey, Handling
  <2> QED BY <1>4, <2>1, <2>2, <2>3 DEF TypeOK, BackKey
<1>5. CASE EnterKey
  <2>1. <<>> \in Seq(Printing) /\ <<>> \in Seq(Keys) /\ <<>> \in Seq(Printing \cup {"back"})
    OBVIOUS
  <2>2. chunk' \in Seq(Keys)
    BY <1>5, <2>1, ChunkShrinks DEF EnterKey, Handling, Kept
  <2>3. line' \in Seq(Printing) /\ entered' \in Seq(Printing \cup {"back"})
    BY <1>5, <2>1 DEF TypeOK, EnterKey
  <2>4. over' \in {"runs", "exit", "raised"} /\ login' \in BOOLEAN
    BY <1>5 DEF TypeOK, EnterKey, Handling, Echoed
  <2>5. menu' \in {"none", Top} \cup Below
    BY <1>5, DecisionOf DEF TypeOK, EnterKey
  <2>6. UNCHANGED <<admin, escape, channel, typed, gone, held>>
    BY <1>5 DEF EnterKey
  <2>7. menu' \in {"none", Top'} \cup Below'
    BY <2>5, <2>6
  <2> HIDE DEF Top, Below
  <2> QED BY <2>2, <2>3, <2>4, <2>6, <2>7 DEF TypeOK
<1>6. CASE VisitBelow \/ HoldUp
  <2>1. /\ UNCHANGED <<admin, menu, login, line, escape, channel, chunk, typed, gone, entered>>
        /\ over' \in {over, "raised"} /\ held' \in BOOLEAN
    BY <1>6 DEF TypeOK, VisitBelow, HoldUp
  <2> QED BY <2>1 DEF TypeOK
<1>7. ASSUME NEW key \in Keys, Type(key)
      PROVE  TypeOK'
  BY <1>7, MenuAssumption DEF TypeOK, Type
<1>8. CASE Leave
  BY <1>8 DEF TypeOK, Leave
<1>9. CASE UNCHANGED vars
  BY <1>9 DEF TypeOK, vars
<1> QED BY <1>1, <1>2, <1>3, <1>4, <1>5, <1>6, <1>7, <1>8, <1>9 DEF Next, AtTop

(* A visit reads no more than it can take, and handles keys only after the *)
(* menu has been drawn.                                                    *)
LEMMA FitStep ==
    ASSUME TypeOK, ChunkFits, [Next]_vars
    PROVE  ChunkFits'
<1> USE DEF ChunkFits
<1>1. CASE VisitTop
  BY <1>1, ChunkIsRead DEF VisitTop
<1>2. CASE EscapeKey \/ PrintingKey \/ BackKey
  <2>1. chunk # <<>> /\ chunk' = Tail(chunk) /\ login' = login
    BY <1>2 DEF EscapeKey, PrintingKey, BackKey, Handling
  <2> QED BY <2>1, ChunkShrinks, MenuAssumption
<1>3. CASE EnterKey
  <2>1. /\ chunk # <<>> /\ chunk' = Kept(Decision(line))
        /\ Decision(line) = "redraw" => login' = login
    BY <1>3, DecisionOf DEF EnterKey, Handling
  <2>2. CASE Decision(line) = "redraw"
    BY <2>1, <2>2, ChunkShrinks, MenuAssumption DEF Kept
  <2>3. CASE Decision(line) # "redraw"
    BY <2>1, <2>3, MenuAssumption DEF Kept
  <2> QED BY <2>2, <2>3
<1>4. CASE VisitBelow \/ Leave \/ HoldUp
  BY <1>4 DEF VisitBelow, Leave, HoldUp
<1>5. ASSUME NEW key \in Keys, Type(key)
      PROVE  ChunkFits'
  BY <1>5 DEF Type
<1>6. CASE UNCHANGED vars
  BY <1>6 DEF vars
<1> QED BY <1>1, <1>2, <1>3, <1>4, <1>5, <1>6 DEF Next, AtTop

(* A key changes the line and what was entered together. *)
LEMMA EditStep ==
    ASSUME TypeOK, LineIsEdit, [Next]_vars
    PROVE  LineIsEdit'
<1> USE DEF LineIsEdit
<1>0. /\ entered \in Seq(Typable) /\ line \in Seq(Printing)
      /\ over = "runs" => HasEdit(line, entered)
  BY DEF TypeOK, Typable
<1>1. CASE VisitTop
  BY <1>1 DEF VisitTop
<1>2. CASE EscapeKey
  BY <1>2 DEF EscapeKey
<1>3. CASE PrintingKey
  <2>1. /\ over = "runs" /\ over' \in {"runs", "raised"}
        /\ Head(chunk) \in Printing
        /\ line' = Append(line, Head(chunk)) /\ entered' = Append(entered, Head(chunk))
    BY <1>3 DEF PrintingKey, Handling, Echoed
  <2>2. HasEdit(Append(line, Head(chunk)), Append(entered, Head(chunk)))
    BY <1>0, <2>1, EditPrint
  <2>3. HasEdit(line', entered')
    BY <2>1, <2>2
  <2> QED BY <2>1, <2>3
<1>4. CASE BackKey
  <2>1. /\ over = "runs" /\ over' \in {"runs", "raised"}
        /\ line' = IF line = <<>> THEN line ELSE SubSeq(line, 1, Len(line) - 1)
        /\ entered' = Append(entered, "back")
    BY <1>4 DEF BackKey, Handling, Erased, Echoed
  <2>2. HasEdit(IF line = <<>> THEN line ELSE SubSeq(line, 1, Len(line) - 1),
                Append(entered, "back"))
    BY <1>0, <2>1, EditBack
  <2>3. HasEdit(line', entered')
    BY <2>1, <2>2
  <2> QED BY <2>1, <2>3
<1>5. CASE EnterKey
  <2>1. CASE Decision(line) = "exit"
    <3>1. Stripped(line) = <<"Q">> /\ over = "runs" /\ over' # "runs" /\ entered' = entered
      BY <1>5, <2>1, DecisionOf DEF EnterKey, Handling
    <3> QED BY <1>0, <3>1
  <2>2. CASE Decision(line) # "exit"
    <3>1. /\ over' = "runs" => line' = <<>> /\ entered' = <<>>
          /\ over' # "exit"
      BY <1>5, <2>2 DEF EnterKey, Handling, Echoed
    <3>2. over' = "runs" => HasEdit(line', entered')
      BY <3>1, EditEmpty
    <3> QED BY <3>1, <3>2
  <2> QED BY <2>1, <2>2
<1>6. CASE VisitBelow \/ HoldUp
  BY <1>6 DEF VisitBelow, HoldUp
<1>7. ASSUME NEW key \in Keys, Type(key)
      PROVE  LineIsEdit'
  BY <1>7 DEF Type
<1>8. CASE Leave
  BY <1>8 DEF Leave
<1>9. CASE UNCHANGED vars
  BY <1>9 DEF vars
<1> QED BY <1>1, <1>2, <1>3, <1>4, <1>5, <1>6, <1>7, <1>8, <1>9 DEF Next, AtTop

-----------------------------------------------------------------------------
(***************************************************************************)
(* The session keeps the invariant, over whatever keys come in whatever    *)
(* chunks.                                                                 *)
(***************************************************************************)
THEOREM MenuInvariant == Spec => []IInv
<1>1. Init => IInv
  <2> SUFFICES ASSUME Init PROVE IInv
    OBVIOUS
  <2>1. TypeOK
    <3>1. <<>> \in Seq(Printing) /\ <<>> \in Seq(Keys) /\ <<>> \in Seq(Printing \cup {"back"})
      OBVIOUS
    <3>2. menu \in {"none", Top} \cup Below
      BY DEF Init
    <3>3. typed \in 0..MaxTyped
      BY MenuAssumption DEF Init
    <3> QED BY <3>1, <3>2, <3>3 DEF Init, TypeOK
  <2>2. HasEdit(line, entered)
    BY EditEmpty DEF Init
  <2>3. ChunkFits
    BY MenuAssumption DEF Init, ChunkFits
  <2> QED BY <2>1, <2>2, <2>3 DEF Init, IInv, LineIsEdit
<1>2. IInv /\ [Next]_vars => IInv'
  BY TypeStep, FitStep, EditStep DEF IInv
<1> QED BY <1>1, <1>2, PTL DEF Spec

(* The line is what has been typed and not erased, and a session is left   *)
(* by a line with Q in it and nothing but white space behind that          *)
(* (_parse_system_control_ascii_value).                                    *)
THEOREM LineIsTyped == Spec => []LineIsWhatWasTyped
<1>1. IInv => LineIsWhatWasTyped
  <2> SUFFICES ASSUME IInv PROVE LineIsWhatWasTyped
    OBVIOUS
  <2>1. /\ TypeOK /\ entered \in Seq(Typable) /\ line \in Seq(Printing)
        /\ over = "runs" => HasEdit(line, entered)
        /\ over = "exit" => \E text \in Seq(Printing) :
              Stripped(text) = <<"Q">> /\ HasEdit(text, entered)
    BY DEF IInv, LineIsEdit, TypeOK, Typable
  <2>2. over = "runs" => line = Edited(entered)
    BY <2>1, EditIs
  <2>3. over = "exit" => Stripped(Edited(entered)) = <<"Q">>
    BY <2>1, EditIs
  <2> QED BY <2>1, <2>2, <2>3 DEF LineIsWhatWasTyped
<1> QED BY <1>1, MenuInvariant, PTL

(***************************************************************************)
(* Keys are handled in the order they were typed, and the Enter that       *)
(* leaves the menu loses only the rest of what its visit has read          *)
(* (run_system).                                                           *)
(***************************************************************************)
THEOREM KeysInOrder == Spec => KeysActInOrder
<1>1. ASSUME IInv, Next
      PROVE  KeyIsHandled
  <2> USE DEF KeyIsHandled
  <2>0. /\ TypeOK /\ Len(chunk) <= ChunkSize /\ (chunk # <<>> => login)
        /\ chunk \in Seq(Keys) /\ channel \in Seq(Keys)
    BY <1>1 DEF IInv, TypeOK, ChunkFits
  <2>1. CASE VisitTop
    <3>1. /\ chunk = <<>> /\ UNCHANGED <<line, entered>>
          /\ \/ UNCHANGED <<chunk, channel>>
             \/ /\ chunk' = Chunk
                /\ channel' = SubSeq(channel, Len(Chunk) + 1, Len(channel))
      BY <2>1 DEF VisitTop
    <3>2. <<>> \o channel = channel
      BY <2>0
    <3>3. Chunk \o SubSeq(channel, Len(Chunk) + 1, Len(channel)) = channel
      BY <2>0, ChunkIsRead
    <3>4. waiting' = waiting
      BY <3>1, <3>2, <3>3, Zenon DEF waiting
    <3> QED BY <3>1, <3>4
  <2>2. CASE EscapeKey \/ PrintingKey \/ BackKey
    <3>1. /\ chunk # <<>> /\ chunk' = Tail(chunk) /\ channel' = channel
          /\ ActsOnEntered(Head(chunk))
      BY <2>2 DEF EscapeKey, PrintingKey, BackKey, Handling, ActsOnEntered
    <3> QED BY <2>0, <3>1, FirstOfWaiting DEF waiting
  <2>3. CASE EnterKey
    <3>1. /\ chunk # <<>> /\ channel' = channel
          /\ Head(chunk) = "enter" /\ ~escape
          /\ chunk' = Kept(Decision(line))
      BY <2>3 DEF EnterKey, Handling
    <3>2. CASE chunk' = Tail(chunk)
      BY <2>0, <3>1, <3>2, FirstOfWaiting DEF waiting, ActsOnEntered
    <3>3. CASE chunk' # Tail(chunk)
      <4>1. Decision(line) # "redraw" /\ chunk' = <<>>
        BY <3>1, <3>3 DEF Kept
      <4>2. Leaves
        <5>1. CASE Decision(line) = "exit"
          BY <2>3, <5>1 DEF EnterKey, Handling, Leaves
        <5>2. CASE Decision(line) # "exit"
          BY <2>0, <2>3, <4>1, <5>2 DEF EnterKey, Handling, Leaves
        <5> QED BY <5>1, <5>2
      <4>3. PICK lost \in 1..(ChunkSize - 1) :
               channel = SubSeq(waiting, lost + 2, Len(waiting))
        BY <2>0, <3>1, <3>3, <4>1, RestIsLost DEF waiting
      <4>4. waiting' = channel
        BY <2>0, <3>1, <4>1 DEF waiting
      <4> QED BY <2>0, <3>1, <4>2, <4>3, <4>4, FirstOfWaiting DEF waiting
    <3> QED BY <3>2, <3>3
  <2>4. CASE VisitBelow \/ Leave \/ HoldUp
    BY <2>4 DEF VisitBelow, Leave, HoldUp, waiting
  <2>5. ASSUME NEW key \in Keys, Type(key)
        PROVE  KeyIsHandled
    <3>1. chunk \o Append(channel, key) = Append(chunk \o channel, key)
      BY <2>0
    <3> QED BY <2>5, <3>1 DEF Type, waiting
  <2> QED BY <1>1, <2>1, <2>2, <2>3, <2>4, <2>5 DEF Next, AtTop
<1>2. IInv /\ [Next]_vars => [KeyIsHandled]_vars
  BY <1>1
<1> QED BY <1>2, MenuInvariant, PTL DEF Spec, KeysActInOrder

=============================================================================
