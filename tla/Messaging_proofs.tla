-------------------------- MODULE Messaging_proofs --------------------------
(***************************************************************************)
(* Mailbox, for any set of mails: the linked list keeps the shape of a     *)
(* queue, no mail gets in behind the drain, what is drained stays whole,   *)
(* and the mailbox implements MailQueue.                                   *)
(*                                                                         *)
(* WaitGraph, for any set of goroutines: type correctness, the wait graph  *)
(* stays acyclic, and so no ring of checked calls ever forms.              *)
(***************************************************************************)
EXTENDS Mailbox, WaitGraph, QueueLemmas

USE MailboxAssumption

-----------------------------------------------------------------------------
InOrder(m) == \E i \in 1 .. Len(order) : order[i] = m

(* fate tells the mails of the list, and a mail that was never pushed is   *)
(* not linked to anything.                                                 *)
Accounted ==
  \A m \in Mail : /\ fate[m] = "queued" <=> InOrder(m)
                  /\ fate[m] = "fresh" => next[m] = Nil

(* The loop holds the mail it serves, and an exit mail while it stops.     *)
Holding ==
  /\ curMail # Nil <=> loop \in {"received", "refusing", "draining", "stopping"}
  /\ curMail # Nil => fate[curMail] = "served"
  /\ loop \in {"refusing", "draining", "stopping"} => curMail \in ExitMail

(* Once the exit mail has closed the mailbox it stays closed, once drained *)
(* it stays empty, and only the drain makes a mail drained.                *)
Closing ==
  /\ loop \in {"draining", "stopping", "exited"} => ~running
  /\ loop \in {"stopping", "exited"} => order = << >>
  /\ \A m \in Mail : fate[m] = "drained" => loop \in {"stopping", "exited"}

Inv == TypeOK /\ ListShape /\ Accounted /\ Holding /\ Closing /\ RemainIntact

-----------------------------------------------------------------------------
(* A traversal from head meets exactly the mails of the queue.             *)
LEMMA ListedIsOrder ==
  ASSUME TypeOK, ListShape
  PROVE  Listed = {order[i] : i \in 1 .. Len(order)}
<1> DEFINE n == Len(order)
           R == {order[i] : i \in 1 .. n}
<1>1. n \in Nat /\ \A i \in 1 .. n : order[i] \in Mail
  BY LenProperties DEF TypeOK
<1>2. ClosedFrom(head, R)
  <2>1. head # Nil => head \in R
    <3>1. CASE order = << >>
      BY <3>1 DEF ListShape
    <3>2. CASE order # << >>
      <4>1. 1 \in 1 .. n
        BY <1>1, <3>2, EmptySeq DEF TypeOK
      <4>2. QED
        BY <3>2, <4>1 DEF ListShape
    <3>3. QED
      BY <3>1, <3>2
  <2>2. ASSUME NEW x \in R, next[x] # Nil PROVE next[x] \in R
    <3>1. PICK i \in 1 .. n : x = order[i]
      OBVIOUS
    <3>2. i # n /\ next[x] = order[i + 1]
      BY <2>2, <3>1 DEF ListShape
    <3>3. i + 1 \in 1 .. n
      BY <1>1, <3>2
    <3>4. QED
      BY <3>2, <3>3
  <2>3. QED
    BY <2>1, <2>2 DEF ClosedFrom
<1>3. R \in SUBSET Mail
  BY <1>1
<1>4. Listed \subseteq R
  BY <1>2, <1>3 DEF Listed, From
<1>5. ASSUME NEW S \in SUBSET Mail, ClosedFrom(head, S),
             NEW k \in 1 .. n, order[k] \notin S
      PROVE  FALSE
  <2> DEFINE T == {i \in 1 .. n : order[i] \notin S}
  <2>1. T \in SUBSET Nat /\ T # {}
    BY <1>1, <1>5
  <2>2. PICK i \in T : \A j \in T : i <= j
    <3> HIDE DEF T
    <3>1. QED
      BY <2>1, LeastNatural
  <2>3. i \in 1 .. n /\ order[i] \notin S /\ order[i] \in Mail
    BY <1>1, <2>2
  <2>4. CASE i = 1
    <3>1. order # << >> /\ head = order[1]
      <4>1. order # << >>
        BY <1>1, <2>3 DEF TypeOK
      <4>2. QED
        BY <4>1 DEF ListShape
    <3>2. QED
      BY <1>5, <2>3, <2>4, <3>1 DEF ClosedFrom
  <2>5. CASE i # 1
    <3>1. i - 1 \in 1 .. n /\ i - 1 # n
      BY <1>1, <2>3, <2>5
    <3>2. order[i - 1] \in S
      BY <1>1, <2>2, <2>3, <3>1
    <3>3. next[order[i - 1]] = order[i]
      <4>1. (i - 1) + 1 = i
        BY <1>1, <2>3
      <4>2. QED
        BY <3>1, <4>1 DEF ListShape
    <3>4. QED
      BY <1>5, <2>3, <3>2, <3>3 DEF ClosedFrom
  <2>6. QED
    BY <2>4, <2>5
<1>6. R \subseteq Listed
  BY <1>1, <1>5 DEF Listed, From
<1>7. QED
  BY <1>4, <1>6

(* The mail the traversal leaves to reach the i-th one.                    *)
LEMMA BeforeInOrder ==
  ASSUME TypeOK, ListShape, NEW i \in 1 .. Len(order)
  PROVE  Before(order[i]) = IF i = 1 THEN Nil ELSE order[i - 1]
<1> DEFINE n == Len(order)
<1>1. n \in Nat /\ \A j \in 1 .. n : order[j] \in Mail
  BY LenProperties DEF TypeOK
<1>2. order # << >> /\ 1 \in 1 .. n
  BY <1>1 DEF TypeOK
<1>3. head = order[1]
  BY <1>2 DEF ListShape
<1>4. CASE i = 1
  BY <1>3, <1>4 DEF Before
<1>5. CASE i # 1
  <2>1. order[i] # head
    BY <1>2, <1>3, <1>5 DEF ListShape
  <2>2. i - 1 \in 1 .. n /\ i - 1 # n /\ (i - 1) + 1 = i
    BY <1>1, <1>5
  <2>3. order[i - 1] \in Listed /\ next[order[i - 1]] = order[i]
    BY <2>2, ListedIsOrder DEF ListShape
  <2>4. ASSUME NEW p \in Listed, next[p] = order[i] PROVE p = order[i - 1]
    <3>1. PICK j \in 1 .. n : p = order[j]
      BY ListedIsOrder
    <3>2. j # n
      BY <1>1, <2>4, <3>1 DEF ListShape
    <3>3. order[j + 1] = order[i] /\ j + 1 \in 1 .. n
      BY <1>1, <2>4, <3>1, <3>2 DEF ListShape
    <3>4. j + 1 = i
      BY <3>3 DEF ListShape
    <3>5. QED
      BY <1>1, <3>1, <3>4
  <2>5. QED
    BY <1>5, <2>1, <2>3, <2>4 DEF Before
<1>6. QED
  BY <1>4, <1>5

-----------------------------------------------------------------------------
(* What the four list operations leave in the mailbox.                     *)
ListType ==
  /\ head \in Ptr /\ tail \in Ptr
  /\ num \in Nat
  /\ next \in [Mail -> Ptr]
  /\ order \in Seq(Mail)

(* A push to the head keeps the shape and adds the mail.                 *)
LEMMA LinkFirstShape ==
  ASSUME TypeOK, ListShape, Accounted, NEW m \in Mail, fate[m] = "fresh",
         LinkFirst(m)
  PROVE  /\ ListType' /\ ListShape'
         /\ \A x \in Mail : InOrder(x)' <=> InOrder(x) \/ x = m
<1> DEFINE n == Len(order)
<1>1. n \in Nat /\ \A i \in 1 .. n : order[i] \in Mail /\ order[i] # m
  BY LenProperties DEF TypeOK, Accounted, InOrder
<1>2. /\ order' \in Seq(Mail) /\ Len(order') = n + 1
      /\ order'[1] = m
      /\ \A i \in 1 .. n : order'[i + 1] = order[i]
  <2>1. <<m>> \in Seq(Mail) /\ Len(<<m>>) = 1 /\ <<m>>[1] = m
    OBVIOUS
  <2>2. /\ order' \in Seq(Mail) /\ Len(order') = 1 + n
        /\ \A i \in 1 .. 1 + n :
             order'[i] = IF i <= 1 THEN <<m>>[i] ELSE order[i - 1]
    BY <2>1, ConcatProperties DEF LinkFirst, TypeOK
  <2>3. \A i \in 1 .. n :
          i + 1 \in 1 .. 1 + n /\ ~(i + 1 <= 1) /\ (i + 1) - 1 = i
    BY <1>1
  <2>4. QED
    BY <1>1, <2>1, <2>2, <2>3
<1>3. order' # << >>
  BY <1>1, <1>2
<1>4. head = Nil <=> n = 0
  BY <1>1, EmptySeq DEF ListShape, TypeOK
<1>5. ListType'
  <2>1. head' \in Ptr /\ tail' \in Ptr /\ num' \in Nat
    BY DEF LinkFirst, TypeOK, Ptr
  <2>2. next' \in [Mail -> Ptr]
    BY DEF LinkFirst, TypeOK, Ptr
  <2>3. QED
    BY <1>2, <2>1, <2>2 DEF ListType
<1>6. ASSUME NEW i \in 1 .. n + 1
      PROVE  i # 1 => i - 1 \in 1 .. n /\ order'[i] = order[i - 1]
  <2>1. i # 1 => i - 1 \in 1 .. n /\ (i - 1) + 1 = i
    BY <1>1
  <2>2. QED
    BY <1>2, <2>1
<1>7. ListShape'
  <2>1. num' = Len(order')
    BY <1>2 DEF LinkFirst, ListShape
  <2>2. \A i, j \in 1 .. n + 1 : i # j => order'[i] # order'[j]
    <3>1. ASSUME NEW i \in 1 .. n + 1, NEW j \in 1 .. n + 1, i # j
          PROVE  order'[i] # order'[j]
      <4>1. CASE i = 1
        BY <1>1, <1>2, <1>6, <3>1, <4>1
      <4>2. CASE j = 1
        BY <1>1, <1>2, <1>6, <3>1, <4>2
      <4>3. CASE i # 1 /\ j # 1
        <5>1. i - 1 \in 1 .. n /\ j - 1 \in 1 .. n /\ i - 1 # j - 1
          BY <1>6, <3>1, <4>3
        <5>2. QED
          BY <1>6, <4>3, <5>1 DEF ListShape
      <4>4. QED
        BY <4>1, <4>2, <4>3
    <3>2. QED
      BY <3>1
  <2>3. head' = order'[1]
    BY <1>2 DEF LinkFirst
  <2>4. tail' = order'[n + 1]
    <3>1. CASE n = 0
      BY <1>2, <1>4, <3>1 DEF LinkFirst
    <3>2. CASE n # 0
      <4>1. n \in 1 .. n /\ order # << >>
        BY <1>1, <3>2
      <4>2. QED
        BY <1>2, <1>4, <3>2, <4>1 DEF LinkFirst, ListShape
    <3>3. QED
      BY <3>1, <3>2
  <2>5. ASSUME NEW i \in 1 .. n + 1
        PROVE  next'[order'[i]] = IF i = n + 1 THEN Nil ELSE order'[i + 1]
    <3>1. CASE i = 1
      <4>1. CASE n = 0
        BY <1>2, <1>4, <3>1, <4>1 DEF LinkFirst, Accounted
      <4>2. CASE n # 0
        <5>1. 1 \in 1 .. n /\ order # << >>
          BY <1>1, <4>2
        <5>2. next'[m] = head /\ head = order[1] /\ order'[2] = order[1]
          <6>1. order'[1 + 1] = order[1]
            BY <1>2, <5>1
          <6>2. QED
            BY <1>4, <4>2, <5>1, <6>1 DEF LinkFirst, ListShape, TypeOK
        <5>3. QED
          BY <1>1, <1>2, <3>1, <4>2, <5>2
      <4>3. QED
        BY <4>1, <4>2
    <3>2. CASE i # 1
      <4>1. i - 1 \in 1 .. n /\ order'[i] = order[i - 1] /\ n # 0
        BY <1>1, <1>6, <3>2
      <4>2. next'[order'[i]] = next[order[i - 1]]
        BY <1>1, <1>4, <4>1 DEF LinkFirst, TypeOK
      <4>3. next[order[i - 1]] = IF i - 1 = n THEN Nil ELSE order[(i - 1) + 1]
        BY <4>1 DEF ListShape
      <4>4. i - 1 = n <=> i = n + 1
        BY <1>1
      <4>5. i # n + 1 => i \in 1 .. n /\ (i - 1) + 1 = i
        BY <1>1
      <4>6. QED
        BY <1>2, <4>2, <4>3, <4>4, <4>5
    <3>3. QED
      BY <3>1, <3>2
  <2>6. QED
    BY <1>2, <1>3, <2>1, <2>2, <2>3, <2>4, <2>5 DEF ListShape
<1>8. ASSUME NEW x \in Mail
      PROVE  InOrder(x)' <=> InOrder(x) \/ x = m
  <2>1. InOrder(x)' => InOrder(x) \/ x = m
    BY <1>2, <1>6 DEF InOrder
  <2>2. InOrder(x) => InOrder(x)'
    <3>1. \A i \in 1 .. n : i + 1 \in 1 .. n + 1
      BY <1>1
    <3>2. QED
      BY <1>2, <3>1 DEF InOrder
  <2>3. x = m => InOrder(x)'
    <3>1. 1 \in 1 .. n + 1
      BY <1>1
    <3>2. QED
      BY <1>2, <3>1 DEF InOrder
  <2>4. QED
    BY <2>1, <2>2, <2>3
<1>9. QED
  BY <1>5, <1>7, <1>8

(* A push to the tail keeps the shape and adds the mail.                 *)
LEMMA LinkLastShape ==
  ASSUME TypeOK, ListShape, Accounted, NEW m \in Mail, fate[m] = "fresh",
         LinkLast(m)
  PROVE  /\ ListType' /\ ListShape'
         /\ \A x \in Mail : InOrder(x)' <=> InOrder(x) \/ x = m
<1> DEFINE n == Len(order)
<1>1. n \in Nat /\ \A i \in 1 .. n : order[i] \in Mail /\ order[i] # m
  BY LenProperties DEF TypeOK, Accounted, InOrder
<1>2. /\ order' \in Seq(Mail) /\ Len(order') = n + 1 /\ order' # << >>
      /\ order'[n + 1] = m
      /\ \A i \in 1 .. n : order'[i] = order[i]
  BY AppendProperties DEF LinkLast, TypeOK
<1>3. head = Nil <=> n = 0
  BY <1>1, EmptySeq DEF ListShape, TypeOK
<1>4. n # 0 => /\ n \in 1 .. n /\ 1 \in 1 .. n /\ order # << >>
               /\ head = order[1] /\ tail = order[n]
  BY <1>1 DEF ListShape
<1>5. ListType'
  <2>1. head' \in Ptr /\ tail' \in Ptr /\ num' \in Nat
    BY DEF LinkLast, TypeOK, Ptr
  <2>2. next' \in [Mail -> Ptr]
    BY DEF LinkLast, TypeOK, Ptr
  <2>3. QED
    BY <1>2, <2>1, <2>2 DEF ListType
<1>6. \A i \in 1 .. n + 1 : i # n + 1 => i \in 1 .. n
  BY <1>1
<1>7. ListShape'
  <2>1. num' = Len(order')
    BY <1>2 DEF LinkLast, ListShape
  <2>2. ASSUME NEW i \in 1 .. n + 1, NEW j \in 1 .. n + 1, i # j
        PROVE  order'[i] # order'[j]
    <3>1. CASE i = n + 1
      BY <1>1, <1>2, <1>6, <2>2, <3>1
    <3>2. CASE j = n + 1
      BY <1>1, <1>2, <1>6, <2>2, <3>2
    <3>3. CASE i # n + 1 /\ j # n + 1
      BY <1>2, <1>6, <2>2, <3>3 DEF ListShape
    <3>4. QED
      BY <3>1, <3>2, <3>3
  <2>3. head' = order'[1]
    <3>1. CASE n = 0
      BY <1>2, <1>3, <3>1 DEF LinkLast
    <3>2. CASE n # 0
      BY <1>2, <1>3, <1>4, <3>2 DEF LinkLast
    <3>3. QED
      BY <3>1, <3>2
  <2>4. tail' = order'[n + 1]
    BY <1>2 DEF LinkLast
  <2>5. ASSUME NEW i \in 1 .. n + 1
        PROVE  next'[order'[i]] = IF i = n + 1 THEN Nil ELSE order'[i + 1]
    <3>1. next[m] = Nil
      BY DEF Accounted
    <3>2. CASE i = n + 1
      <4>1. tail # m
        BY <1>1, <1>4, EmptySeq DEF ListShape, TypeOK
      <4>2. next'[m] = Nil
        BY <3>1, <4>1 DEF LinkLast, TypeOK
      <4>3. QED
        BY <1>2, <3>2, <4>2
    <3>3. CASE i = n /\ n # 0
      <4>1. next'[tail] = m
        BY <1>1, <1>3, <1>4, <3>3 DEF LinkLast, TypeOK
      <4>2. QED
        BY <1>1, <1>2, <1>4, <3>3, <4>1
    <3>4. CASE i # n + 1 /\ i # n
      <4>1. i \in 1 .. n /\ i + 1 \in 1 .. n /\ n # 0
        BY <1>1, <3>4
      <4>2. order[i] # tail
        BY <1>4, <3>4, <4>1 DEF ListShape
      <4>3. next'[order[i]] = next[order[i]]
        BY <1>1, <4>1, <4>2 DEF LinkLast, TypeOK
      <4>4. next[order[i]] = order[i + 1]
        BY <3>4, <4>1 DEF ListShape
      <4>5. QED
        BY <1>2, <3>4, <4>1, <4>3, <4>4
    <3>5. QED
      BY <1>1, <3>2, <3>3, <3>4
  <2>6. QED
    BY <1>2, <2>1, <2>2, <2>3, <2>4, <2>5 DEF ListShape
<1>8. ASSUME NEW x \in Mail
      PROVE  InOrder(x)' <=> InOrder(x) \/ x = m
  <2>1. InOrder(x)' => InOrder(x) \/ x = m
    BY <1>2, <1>6 DEF InOrder
  <2>2. \A i \in 1 .. n : i \in 1 .. n + 1
    BY <1>1
  <2>3. n + 1 \in 1 .. n + 1
    BY <1>1
  <2>4. QED
    BY <1>2, <2>1, <2>2, <2>3 DEF InOrder
<1>9. QED
  BY <1>5, <1>7, <1>8

(* waitPop takes the first mail and keeps the shape.                     *)
LEMMA PopShape ==
  ASSUME TypeOK, ListShape, waitPop
  PROVE  /\ ListType' /\ ListShape'
         /\ order # << >> /\ head = order[1] /\ head \in Mail
         /\ next' = [next EXCEPT ![head] = Nil]
         /\ \A x \in Mail : InOrder(x)' <=> InOrder(x) /\ x # head
<1> DEFINE n == Len(order)
<1>1. n \in Nat /\ \A i \in 1 .. n : order[i] \in Mail
  BY LenProperties DEF TypeOK
<1>2. n # 0 /\ order # << >> /\ 1 \in 1 .. n /\ n \in 1 .. n
  BY <1>1 DEF waitPop, ListShape
<1>3. head = order[1] /\ tail = order[n] /\ head \in Mail /\ head # Nil
  BY <1>1, <1>2 DEF ListShape
<1>4. /\ order' \in Seq(Mail) /\ Len(order') = n - 1
      /\ \A i \in 1 .. n - 1 : order'[i] = order[i + 1]
  BY <1>2, HeadTailProperties DEF waitPop, TypeOK
<1>5. head = tail <=> n = 1
  BY <1>2, <1>3 DEF ListShape
<1>6. next' = [next EXCEPT ![head] = Nil]
  BY <1>3 DEF waitPop
<1>7. \A i \in 1 .. n - 1 : i + 1 \in 1 .. n /\ i + 1 # 1 /\ i \in 1 .. n
  BY <1>1
<1>8. \A i \in 1 .. n : i # 1 => i - 1 \in 1 .. n - 1 /\ (i - 1) + 1 = i
  BY <1>1
<1>9. ListShape'
  <2>1. num' = n - 1 /\ num' = Len(order')
    BY <1>4 DEF waitPop, ListShape
  <2>2. ASSUME NEW i \in 1 .. n - 1, NEW j \in 1 .. n - 1, i # j
        PROVE  order'[i] # order'[j]
    <3>1. i + 1 # j + 1
      BY <1>1, <2>2
    <3>2. QED
      BY <1>4, <1>7, <3>1 DEF ListShape
  <2>3. CASE n = 1
    <3>1. order' = << >> /\ head' = Nil /\ tail' = Nil
      BY <1>4, <1>5, <2>3, EmptySeq DEF waitPop
    <3>2. 1 .. Len(order') = {}
      BY <1>4, <2>3
    <3>3. QED
      BY <2>1, <3>1, <3>2 DEF ListShape
  <2>4. CASE n # 1
    <3>1. /\ 1 \in 1 .. n - 1 /\ n - 1 \in 1 .. n - 1 /\ order' # << >>
          /\ 1 + 1 = 2 /\ (n - 1) + 1 = n
      BY <1>1, <1>2, <1>4, <2>4
    <3>2. head' = order'[1]
      <4>1. next[order[1]] = order[1 + 1]
        BY <1>2, <2>4 DEF ListShape
      <4>2. order'[1] = order[1 + 1]
        BY <1>4, <3>1
      <4>3. QED
        BY <1>3, <1>5, <2>4, <4>1, <4>2 DEF waitPop
    <3>3. tail' = order'[n - 1]
      BY <1>3, <1>4, <1>5, <2>4, <3>1 DEF waitPop
    <3>4. ASSUME NEW i \in 1 .. n - 1
          PROVE  next'[order'[i]] = IF i = n - 1 THEN Nil ELSE order'[i + 1]
      <4>1. i + 1 \in 1 .. n /\ order[i + 1] # order[1] /\ order[i + 1] \in Mail
        BY <1>1, <1>2, <1>7 DEF ListShape
      <4>2. next'[order'[i]] = next[order[i + 1]]
        BY <1>3, <1>4, <1>6, <4>1 DEF TypeOK
      <4>3. next[order[i + 1]] =
              IF i + 1 = n THEN Nil ELSE order[(i + 1) + 1]
        BY <4>1 DEF ListShape
      <4>4. i + 1 = n <=> i = n - 1
        BY <1>1
      <4>5. i # n - 1 => i + 1 \in 1 .. n - 1
        BY <1>1
      <4>6. QED
        BY <1>4, <4>2, <4>3, <4>4, <4>5
    <3>5. QED
      BY <1>4, <2>1, <2>2, <3>1, <3>2, <3>3, <3>4 DEF ListShape
  <2>5. QED
    BY <2>3, <2>4
<1>10. ListType'
  <2>1. head' \in Ptr /\ tail' \in Ptr
    BY <1>3 DEF waitPop, TypeOK, Ptr
  <2>2. num' \in Nat
    BY <1>1, <1>2 DEF waitPop, ListShape
  <2>3. next' \in [Mail -> Ptr]
    BY <1>6 DEF TypeOK, Ptr
  <2>4. QED
    BY <1>4, <2>1, <2>2, <2>3 DEF ListType
<1>11. ASSUME NEW x \in Mail
       PROVE  InOrder(x)' <=> InOrder(x) /\ x # head
  <2>1. InOrder(x)' => InOrder(x) /\ x # head
    BY <1>2, <1>3, <1>4, <1>7 DEF InOrder, ListShape
  <2>2. ASSUME InOrder(x), x # head PROVE InOrder(x)'
    <3>1. PICK i \in 1 .. n : order[i] = x
      BY <2>2 DEF InOrder
    <3>2. i # 1
      BY <1>3, <2>2, <3>1
    <3>3. order'[i - 1] = x /\ i - 1 \in 1 .. n - 1
      BY <1>4, <1>8, <3>1, <3>2
    <3>4. QED
      BY <1>4, <3>3 DEF InOrder
  <2>3. QED
    BY <2>1, <2>2
<1>12. QED
  BY <1>2, <1>3, <1>6, <1>9, <1>10, <1>11

(* Unlinking at any place keeps the shape and takes out one mail.        *)
LEMMA UnlinkShape ==
  ASSUME TypeOK, ListShape, NEW m \in Mail, Unlink(m)
  PROVE  /\ ListType' /\ ListShape'
         /\ InOrder(m) /\ next'[m] = Nil
         /\ \E i \in 1 .. Len(order) :
              order[i] = m /\ order' = RemoveAt(order, i)
         /\ \A x \in Mail : InOrder(x)' <=> InOrder(x) /\ x # m
         /\ \A x \in Mail : ~InOrder(x) => next'[x] = next[x]
<1> DEFINE n == Len(order)
<1>1. n \in Nat /\ \A j \in 1 .. n : order[j] \in Mail
  BY LenProperties DEF TypeOK
<1>2. PICK i \in 1 .. n : order[i] = m /\ order' = RemoveAt(order, i)
  BY DEF Unlink
<1>3. /\ order' \in Seq(Mail) /\ Len(order') = n - 1
      /\ \A j \in 1 .. n - 1 :
           order'[j] = IF j < i THEN order[j] ELSE order[j + 1]
  BY <1>2, RemoveAtProperties DEF TypeOK
<1>4. /\ order # << >> /\ 1 \in 1 .. n /\ n \in 1 .. n
      /\ head = order[1] /\ tail = order[n]
  <2>1. order # << >> /\ 1 \in 1 .. n /\ n \in 1 .. n
    BY <1>1, <1>2
  <2>2. QED
    BY <2>1 DEF ListShape
<1>5. Before(m) = IF i = 1 THEN Nil ELSE order[i - 1]
  BY <1>2, BeforeInOrder
<1>6. i # 1 => /\ i - 1 \in 1 .. n /\ i - 1 \in 1 .. n - 1 /\ i - 1 # i
               /\ order[i - 1] \in Mail /\ order[i - 1] # m
               /\ Before(m) = order[i - 1] /\ Before(m) # Nil
  <2>1. i # 1 => i - 1 \in 1 .. n /\ i - 1 \in 1 .. n - 1 /\ i - 1 # i
    BY <1>1
  <2>2. QED
    BY <1>1, <1>2, <1>5, <2>1 DEF ListShape
<1>7. next[m] = IF i = n THEN Nil ELSE order[i + 1]
  BY <1>2 DEF ListShape
<1>8. next' \in [Mail -> Ptr]
  BY <1>6 DEF Unlink, TypeOK, Ptr
<1>9. next'[m] = Nil
  BY <1>6 DEF Unlink, TypeOK
<1>10. ASSUME NEW x \in Mail, x # m, i # 1 => x # order[i - 1]
       PROVE  next'[x] = next[x]
  BY <1>5, <1>6, <1>10 DEF Unlink, TypeOK
<1>11. i # 1 => next'[order[i - 1]] = next[m]
  BY <1>6 DEF Unlink, TypeOK
<1>12. \A j \in 1 .. n - 1 : j \in 1 .. n /\ j + 1 \in 1 .. n /\ j # n
  BY <1>1
<1>13. ListShape'
  <2>1. num' = Len(order')
    BY <1>3 DEF Unlink, ListShape
  <2>2. ASSUME NEW j \in 1 .. n - 1, NEW k \in 1 .. n - 1, j < k
        PROVE  order'[j] # order'[k]
    <3>1. j # k /\ j # k + 1 /\ j + 1 # k + 1
      BY <1>1, <2>2
    <3>2. /\ j \in 1 .. n /\ j + 1 \in 1 .. n
          /\ k \in 1 .. n /\ k + 1 \in 1 .. n
      BY <1>12
    <3>3. /\ order[j] # order[k] /\ order[j] # order[k + 1]
          /\ order[j + 1] # order[k + 1]
      BY <3>1, <3>2 DEF ListShape
    <3>4. CASE k < i
      <4>1. j < i
        BY <1>1, <2>2, <3>4
      <4>2. QED
        BY <1>3, <3>3, <3>4, <4>1
    <3>5. CASE ~ (k < i)
      BY <1>3, <3>3, <3>5
    <3>6. QED
      BY <3>4, <3>5
  <2>3. \A j, k \in 1 .. n - 1 : j # k => order'[j] # order'[k]
    <3>1. \A j, k \in 1 .. n - 1 : j # k => j < k \/ k < j
      BY <1>1
    <3>2. QED
      BY <2>2, <3>1
  <2>4. CASE n = 1
    <3>1. i = 1
      BY <1>1, <2>4
    <3>2. order' = << >> /\ 1 .. Len(order') = {}
      BY <1>3, <2>4, EmptySeq
    <3>3. head' = Nil /\ tail' = Nil
      BY <1>2, <1>4, <1>5, <1>7, <2>4, <3>1 DEF Unlink
    <3>4. QED
      BY <2>1, <3>2, <3>3 DEF ListShape
  <2>5. CASE n # 1
    <3>1. 1 \in 1 .. n - 1 /\ n - 1 \in 1 .. n - 1 /\ order' # << >>
      BY <1>1, <1>3, <1>4, <2>5
    <3>2. head' = order'[1]
      <4>1. CASE i = 1
        <5>1. order'[1] = order[1 + 1] /\ next[m] = order[1 + 1]
          BY <1>3, <1>7, <2>5, <3>1, <4>1
        <5>2. QED
          BY <1>5, <4>1, <5>1 DEF Unlink
      <4>2. CASE i # 1
        <5>1. 1 < i
          BY <1>1, <4>2
        <5>2. order'[1] = order[1]
          BY <1>3, <3>1, <5>1
        <5>3. QED
          BY <1>4, <1>6, <4>2, <5>2 DEF Unlink
      <4>3. QED
        BY <4>1, <4>2
    <3>3. tail' = order'[n - 1]
      <4>1. CASE i = n
        <5>1. n - 1 < i /\ i # 1
          BY <1>1, <2>5, <4>1
        <5>2. order'[n - 1] = order[n - 1]
          BY <1>3, <3>1, <5>1
        <5>3. QED
          BY <1>2, <1>4, <1>6, <4>1, <5>1, <5>2 DEF Unlink
      <4>2. CASE i # n
        <5>1. ~ (n - 1 < i) /\ (n - 1) + 1 = n
          BY <1>1, <4>2
        <5>2. order'[n - 1] = order[n]
          BY <1>3, <3>1, <5>1
        <5>3. m # tail
          BY <1>2, <1>4, <4>2 DEF ListShape
        <5>4. QED
          BY <1>4, <5>2, <5>3 DEF Unlink
      <4>3. QED
        BY <4>1, <4>2
    <3>4. ASSUME NEW j \in 1 .. n - 1
          PROVE  next'[order'[j]] = IF j = n - 1 THEN Nil ELSE order'[j + 1]
      <4>1. CASE j < i - 1
        <5>1. /\ j < i /\ j + 1 < i /\ j # n - 1 /\ j + 1 \in 1 .. n - 1
              /\ j # i /\ j # i - 1
          BY <1>1, <4>1
        <5>2. order'[j] = order[j] /\ order'[j + 1] = order[j + 1]
          BY <1>3, <5>1
        <5>3. next'[order[j]] = next[order[j]]
          <6>1. order[j] # m /\ order[j] \in Mail
            BY <1>1, <1>2, <1>12, <5>1 DEF ListShape
          <6>2. i # 1 => order[j] # order[i - 1]
            BY <1>6, <1>12, <5>1 DEF ListShape
          <6>3. QED
            BY <1>10, <6>1, <6>2
        <5>4. next[order[j]] = order[j + 1]
          BY <1>12 DEF ListShape
        <5>5. QED
          BY <5>1, <5>2, <5>3, <5>4
      <4>2. CASE j = i - 1
        <5>1. j < i /\ i # 1 /\ ~ (j + 1 < i) /\ (j + 1) = i
          BY <1>1, <4>2
        <5>2. order'[j] = order[i - 1]
          BY <1>3, <4>2, <5>1
        <5>3. j = n - 1 <=> i = n
          BY <1>1, <4>2
        <5>4. j # n - 1 => j + 1 \in 1 .. n - 1
          BY <1>1
        <5>5. j # n - 1 => order'[j + 1] = order[i + 1]
          BY <1>3, <5>1, <5>4
        <5>6. QED
          BY <1>7, <1>11, <5>1, <5>2, <5>3, <5>5
      <4>3. CASE j >= i
        <5>1. /\ ~ (j < i) /\ ~ (j + 1 < i) /\ j + 1 # i /\ j + 1 # i - 1
              /\ (j # n - 1 => j + 1 \in 1 .. n - 1)
              /\ (j + 1 = n <=> j = n - 1)
          BY <1>1, <4>3
        <5>2. order'[j] = order[j + 1]
          BY <1>3, <5>1
        <5>3. next'[order[j + 1]] = next[order[j + 1]]
          <6>1. order[j + 1] # m /\ order[j + 1] \in Mail
            BY <1>1, <1>2, <1>12, <5>1 DEF ListShape
          <6>2. i # 1 => order[j + 1] # order[i - 1]
            BY <1>6, <1>12, <5>1 DEF ListShape
          <6>3. QED
            BY <1>10, <6>1, <6>2
        <5>4. next[order[j + 1]] =
                IF j + 1 = n THEN Nil ELSE order[(j + 1) + 1]
          BY <1>12 DEF ListShape
        <5>5. j # n - 1 => order'[j + 1] = order[(j + 1) + 1]
          BY <1>3, <5>1
        <5>6. QED
          BY <5>1, <5>2, <5>3, <5>4, <5>5
      <4>4. QED
        <5>1. j < i - 1 \/ j = i - 1 \/ j >= i
          BY <1>1
        <5>2. QED
          BY <4>1, <4>2, <4>3, <5>1
    <3>5. QED
      BY <1>3, <2>1, <2>3, <3>1, <3>2, <3>3, <3>4 DEF ListShape
  <2>6. QED
    BY <2>4, <2>5
<1>14. ListType'
  <2>1. next[m] \in Ptr
    BY DEF TypeOK
  <2>2. head' \in Ptr
    BY <2>1 DEF Unlink, TypeOK
  <2>3. tail' \in Ptr
    BY <1>5, <1>6 DEF Unlink, TypeOK, Ptr
  <2>4. num' \in Nat
    <3>1. n - 1 \in Nat
      BY <1>1, <1>2
    <3>2. QED
      BY <3>1 DEF Unlink, ListShape
  <2>5. QED
    BY <1>3, <1>8, <2>2, <2>3, <2>4 DEF ListType
<1>15. ASSUME NEW x \in Mail
       PROVE  InOrder(x)' <=> InOrder(x) /\ x # m
  <2>1. ASSUME InOrder(x)' PROVE InOrder(x) /\ x # m
    <3>1. PICK j \in 1 .. n - 1 : order'[j] = x
      BY <1>3, <2>1 DEF InOrder
    <3>2. j \in 1 .. n /\ j + 1 \in 1 .. n
      BY <1>12
    <3>3. CASE j < i
      <4>1. x = order[j] /\ j # i
        BY <1>1, <1>3, <3>1, <3>3
      <4>2. QED
        BY <1>2, <3>2, <4>1 DEF InOrder, ListShape
    <3>4. CASE ~ (j < i)
      <4>1. x = order[j + 1] /\ j + 1 # i
        BY <1>1, <1>3, <3>1, <3>4
      <4>2. QED
        BY <1>2, <3>2, <4>1 DEF InOrder, ListShape
    <3>5. QED
      BY <3>3, <3>4
  <2>2. ASSUME InOrder(x), x # m PROVE InOrder(x)'
    <3>1. PICK j \in 1 .. n : order[j] = x
      BY <2>2 DEF InOrder
    <3>2. j # i
      BY <1>2, <2>2, <3>1
    <3>3. CASE j < i
      <4>1. j \in 1 .. n - 1
        BY <1>1, <3>3
      <4>2. QED
        BY <1>3, <3>1, <3>3, <4>1 DEF InOrder
    <3>4. CASE j > i
      <4>1. j - 1 \in 1 .. n - 1 /\ ~ (j - 1 < i) /\ (j - 1) + 1 = j
        BY <1>1, <3>4
      <4>2. order'[j - 1] = x
        BY <1>3, <3>1, <4>1
      <4>3. QED
        BY <1>3, <4>1, <4>2 DEF InOrder
    <3>5. QED
      BY <1>1, <3>2, <3>3, <3>4
  <2>3. QED
    BY <2>1, <2>2
<1>16. ASSUME NEW x \in Mail, ~InOrder(x) PROVE next'[x] = next[x]
  <2>1. x # m /\ (i # 1 => x # order[i - 1])
    BY <1>2, <1>6, <1>16 DEF InOrder
  <2>2. QED
    BY <1>10, <2>1
<1>17. InOrder(m)
  BY <1>2 DEF InOrder
<1>18. QED
  BY <1>2, <1>9, <1>13, <1>14, <1>15, <1>16, <1>17

-----------------------------------------------------------------------------
(* The inductive invariant, one lemma per kind of step.                    *)
LEMMA InitInv == Init => Inv
<1> SUFFICES ASSUME Init PROVE Inv
  OBVIOUS
<1>1. order = << >> /\ Len(order) = 0 /\ order \in Seq(Mail)
  BY DEF Init
<1>2. TypeOK
  BY <1>1 DEF Init, TypeOK, Ptr, Fate, Loop
<1>3. ListShape
  <2>1. 1 .. Len(order) = {}
    BY <1>1
  <2>2. QED
    BY <1>1, <2>1 DEF Init, ListShape
<1>4. Accounted
  BY <1>1 DEF Init, Accounted, InOrder
<1>5. Holding /\ Closing /\ RemainIntact
  BY DEF Init, Holding, Closing, RemainIntact
<1>6. QED
  BY <1>2, <1>3, <1>4, <1>5 DEF Inv

(* A step that leaves the list and the mails alone.                        *)
LEMMA QuietInv ==
  ASSUME Inv, Start \/ StartUp \/ StartFailed \/ waitPopSleep \/ ExitRefuse
  PROVE  Inv'
<1>1. TypeOK /\ ListShape /\ Accounted /\ Holding /\ Closing /\ RemainIntact
  BY DEF Inv
<1>2. UNCHANGED <<head, tail, num, next, order, curMail, mails, fate>>
  BY DEF Start, StartUp, StartFailed, waitPopSleep, ExitRefuse, list
<1>3. TypeOK'
  <2>1. running' \in BOOLEAN /\ asleep' \in BOOLEAN /\ loop' \in Loop
    BY <1>1 DEF Start, StartUp, StartFailed, waitPopSleep, ExitRefuse, TypeOK,
                Loop
  <2>2. QED
    BY <1>1, <1>2, <2>1 DEF TypeOK
<1>4. ListShape' /\ Accounted'
  BY <1>1, <1>2 DEF ListShape, Accounted, InOrder
<1>5. Holding'
  BY <1>1, <1>2 DEF Start, StartUp, StartFailed, waitPopSleep, ExitRefuse,
                    Holding
<1>6. Closing'
  BY <1>1, <1>2 DEF Start, StartUp, StartFailed, waitPopSleep, ExitRefuse,
                    Closing
<1>7. RemainIntact'
  BY <1>1, <1>2 DEF Start, StartUp, StartFailed, waitPopSleep, ExitRefuse,
                    RemainIntact, From, ClosedFrom
<1>8. QED
  BY <1>3, <1>4, <1>5, <1>6, <1>7 DEF Inv

(* A mail is linked at one end of a running mailbox.                       *)
LEMMA PushInv ==
  ASSUME Inv, NEW m \in Mail, pushHead(m) \/ pushTail(m) \/ stopIfNoMail(m)
  PROVE  Inv'
<1>1. TypeOK /\ ListShape /\ Accounted /\ Holding /\ Closing /\ RemainIntact
  BY DEF Inv
<1>2. /\ running /\ fate[m] = "fresh"
      /\ fate' = [fate EXCEPT ![m] = "queued"]
      /\ UNCHANGED <<loop, curMail, mails>>
      /\ running' \in BOOLEAN
      /\ LinkFirst(m) \/ LinkLast(m)
  BY <1>1 DEF pushHead, pushTail, stopIfNoMail, TypeOK
<1>3. /\ ListType' /\ ListShape'
      /\ \A x \in Mail : InOrder(x)' <=> InOrder(x) \/ x = m
  BY <1>1, <1>2, LinkFirstShape, LinkLastShape
<1>4. ASSUME NEW x \in Mail, x # m, ~InOrder(x) PROVE next'[x] = next[x]
  <2>1. CASE LinkFirst(m)
    BY <1>1, <1>4, <2>1 DEF LinkFirst, TypeOK
  <2>2. CASE LinkLast(m)
    <3>1. head # Nil => x # tail
      <4>1. order # << >> => Len(order) \in 1 .. Len(order)
        BY <1>1, LenProperties, EmptySeq DEF TypeOK
      <4>2. QED
        BY <1>1, <1>4, <4>1 DEF ListShape, InOrder
    <3>2. QED
      BY <1>1, <1>4, <2>2, <3>1 DEF LinkLast, TypeOK
  <2>3. QED
    BY <1>2, <2>1, <2>2
<1>5. loop \notin {"draining", "stopping", "exited"}
  BY <1>1, <1>2 DEF Closing
<1>6. TypeOK'
  <2>1. asleep' \in BOOLEAN
    BY <1>2 DEF LinkFirst, LinkLast
  <2>2. fate' \in [Mail -> Fate]
    BY <1>1, <1>2 DEF TypeOK, Fate
  <2>3. QED
    BY <1>1, <1>2, <1>3, <2>1, <2>2 DEF TypeOK, ListType
<1>7. Accounted'
  <2>1. ASSUME NEW x \in Mail
        PROVE  /\ fate'[x] = "queued" <=> InOrder(x)'
               /\ fate'[x] = "fresh" => next'[x] = Nil
    <3>1. CASE x = m
      BY <1>1, <1>2, <1>3, <3>1 DEF TypeOK
    <3>2. CASE x # m
      <4>1. fate'[x] = fate[x]
        BY <1>1, <1>2, <3>2 DEF TypeOK
      <4>2. fate[x] = "fresh" => ~InOrder(x) /\ next[x] = Nil
        BY <1>1 DEF Accounted
      <4>3. QED
        BY <1>1, <1>3, <1>4, <3>2, <4>1, <4>2 DEF Accounted
    <3>3. QED
      BY <3>1, <3>2
  <2>2. QED
    BY <2>1 DEF Accounted
<1>8. Holding'
  BY <1>1, <1>2 DEF Holding, TypeOK
<1>9. Closing' /\ RemainIntact'
  <2>1. \A x \in Mail : fate'[x] = "drained" => fate[x] = "drained"
    BY <1>1, <1>2 DEF TypeOK
  <2>2. QED
    BY <1>1, <1>2, <1>5, <2>1 DEF Closing, RemainIntact
<1>10. QED
  BY <1>3, <1>6, <1>7, <1>8, <1>9 DEF Inv

(* A refused push touches nothing but the mail itself.                   *)
LEMMA RefuseInv ==
  ASSUME Inv, NEW m \in Mail, pushRefused(m)
  PROVE  Inv'
<1>1. TypeOK /\ ListShape /\ Accounted /\ Holding /\ Closing /\ RemainIntact
  BY DEF Inv
<1>2. /\ UNCHANGED <<running, head, tail, num, next, order, asleep, loop,
                     curMail, mails>>
      /\ fate[m] = "fresh"
      /\ fate' = [fate EXCEPT ![m] = "refused"]
  BY DEF pushRefused, list
<1>3. /\ fate' \in [Mail -> Fate]
      /\ \A x \in Mail : /\ fate'[x] = "queued" <=> fate[x] = "queued"
                         /\ fate'[x] = "drained" <=> fate[x] = "drained"
                         /\ fate'[x] = "fresh" => fate[x] = "fresh"
                         /\ fate[x] = "served" => fate'[x] = "served"
  BY <1>1, <1>2 DEF TypeOK, Fate
<1>4. TypeOK'
  BY <1>1, <1>2, <1>3 DEF TypeOK
<1>5. ListShape' /\ Accounted'
  BY <1>1, <1>2, <1>3 DEF ListShape, Accounted, InOrder
<1>6. Holding' /\ Closing'
  BY <1>1, <1>2, <1>3 DEF Holding, Closing, TypeOK, Ptr
<1>7. RemainIntact'
  <2>1. From(mails)' = From(mails)
    BY <1>2 DEF From, ClosedFrom
  <2>2. {x \in Mail : fate'[x] = "drained"} = {x \in Mail : fate[x] = "drained"}
    BY <1>3
  <2>3. QED
    BY <1>1, <1>2, <2>1, <2>2 DEF RemainIntact
<1>8. QED
  BY <1>4, <1>5, <1>6, <1>7 DEF Inv

(* The handler returns, or mailboxOnStop does.                             *)
LEMMA DoneInv ==
  ASSUME Inv, Received \/ Stopped
  PROVE  Inv'
<1>1. TypeOK /\ ListShape /\ Accounted /\ Holding /\ Closing /\ RemainIntact
  BY DEF Inv
<1>2. /\ UNCHANGED <<running, head, tail, num, next, order, asleep>>
      /\ loop \in {"received", "stopping"}
      /\ loop' = IF loop = "received" THEN "idle" ELSE "exited"
      /\ fate' = [fate EXCEPT ![curMail] = "handled"]
      /\ curMail' = Nil /\ mails' \in Ptr
  BY <1>1 DEF Received, Stopped, list, TypeOK, Ptr
<1>3. curMail \in Mail /\ fate[curMail] = "served"
  BY <1>1, <1>2 DEF Holding, TypeOK, Ptr
<1>4. /\ fate' \in [Mail -> Fate]
      /\ \A x \in Mail : /\ fate'[x] = "queued" <=> fate[x] = "queued"
                         /\ fate'[x] = "drained" <=> fate[x] = "drained"
                         /\ fate'[x] = "fresh" => fate[x] = "fresh"
  BY <1>1, <1>2, <1>3 DEF TypeOK, Fate
<1>5. TypeOK'
  BY <1>1, <1>2, <1>4 DEF TypeOK, Ptr, Loop
<1>6. ListShape' /\ Accounted'
  BY <1>1, <1>2, <1>4 DEF ListShape, Accounted, InOrder
<1>7. Holding'
  BY <1>2 DEF Holding
<1>8. Closing' /\ RemainIntact'
  BY <1>1, <1>2, <1>4 DEF Closing, RemainIntact
<1>9. QED
  BY <1>5, <1>6, <1>7, <1>8 DEF Inv

(* The loop takes the next mail.                                         *)
LEMMA PopInv ==
  ASSUME Inv, waitPop
  PROVE  Inv'
<1>1. TypeOK /\ ListShape /\ Accounted /\ Holding /\ Closing /\ RemainIntact
  BY DEF Inv
<1>2. /\ ListType' /\ ListShape'
      /\ head \in Mail
      /\ next' = [next EXCEPT ![head] = Nil]
      /\ \A x \in Mail : InOrder(x)' <=> InOrder(x) /\ x # head
  BY <1>1, PopShape
<1>3. /\ UNCHANGED <<running, asleep, mails>>
      /\ loop = "idle"
      /\ curMail' = head
      /\ fate' = [fate EXCEPT ![head] = "served"]
      /\ loop' = IF head \in ExitMail THEN "refusing" ELSE "received"
  BY <1>2 DEF waitPop
<1>4. fate' \in [Mail -> Fate] /\ fate'[head] = "served"
  BY <1>1, <1>2, <1>3 DEF TypeOK, Fate
<1>5. TypeOK'
  BY <1>1, <1>2, <1>3, <1>4 DEF TypeOK, ListType, Ptr, Loop
<1>6. Accounted'
  <2>1. ASSUME NEW x \in Mail
        PROVE  /\ fate'[x] = "queued" <=> InOrder(x)'
               /\ fate'[x] = "fresh" => next'[x] = Nil
    <3>1. CASE x = head
      BY <1>2, <1>4, <3>1
    <3>2. CASE x # head
      <4>1. fate'[x] = fate[x] /\ next'[x] = next[x]
        BY <1>1, <1>2, <1>3, <3>2 DEF TypeOK
      <4>2. QED
        BY <1>1, <1>2, <3>2, <4>1 DEF Accounted
    <3>3. QED
      BY <3>1, <3>2
  <2>2. QED
    BY <2>1 DEF Accounted
<1>7. Holding'
  BY <1>2, <1>3, <1>4 DEF Holding
<1>8. Closing' /\ RemainIntact'
  <2>1. \A x \in Mail : fate'[x] = "drained" => fate[x] = "drained"
    BY <1>1, <1>3 DEF TypeOK
  <2>2. QED
    BY <1>1, <1>3, <2>1 DEF Closing, RemainIntact
<1>9. QED
  BY <1>2, <1>5, <1>6, <1>7, <1>8 DEF Inv

(* The stopping loop takes the whole list.                               *)
LEMMA DrainInv ==
  ASSUME Inv, popAll
  PROVE  Inv'
<1>1. TypeOK /\ ListShape /\ Accounted /\ Holding /\ Closing /\ RemainIntact
  BY DEF Inv
<1>2. /\ loop = "draining" /\ loop' = "stopping"
      /\ mails' = head /\ head' = Nil /\ order' = << >>
      /\ fate' = [m \in Mail |-> IF m \in Listed THEN "drained" ELSE fate[m]]
      /\ UNCHANGED <<running, next, asleep, curMail>>
  BY DEF popAll
<1>3. Len(order') = 0 /\ order' \in Seq(Mail)
  BY <1>2
<1>4. \A m \in Mail : m \in Listed <=> InOrder(m)
  BY <1>1, ListedIsOrder DEF InOrder
<1>5. \A m \in Mail : ~InOrder(m)'
  BY <1>3 DEF InOrder
<1>6. tail' = Nil /\ num' = 0
  <2>1. CASE head = Nil
    <3>1. order = << >>
      BY <1>1, <2>1, LenProperties, EmptySeq DEF ListShape, TypeOK
    <3>2. QED
      BY <1>1, <2>1, <3>1 DEF popAll, ListShape
  <2>2. CASE head # Nil
    BY <2>2 DEF popAll
  <2>3. QED
    BY <2>1, <2>2
<1>7. TypeOK'
  <2>1. fate' \in [Mail -> Fate]
    BY <1>1, <1>2 DEF TypeOK, Fate
  <2>2. QED
    BY <1>1, <1>2, <1>3, <1>6, <2>1 DEF TypeOK, Ptr, Loop
<1>8. ListShape'
  <2>1. 1 .. Len(order') = {}
    BY <1>3
  <2>2. QED
    BY <1>2, <1>3, <1>6, <2>1 DEF ListShape
<1>9. Accounted'
  BY <1>1, <1>2, <1>4, <1>5 DEF Accounted
<1>10. Holding'
  <2>1. curMail \in Mail /\ fate[curMail] = "served"
    BY <1>1, <1>2 DEF Holding, TypeOK, Ptr
  <2>2. fate'[curMail] = "served"
    BY <1>1, <1>2, <1>4, <2>1 DEF Accounted
  <2>3. QED
    BY <1>1, <1>2, <2>2 DEF Holding
<1>11. Closing'
  BY <1>1, <1>2 DEF Closing
<1>12. RemainIntact'
  <2>1. From(mails)' = Listed
    BY <1>2 DEF Listed, From, ClosedFrom
  <2>2. \A m \in Mail : fate'[m] = "drained" <=> m \in Listed
    BY <1>1, <1>2 DEF Closing
  <2>3. Listed \subseteq Mail
    BY DEF Listed, From
  <2>4. QED
    BY <2>1, <2>2, <2>3 DEF RemainIntact
<1>13. QED
  BY <1>7, <1>8, <1>9, <1>10, <1>11, <1>12 DEF Inv

(* removeMail and popByID take a mail out of the list.                     *)
LEMMA WithdrawInv ==
  ASSUME Inv, NEW m \in Mail, Withdrawn(m)
  PROVE  Inv'
<1>1. TypeOK /\ ListShape /\ Accounted /\ Holding /\ Closing /\ RemainIntact
  BY DEF Inv
<1>2. /\ UNCHANGED <<running, asleep, loop, curMail, mails>>
      /\ fate' = [fate EXCEPT ![m] = "withdrawn"]
      /\ Unlink(m)
  BY DEF Withdrawn
<1>3. /\ ListType' /\ ListShape'
      /\ InOrder(m) /\ next'[m] = Nil
      /\ \A x \in Mail : InOrder(x)' <=> InOrder(x) /\ x # m
      /\ \A x \in Mail : ~InOrder(x) => next'[x] = next[x]
  BY <1>1, <1>2, UnlinkShape
<1>4. order # << >> /\ loop # "stopping"
  <2>1. order # << >>
    BY <1>3 DEF InOrder
  <2>2. QED
    BY <1>1, <2>1 DEF Closing
<1>5. fate[m] = "queued"
  BY <1>1, <1>3 DEF Accounted
<1>6. TypeOK'
  <2>1. fate' \in [Mail -> Fate]
    BY <1>1, <1>2 DEF TypeOK, Fate
  <2>2. QED
    BY <1>1, <1>2, <1>3, <2>1 DEF TypeOK, ListType
<1>7. Accounted'
  <2>1. ASSUME NEW x \in Mail
        PROVE  /\ fate'[x] = "queued" <=> InOrder(x)'
               /\ fate'[x] = "fresh" => next'[x] = Nil
    <3>1. CASE x = m
      BY <1>1, <1>2, <1>3, <3>1 DEF TypeOK
    <3>2. CASE x # m
      <4>1. fate'[x] = fate[x]
        BY <1>1, <1>2, <3>2 DEF TypeOK
      <4>2. fate[x] = "fresh" => ~InOrder(x) /\ next[x] = Nil
        BY <1>1 DEF Accounted
      <4>3. QED
        BY <1>1, <1>3, <3>2, <4>1, <4>2 DEF Accounted
    <3>3. QED
      BY <3>1, <3>2
  <2>2. QED
    BY <2>1 DEF Accounted
<1>8. Holding'
  BY <1>1, <1>2, <1>5 DEF Holding, TypeOK, Ptr
<1>9. Closing' /\ RemainIntact'
  <2>1. loop \notin {"stopping", "exited"}
    BY <1>1, <1>4 DEF Closing
  <2>2. \A x \in Mail : fate'[x] = "drained" => fate[x] = "drained"
    BY <1>1, <1>2 DEF TypeOK
  <2>3. QED
    BY <1>1, <1>2, <2>1, <2>2 DEF Closing, RemainIntact
<1>10. QED
  BY <1>3, <1>6, <1>7, <1>8, <1>9 DEF Inv

(* Every step of the mailbox is of one of these kinds.                     *)
LEMMA NextInv == Inv /\ [Next]_vars => Inv'
<1> SUFFICES ASSUME Inv, [Next]_vars PROVE Inv'
  OBVIOUS
<1>1. CASE Start
  BY <1>1, QuietInv
<1>2. CASE Loops
  BY <1>2, QuietInv, DoneInv, PopInv, DrainInv DEF Loops
<1>3. CASE Senders
  <2>1. PICK m \in Mail : \/ pushHead(m) \/ pushTail(m) \/ pushRefused(m)
                          \/ stopIfNoMail(m) \/ removeMail(m)
    BY <1>3 DEF Senders
  <2>2. CASE pushHead(m) \/ pushTail(m) \/ stopIfNoMail(m)
    BY <2>2, PushInv
  <2>3. CASE pushRefused(m)
    BY <2>3, RefuseInv
  <2>4. CASE removeMail(m)
    BY <2>4, WithdrawInv DEF removeMail
  <2>5. QED
    BY <2>1, <2>2, <2>3, <2>4
<1>4. ASSUME NEW i, popByID(i) PROVE Inv'
  <2>1. PICK m \in Mail : Withdrawn(m)
    BY <1>4 DEF popByID, FirstWithId, Listed, From
  <2>2. QED
    BY <2>1, WithdrawInv
<1>5. CASE UNCHANGED vars
  <2>1. UNCHANGED <<running, head, tail, num, next, asleep, loop, curMail,
                    mails, fate, order>>
    BY <1>5 DEF vars
  <2>2. TypeOK' /\ ListShape' /\ Accounted'
    BY <2>1 DEF Inv, TypeOK, ListShape, Accounted, InOrder
  <2>3. Holding' /\ Closing' /\ RemainIntact'
    BY <2>1 DEF Inv, Holding, Closing, RemainIntact, From, ClosedFrom
  <2>4. QED
    BY <2>2, <2>3 DEF Inv
<1>6. QED
  BY <1>1, <1>2, <1>3, <1>4, <1>5 DEF Next

-----------------------------------------------------------------------------
(* The invariant holds in every reachable state.                         *)
LEMMA InvHolds == Spec => []Inv
<1>1. Init => Inv
  BY InitInv
<1>2. Inv /\ [Next]_vars => Inv'
  BY NextInv
<1>3. QED
  BY <1>1, <1>2, PTL DEF Spec

(* The fields of the mailbox keep their types: num never drops below zero, *)
(* and a pointer is always nil or a mail.                                  *)
THEOREM TypeCorrect == Spec => []TypeOK
<1>1. Inv => TypeOK
  BY DEF Inv
<1>2. QED
  BY <1>1, InvHolds, PTL

(* However senders, withdrawals and the loop interleave, the linked list   *)
(* of mail.go stays the queue it stands for.                               *)
THEOREM ShapeKept == Spec => []ListShape
<1>1. Inv => ListShape
  BY DEF Inv
<1>2. QED
  BY <1>1, InvHolds, PTL

(* No mail gets into the mailbox behind popAll.                            *)
THEOREM NothingSlipsIn == Spec => []NothingBehindTheDrain
<1>1. Inv => NothingBehindTheDrain
  <2>1. order = << >> => Len(order) = 0
    OBVIOUS
  <2>2. QED
    BY <2>1 DEF Inv, Closing, ListShape, NothingBehindTheDrain
<1>2. QED
  BY <1>1, InvHolds, PTL

(* The list mailboxOnStop walks without the mutex stays what popAll took.  *)
THEOREM RemainKept == Spec => []RemainIntact
<1>1. Inv => RemainIntact
  BY DEF Inv
<1>2. QED
  BY <1>1, InvHolds, PTL

-----------------------------------------------------------------------------
(* A step of the mailbox is a step of the queue it promises, or a stutter. *)
LEMMA StepRefines ==
  ASSUME Inv, [Next]_vars
  PROVE  [Queue!Next]_Queue!vars
<1> DEFINE Stutter == UNCHANGED <<order, running, curMail, fate>>
<1>1. TypeOK /\ ListShape /\ Accounted /\ Holding /\ Closing
  BY DEF Inv
<1>2. Stutter => UNCHANGED Queue!vars
  BY DEF Queue!vars
<1>3. CASE Start
  BY <1>3 DEF Start, list, Queue!Open, Queue!Next
<1>4. CASE StartUp \/ waitPopSleep
  BY <1>2, <1>4 DEF StartUp, waitPopSleep, list
<1>5. CASE StartFailed \/ ExitRefuse
  <2>1. running' = FALSE /\ UNCHANGED <<order, curMail, fate>>
    BY <1>5 DEF StartFailed, ExitRefuse, list
  <2>2. CASE running
    BY <2>1, <2>2 DEF Queue!Shut, Queue!Next
  <2>3. CASE ~running
    BY <1>1, <1>2, <2>1, <2>3 DEF TypeOK
  <2>4. QED
    BY <2>2, <2>3
<1>6. CASE waitPop
  <2>1. /\ order # << >> /\ head = order[1] /\ head \in Mail
        /\ curMail = Nil
    BY <1>1, <1>6, PopShape DEF waitPop, Holding
  <2>2. Head(order) = head
    BY <1>1, <2>1, HeadTailProperties DEF TypeOK
  <2>3. Queue!Serve
    BY <1>6, <2>1, <2>2 DEF waitPop, Queue!Serve
  <2>4. QED
    BY <2>3 DEF Queue!Next
<1>7. CASE Received \/ Stopped
  <2>1. Queue!Finish
    BY <1>1, <1>7 DEF Received, Stopped, list, Holding, Queue!Finish
  <2>2. QED
    BY <2>1 DEF Queue!Next
<1>8. CASE popAll
  <2>1. \A m \in Mail : m \in Listed <=> Queue!Queued(m)
    BY <1>1, ListedIsOrder DEF Queue!Queued
  <2>2. ~running /\ curMail \in ExitMail
    BY <1>1, <1>8 DEF popAll, Holding, Closing
  <2>3. Queue!HandOver
    BY <1>8, <2>1, <2>2 DEF popAll, Queue!HandOver
  <2>4. QED
    BY <2>3 DEF Queue!Next
<1>9. ASSUME NEW m \in Mail, Withdrawn(m) PROVE Queue!Next
  <2>1. Queue!Withdraw(m)
    BY <1>9 DEF Withdrawn, Unlink, RemoveAt, Queue!Withdraw, Queue!RemoveAt
  <2>2. QED
    BY <2>1 DEF Queue!Next
<1>10. CASE Senders
  <2>1. PICK m \in Mail : \/ pushHead(m) \/ pushTail(m) \/ pushRefused(m)
                          \/ stopIfNoMail(m) \/ removeMail(m)
    BY <1>10 DEF Senders
  <2>2. CASE pushHead(m)
    BY <2>2 DEF pushHead, LinkFirst, Queue!AcceptFirst, Queue!Next
  <2>3. CASE pushTail(m)
    BY <2>3 DEF pushTail, LinkLast, Queue!AcceptLast, Queue!Next
  <2>4. CASE pushRefused(m)
    BY <2>4 DEF pushRefused, list, Queue!Refuse, Queue!Next
  <2>5. CASE stopIfNoMail(m)
    <3>1. order = << >>
      BY <1>1, <2>5, EmptySeq DEF stopIfNoMail, ListShape, TypeOK
    <3>2. order' = <<m>>
      BY <2>5, <3>1 DEF stopIfNoMail, LinkFirst
    <3>3. Queue!ShutIfEmpty(m)
      BY <2>5, <3>1, <3>2 DEF stopIfNoMail, Queue!ShutIfEmpty
    <3>4. QED
      BY <3>3 DEF Queue!Next
  <2>6. CASE removeMail(m)
    BY <1>9, <2>6 DEF removeMail
  <2>7. QED
    BY <2>1, <2>2, <2>3, <2>4, <2>5, <2>6
<1>11. ASSUME NEW i, popByID(i) PROVE Queue!Next
  <2>1. PICK m \in Mail : Withdrawn(m)
    BY <1>11 DEF popByID, FirstWithId, Listed, From
  <2>2. QED
    BY <1>9, <2>1
<1>12. CASE UNCHANGED vars
  BY <1>2, <1>12 DEF vars
<1>13. QED
  BY <1>3, <1>4, <1>5, <1>6, <1>7, <1>8, <1>10, <1>11, <1>12 DEF Next, Loops

(* For every set of mails the mailbox of mail.go implements the queue it   *)
(* promises: mails are served one at a time and in the order of the queue, *)
(* each accepted mail leaves once, and an exit hands over the rest.        *)
THEOREM Refinement == Spec => QueueSpec
<1>1. Init => Queue!Init
  BY DEF Init, Queue!Init
<1>2. Inv /\ [Next]_vars => [Queue!Next]_Queue!vars
  BY StepRefines
<1>3. QED
  BY <1>1, <1>2, InvHolds, PTL DEF Spec, QueueSpec, Queue!Spec

-----------------------------------------------------------------------------
(* The wait graph.                                                         *)
HIDE MailboxAssumption
USE WaitGraphAssumption

-----------------------------------------------------------------------------
(* The values of the variables the argument is about.                      *)
GraphOK ==
  /\ waitGraph \in [Goroutine -> Actor \cup {None}]
  /\ pc \in [Goroutine -> {"starting", "idle", "running", "pushing", "waiting",
                           "returning", "halted"}]
  /\ target \in [Goroutine -> Actor \cup {None}]
  /\ hasWaitEdge \subseteq Goroutine

(* An edge is in the graph for as long as the goroutine is in a call it    *)
(* checked, and points at the actor it called.                             *)
EdgeIsCall ==
  \A g \in hasWaitEdge :
    /\ pc[g] \in {"pushing", "waiting", "returning"}
    /\ waitGraph[g] = target[g]

-----------------------------------------------------------------------------
(* Adding an edge whose target does not reach its source closes no cycle.  *)
LEMMA EdgeKeepsAcyclic ==
  ASSUME GraphOK, Acyclic,
         NEW g \in Goroutine, NEW t \in Actor, ~Reaches(t, g),
         waitGraph' = [waitGraph EXCEPT ![g] = t]
  PROVE  Acyclic'
<1>1. PICK S \in SUBSET Goroutine : t \in S /\ Closed(S) /\ g \notin S
  BY DEF Reaches
<1>2. SUFFICES ASSUME NEW C \in SUBSET Goroutine, C # {},
                      \A x \in C : waitGraph'[x] \in C
               PROVE  FALSE
  BY DEF Acyclic
<1>3. \A x \in Goroutine \ {g} : waitGraph'[x] = waitGraph[x]
  BY DEF GraphOK
<1>4. waitGraph'[g] = t
  BY DEF GraphOK
<1>5. CASE g \notin C
  <2>1. \A x \in C : waitGraph[x] \in C
    BY <1>2, <1>3, <1>5
  <2>2. QED
    BY <1>2, <2>1 DEF Acyclic
<1>6. CASE g \in C
  <2>1. t \in C \cap S
    BY <1>1, <1>2, <1>4, <1>6
  <2>2. \A x \in C \cap S : waitGraph[x] \in C \cap S
    <3>1. TAKE x \in C \cap S
    <3>2. waitGraph[x] \in C
      BY <1>1, <1>2, <1>3
    <3>3. waitGraph[x] # None
      BY <3>2 DEF Goroutine
    <3>4. QED
      BY <1>1, <3>2, <3>3 DEF Closed
  <2>3. QED
    BY <2>1, <2>2 DEF Acyclic
<1>7. QED
  BY <1>5, <1>6

(* Taking an edge out closes none either.                                  *)
LEMMA RemovalKeepsAcyclic ==
  ASSUME GraphOK, Acyclic, NEW g \in Goroutine,
         waitGraph' = [waitGraph EXCEPT ![g] = None]
  PROVE  Acyclic'
<1>1. SUFFICES ASSUME NEW C \in SUBSET Goroutine, C # {},
                      \A x \in C : waitGraph'[x] \in C
               PROVE  FALSE
  BY DEF Acyclic
<1>2. g \notin C
  BY <1>1 DEF GraphOK, Goroutine
<1>3. \A x \in C : waitGraph[x] \in C
  BY <1>1, <1>2 DEF GraphOK
<1>4. QED
  BY <1>1, <1>3 DEF Acyclic

-----------------------------------------------------------------------------
GraphInv == GraphOK /\ EdgeIsCall /\ Acyclic

(* Initially there is no edge.                                           *)
LEMMA GraphInitInv == GraphInit => GraphInv
<1>1. SUFFICES ASSUME GraphInit PROVE GraphInv
  OBVIOUS
<1>2. GraphOK
  BY <1>1 DEF GraphInit, GraphOK, Goroutine
<1>3. EdgeIsCall
  BY <1>1 DEF GraphInit, EdgeIsCall
<1>4. Acyclic
  BY <1>1 DEF GraphInit, Acyclic, Goroutine
<1>5. QED
  BY <1>2, <1>3, <1>4 DEF GraphInv

(* The steps that leave the caller's side of the calls alone and move a    *)
(* goroutine that is in no call.                                           *)
LEMMA ActorStep ==
  ASSUME GraphInv, NEW a \in Actor,
         StartMailbox(a) \/ Spawn(a) \/ SpawnFailed(a)
           \/ Handle(a) \/ HandleOther(a)
           \/ Reply(a) \/ Stop(a)
  PROVE  GraphInv'
<1>1. UNCHANGED <<waitGraph, target, hasWaitEdge>>
  BY DEF StartMailbox, Spawn, SpawnFailed, Handle, HandleOther, Reply, Stop,
      caller
<1>2. pc[a] \in {"starting", "running", "idle"}
  BY DEF StartMailbox, Spawn, SpawnFailed, Handle, HandleOther, Reply, Stop
<1>3. \E p \in {"starting", "running", "idle", "halted"} :
         pc' = [pc EXCEPT ![a] = p]
  BY DEF GraphInv, GraphOK, StartMailbox, Spawn, SpawnFailed, Handle,
      HandleOther, Reply,
         Stop, Goroutine
<1>4. GraphOK'
  BY <1>1, <1>3 DEF GraphInv, GraphOK, Goroutine
<1>5. a \notin hasWaitEdge
  BY <1>2 DEF GraphInv, EdgeIsCall
<1>6. EdgeIsCall'
  BY <1>1, <1>3, <1>5 DEF GraphInv, GraphOK, EdgeIsCall, Goroutine
<1>7. Acyclic'
  BY <1>1 DEF GraphInv, Acyclic
<1>8. QED
  BY <1>4, <1>6, <1>7 DEF GraphInv

(* A call that passes the check keeps the graph acyclic.                 *)
LEMMA CallStep ==
  ASSUME GraphInv, NEW g \in Goroutine, NEW t \in Actor,
         CallRefused(g, t) \/ CallStarts(g, t) \/ CallUnseen(g, t)
  PROVE  GraphInv'
<1>1. CASE CallRefused(g, t)
  BY <1>1 DEF GraphInv, GraphOK, EdgeIsCall, Acyclic, CallRefused
<1>2. CASE CallStarts(g, t)
  <2>1. GraphOK'
    BY <1>2 DEF GraphInv, GraphOK, CallStarts
  <2>2. EdgeIsCall'
    BY <1>2 DEF GraphInv, GraphOK, EdgeIsCall, CallStarts
  <2>3. Acyclic'
    BY <1>2, EdgeKeepsAcyclic DEF GraphInv, CallStarts
  <2>4. QED
    BY <2>1, <2>2, <2>3 DEF GraphInv
<1>3. CASE CallUnseen(g, t)
  <2>1. g \notin hasWaitEdge
    BY <1>3 DEF GraphInv, EdgeIsCall, CallUnseen
  <2>2. QED
    BY <1>3, <2>1 DEF GraphInv, GraphOK, EdgeIsCall, Acyclic, CallUnseen
<1>4. QED
  BY <1>1, <1>2, <1>3

(* Pushing, answering and timing out leave the edges alone.              *)
LEMMA WaitStep ==
  ASSUME GraphInv, NEW g \in Goroutine,
         Push(g) \/ PushRefused(g) \/ Answered(g) \/ TimedOut(g)
  PROVE  GraphInv'
<1>1. UNCHANGED <<waitGraph, target, hasWaitEdge>>
  BY DEF Push, PushRefused, Answered, TimedOut, caller
<1>2. \E p \in {"waiting", "returning"} : pc' = [pc EXCEPT ![g] = p]
  BY DEF Push, PushRefused, Answered, TimedOut
<1>3. GraphOK'
  BY <1>1, <1>2 DEF GraphInv, GraphOK
<1>4. EdgeIsCall'
  BY <1>1, <1>2 DEF GraphInv, GraphOK, EdgeIsCall
<1>5. Acyclic'
  BY <1>1 DEF GraphInv, Acyclic
<1>6. QED
  BY <1>3, <1>4, <1>5 DEF GraphInv

(* Taking an edge back keeps the graph acyclic.                          *)
LEMMA ReturnStep ==
  ASSUME GraphInv, NEW g \in Goroutine, Return(g)
  PROVE  GraphInv'
<1>1. GraphOK'
  BY DEF GraphInv, GraphOK, Return
<1>2. EdgeIsCall'
  BY DEF GraphInv, GraphOK, EdgeIsCall, Return
<1>3. Acyclic'
  <2>1. CASE g \in hasWaitEdge
    BY <2>1, RemovalKeepsAcyclic DEF GraphInv, Return
  <2>2. CASE g \notin hasWaitEdge
    BY <2>2 DEF GraphInv, Acyclic, Return
  <2>3. QED
    BY <2>1, <2>2
<1>4. QED
  BY <1>1, <1>2, <1>3 DEF GraphInv

(* Every action keeps the invariant.                                     *)
LEMMA GraphNextInv == GraphInv /\ [GraphNext]_graphVars => GraphInv'
<1>1. SUFFICES ASSUME GraphInv, [GraphNext]_graphVars PROVE GraphInv'
  OBVIOUS
<1>2. CASE UNCHANGED graphVars
  BY <1>1, <1>2 DEF GraphInv, GraphOK, EdgeIsCall, Acyclic, graphVars
<1>3. CASE GraphNext
  BY <1>1, <1>3, ActorStep, CallStep, WaitStep, ReturnStep DEF GraphNext
<1>4. QED
  BY <1>1, <1>2, <1>3

(* The graph that detectDeadlockAndWait walks never has a cycle.           *)
THEOREM GraphAcyclic == GraphSpec => []Acyclic
<1>1. GraphInv => Acyclic
  BY DEF GraphInv
<1>2. QED
  BY <1>1, GraphInitInv, GraphNextInv, PTL DEF GraphSpec

(* Goroutines never wait for each other in a ring of checked calls.        *)
THEOREM DeadlockFree == GraphSpec => []NoDeadlock
<1>1. GraphInv => NoDeadlock
  <2>1. SUFFICES ASSUME GraphInv, NEW C \in SUBSET Goroutine, C # {}
                 PROVE  \E x \in C : \/ ~(Blocked(x) /\ target[x] \in C)
                                     \/ x \notin hasWaitEdge
    BY DEF NoDeadlock
  <2>2. PICK x \in C : waitGraph[x] \notin C
    BY <2>1 DEF GraphInv, Acyclic
  <2>3. x \in hasWaitEdge => target[x] \notin C
    BY <2>1, <2>2 DEF GraphInv, EdgeIsCall
  <2>4. QED
    BY <2>3
<1>2. QED
  BY <1>1, GraphInitInv, GraphNextInv, PTL DEF GraphSpec

-----------------------------------------------------------------------------
(* The goroutines in a call have a target and a number for the call.       *)
InCall ==
  \A g \in Goroutine :
    pc[g] \in {"pushing", "waiting", "returning"}
      => target[g] \in Actor /\ calls[g] \in 1 .. MaxCalls

GraphTypeInv == GraphTypeOK /\ InCall

(* The initial state has the types.                                      *)
LEMMA GraphInitType == GraphInit => GraphTypeInv
<1>1. SUFFICES ASSUME GraphInit PROVE GraphTypeInv
  OBVIOUS
<1>2. GraphTypeOK
  BY <1>1 DEF GraphInit, GraphTypeOK, Goroutine
<1>3. InCall
  BY <1>1 DEF GraphInit, InCall
<1>4. QED
  BY <1>2, <1>3 DEF GraphTypeInv

(* The steps of the actors keep the types.                               *)
LEMMA ActorType ==
  ASSUME GraphTypeInv, NEW a \in Actor,
         StartMailbox(a) \/ Spawn(a) \/ SpawnFailed(a)
           \/ Handle(a) \/ HandleOther(a)
           \/ Reply(a) \/ Stop(a)
  PROVE  GraphTypeInv'
<1> a \in Goroutine
  BY DEF Goroutine
<1>1. CASE StartMailbox(a)
  BY <1>1 DEF GraphTypeInv, GraphTypeOK, InCall, StartMailbox, caller
<1>2. CASE Spawn(a)
  BY <1>2 DEF GraphTypeInv, GraphTypeOK, InCall, Spawn, caller
<1>3. CASE SpawnFailed(a)
  BY <1>3 DEF GraphTypeInv, GraphTypeOK, InCall, SpawnFailed, caller
<1>4. CASE Handle(a)
  <2>1. Head(mailbox[a]) \in Mails /\ Tail(mailbox[a]) \in Seq(Mails)
    BY <1>4, HeadTailProperties DEF GraphTypeInv, GraphTypeOK, Handle
  <2>2. QED
    BY <1>4, <2>1 DEF GraphTypeInv, GraphTypeOK, InCall, Handle, caller
<1>5. CASE HandleOther(a)
  BY <1>5 DEF GraphTypeInv, GraphTypeOK, InCall, HandleOther, caller, box
<1>6. CASE Reply(a)
  BY <1>6 DEF GraphTypeInv, GraphTypeOK, InCall, Reply, caller
<1>7. CASE Stop(a)
  <2>1. {mailbox[a][i] : i \in 1 .. Len(mailbox[a])} \subseteq Mails
    BY ElementOfSeq DEF GraphTypeInv, GraphTypeOK
  <2>2. << >> \in Seq(Mails)
    BY EmptySeq
  <2>3. QED
    BY <1>7, <2>1, <2>2 DEF GraphTypeInv, GraphTypeOK, InCall, Stop, caller
<1>8. QED
  BY <1>1, <1>2, <1>3, <1>4, <1>5, <1>6, <1>7

(* The start of a call keeps the types.                                  *)
LEMMA CallType ==
  ASSUME GraphTypeInv, NEW g \in Goroutine, NEW t \in Actor,
         CallRefused(g, t) \/ CallStarts(g, t) \/ CallUnseen(g, t)
  PROVE  GraphTypeInv'
<1>1. calls[g] + 1 \in 1 .. MaxCalls
  BY DEF GraphTypeInv, GraphTypeOK, CallRefused, CallStarts, CallUnseen
<1>2. CASE CallRefused(g, t)
  BY <1>1, <1>2 DEF GraphTypeInv, GraphTypeOK, InCall, CallRefused, box
<1>3. CASE CallStarts(g, t)
  BY <1>1, <1>3 DEF GraphTypeInv, GraphTypeOK, InCall, CallStarts, box
<1>4. CASE CallUnseen(g, t)
  BY <1>1, <1>4 DEF GraphTypeInv, GraphTypeOK, InCall, CallUnseen, box
<1>5. QED
  BY <1>2, <1>3, <1>4

(* The rest of a call keeps the types.                                   *)
LEMMA WaitType ==
  ASSUME GraphTypeInv, NEW g \in Goroutine,
         Push(g) \/ PushRefused(g) \/ Answered(g) \/ TimedOut(g) \/ Return(g)
  PROVE  GraphTypeInv'
<1>1. CASE Push(g)
  <2>1. target[g] \in Actor /\ Call(g) \in Mails
    BY <1>1 DEF GraphTypeInv, InCall, Push, Call, Mails
  <2>2. /\ Append(mailbox[target[g]], Call(g)) \in Seq(Mails)
        /\ <<Call(g)>> \o mailbox[target[g]] \in Seq(Mails)
    BY <2>1, AppendProperties, ConcatProperties DEF GraphTypeInv, GraphTypeOK
  <2>3. mailbox' \in [Actor -> Seq(Mails)]
    BY <1>1, <2>1, <2>2 DEF GraphTypeInv, GraphTypeOK, Push
  <2>4. QED
    BY <1>1, <2>3 DEF GraphTypeInv, GraphTypeOK, InCall, Push, caller
<1>2. CASE PushRefused(g)
  BY <1>2 DEF GraphTypeInv, GraphTypeOK, InCall, PushRefused, caller, box
<1>3. CASE Answered(g)
  BY <1>3 DEF GraphTypeInv, GraphTypeOK, InCall, Answered, caller, box
<1>4. CASE TimedOut(g)
  <2>1. mailbox' \in [Actor -> Seq(Mails)]
    <3>1. target[g] \in Actor /\ mailbox[target[g]] \in Seq(Mails)
      BY <1>4 DEF GraphTypeInv, GraphTypeOK, InCall, TimedOut
    <3>2. \A i \in 1 .. Len(mailbox[target[g]]) :
             RemoveAt(mailbox[target[g]], i) \in Seq(Mails)
      BY <3>1, RemoveAtProperties
    <3>3. \/ mailbox' = mailbox
          \/ \E i \in 1 .. Len(mailbox[target[g]]) :
               mailbox' = [mailbox EXCEPT ![target[g]] =
                             RemoveAt(mailbox[target[g]], i)]
      BY <1>4 DEF TimedOut
    <3>4. mailbox \in [Actor -> Seq(Mails)]
      BY DEF GraphTypeInv, GraphTypeOK
    <3>5. QED
      BY <3>1, <3>2, <3>3, <3>4
  <2>2. QED
    BY <1>4, <2>1 DEF GraphTypeInv, GraphTypeOK, InCall, TimedOut, caller
<1>5. CASE Return(g)
  BY <1>5 DEF GraphTypeInv, GraphTypeOK, InCall, Return, box
<1>6. QED
  BY <1>1, <1>2, <1>3, <1>4, <1>5

(* Every action keeps the types.                                         *)
LEMMA GraphNextType == GraphTypeInv /\ [GraphNext]_graphVars => GraphTypeInv'
<1>1. SUFFICES ASSUME GraphTypeInv, [GraphNext]_graphVars PROVE GraphTypeInv'
  OBVIOUS
<1>2. CASE UNCHANGED graphVars
  BY <1>1, <1>2 DEF GraphTypeInv, GraphTypeOK, InCall, graphVars
<1>3. CASE GraphNext
  BY <1>1, <1>3, ActorType, CallType, WaitType DEF GraphNext
<1>4. QED
  BY <1>1, <1>2, <1>3

(* Every variable keeps its type.                                          *)
THEOREM GraphTypeCorrect == GraphSpec => []GraphTypeOK
<1>1. GraphTypeInv => GraphTypeOK
  BY DEF GraphTypeInv
<1>2. QED
  BY <1>1, GraphInitType, GraphNextType, PTL DEF GraphSpec
==============================================================================
