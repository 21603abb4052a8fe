---------------------------- MODULE QueueLemmas ----------------------------
(***************************************************************************)
(* Facts about queues: taking an element out of the middle of a sequence,  *)
(* as removeMail and popByID do with the list of mails, and the least      *)
(* element of a set of positions, for the traversals of such a list.  Then *)
(* what the operations of a queue do to its elements and to their being    *)
(* distinct.                                                               *)
(***************************************************************************)
EXTENDS Integers, SequencesExt, SequenceTheorems, FiniteSetTheorems, TLAPS

\* m is an element of the sequence s.
In(m, s) == \E i \in 1 .. Len(s) : s[i] = m

\* No element of s occurs twice.
Distinct(s) == \A i, j \in 1 .. Len(s) : s[i] = s[j] => i = j

(* RemoveAt shortens the sequence by one and closes the gap.               *)
THEOREM RemoveAtProperties ==
  ASSUME NEW S, NEW s \in Seq(S), NEW i \in 1 .. Len(s)
  PROVE  /\ RemoveAt(s, i) \in Seq(S)
         /\ Len(RemoveAt(s, i)) = Len(s) - 1
         /\ \A j \in 1 .. Len(s) - 1 :
              RemoveAt(s, i)[j] = IF j < i THEN s[j] ELSE s[j + 1]
<1> DEFINE front == SubSeq(s, 1, i - 1)
           back  == SubSeq(s, i + 1, Len(s))
<1>0. Len(s) \in Nat /\ i \in Nat
  BY LenProperties
<1>1. /\ front \in Seq(S) /\ Len(front) = i - 1
      /\ \A j \in 1 .. i - 1 : front[j] = s[j]
  BY SubSeqProperties, LenProperties
<1>2. /\ back \in Seq(S) /\ Len(back) = Len(s) - i
      /\ \A j \in 1 .. Len(s) - i : back[j] = s[j + i]
  BY SubSeqProperties, LenProperties
<1>3. RemoveAt(s, i) = front \o back
  BY DEF RemoveAt
<1> HIDE DEF front, back
<1>4. /\ front \o back \in Seq(S)
      /\ Len(front \o back) = Len(s) - 1
  <2>1. /\ front \o back \in Seq(S)
        /\ Len(front \o back) = Len(front) + Len(back)
    BY <1>1, <1>2, ConcatProperties
  <2>2. QED
    BY <1>0, <1>1, <1>2, <2>1
<1>5. ASSUME NEW j \in 1 .. Len(s) - 1
      PROVE  (front \o back)[j] = IF j < i THEN s[j] ELSE s[j + 1]
  <2>1. (front \o back)[j] = IF j <= i - 1 THEN front[j] ELSE back[j - (i - 1)]
    BY <1>1, <1>2, ConcatProperties, LenProperties
  <2>2. CASE j < i
    BY <1>1, <2>1, <2>2
  <2>3. CASE j >= i
    <3>1. j - (i - 1) \in 1 .. Len(s) - i
      BY <2>3, LenProperties
    <3>2. back[j - (i - 1)] = s[j + 1]
      BY <1>2, <3>1, LenProperties
    <3>3. QED
      BY <2>1, <2>3, <3>2
  <2>4. j < i \/ j >= i
    BY <1>0
  <2>5. QED
    BY <2>2, <2>3, <2>4
<1>6. QED
  BY <1>3, <1>4, <1>5

(* A set of natural numbers has a least element: the initial segments of   *)
(* its elements are well-ordered by inclusion.                             *)
THEOREM LeastNatural ==
  ASSUME NEW T \in SUBSET Nat, T # {}
  PROVE  \E n \in T : \A m \in T : n <= m
<1> DEFINE Upto == {1 .. n : n \in T}
           F == FiniteSubsetsOf(Nat)
           R == StrictSubsetOrdering(Nat)
<1>1. IsWellFoundedOn(R, F)
  BY FS_StrictSubsetOrderingWellFounded
<1>2. \A n \in T : 1 .. n \in F
  <2>1. TAKE n \in T
  <2>2. IsFiniteSet(1 .. n)
    BY FS_Interval
  <2>3. QED
    BY <2>2 DEF FiniteSubsetsOf
<1>3. Upto \subseteq F /\ Upto # {}
  BY <1>2
<1>4. \A x, y \in Nat : x < y => <<1 .. x, 1 .. y>> \in R
  <2>1. ASSUME NEW x \in Nat, NEW y \in Nat, x < y
        PROVE  <<1 .. x, 1 .. y>> \in R
    <3>1. 1 .. x \subseteq 1 .. y /\ 1 .. y \subseteq Nat
      BY <2>1
    <3>2. y \in 1 .. y /\ y \notin 1 .. x
      BY <2>1
    <3>3. QED
      BY <3>1, <3>2 DEF StrictSubsetOrdering
  <2>2. QED
    BY <2>1
<1> HIDE DEF F, R
<1>5. PICK s \in Upto : \A u \in Upto : ~ (<<u, s>> \in R)
  <2> HIDE DEF Upto
  <2>1. QED
    BY <1>1, <1>3, WFMin
<1>6. PICK n \in T : s = 1 .. n
  BY <1>5
<1>7. ASSUME NEW m \in T PROVE n <= m
  <2>1. ~ (<<1 .. m, 1 .. n>> \in R)
    BY <1>5, <1>6
  <2>2. m \in Nat /\ n \in Nat
    OBVIOUS
  <2>3. QED
    BY <1>4, <2>1, <2>2
<1>8. QED
  BY <1>7

(* The empty sequence has no elements.                                     *)
THEOREM EmptyQueue == Distinct(<< >>) /\ \A m : ~In(m, << >>)
  BY DEF Distinct, In

(* A push to the tail adds its element.                                    *)
THEOREM AppendElements ==
  ASSUME NEW S, NEW s \in Seq(S), NEW e \in S
  PROVE  /\ Append(s, e) \in Seq(S)
         /\ \A m : In(m, Append(s, e)) => In(m, s) \/ m = e
         /\ Distinct(s) /\ ~In(e, s) => Distinct(Append(s, e))
<1>1. Len(s) \in Nat
  BY LenProperties
<1>2. /\ Append(s, e) \in Seq(S) /\ Len(Append(s, e)) = Len(s) + 1
      /\ \A i \in 1 .. Len(s) : Append(s, e)[i] = s[i]
      /\ Append(s, e)[Len(s) + 1] = e
  BY AppendProperties
<1>3. \A i \in 1 .. Len(s) + 1 : i \in 1 .. Len(s) \/ i = Len(s) + 1
  BY <1>1
<1>4. QED
  BY <1>1, <1>2, <1>3 DEF In, Distinct

(* A push to the head adds its element.                                    *)
THEOREM ConsElements ==
  ASSUME NEW S, NEW s \in Seq(S), NEW e \in S
  PROVE  /\ <<e>> \o s \in Seq(S)
         /\ \A m : In(m, <<e>> \o s) => In(m, s) \/ m = e
         /\ Distinct(s) /\ ~In(e, s) => Distinct(<<e>> \o s)
<1>1. Len(s) \in Nat
  BY LenProperties
<1>2. <<e>> \in Seq(S) /\ Len(<<e>>) = 1 /\ <<e>>[1] = e
  OBVIOUS
<1>3. /\ <<e>> \o s \in Seq(S) /\ Len(<<e>> \o s) = 1 + Len(s)
      /\ \A i \in 1 .. 1 + Len(s) :
           (<<e>> \o s)[i] = IF i <= 1 THEN <<e>>[i] ELSE s[i - 1]
  BY <1>2, ConcatProperties
<1> DEFINE t == <<e>> \o s
<1>4. t[1] = e /\ \A i \in 1 .. Len(t) : i # 1 => t[i] = s[i - 1]
  BY <1>1, <1>2, <1>3
<1>5. \A i \in 1 .. Len(t) : i # 1 => i - 1 \in 1 .. Len(s)
  BY <1>1, <1>3
<1>6. t \in Seq(S) /\ Len(t) \in Nat
  BY <1>1, <1>3
<1> HIDE DEF t
<1>7. \A m : In(m, t) => In(m, s) \/ m = e
  BY <1>4, <1>5 DEF In
<1>8. ASSUME Distinct(s), ~In(e, s) PROVE Distinct(t)
  <2>1. SUFFICES ASSUME NEW i \in 1 .. Len(t), NEW j \in 1 .. Len(t),
                        t[i] = t[j]
                 PROVE  i = j
    BY DEF Distinct
  <2>2. CASE i = 1 \/ j = 1
    BY <1>4, <1>5, <1>8, <2>1, <2>2 DEF In
  <2>3. CASE i # 1 /\ j # 1
    <3>1. i - 1 = j - 1
      BY <1>4, <1>5, <1>8, <2>1, <2>3 DEF Distinct
    <3>2. QED
      BY <1>6, <3>1
  <2>4. QED
    BY <2>2, <2>3
<1>9. QED
  BY <1>6, <1>7, <1>8 DEF t

(* A pop takes the head out, and with it every trace of that element.      *)
THEOREM TailElements ==
  ASSUME NEW S, NEW s \in Seq(S), s # << >>
  PROVE  /\ Tail(s) \in Seq(S) /\ Head(s) \in S /\ In(Head(s), s)
         /\ \A m : In(m, Tail(s)) => In(m, s)
         /\ Distinct(s) => Distinct(Tail(s)) /\ ~In(Head(s), Tail(s))
<1>1. Len(s) \in Nat \ {0}
  BY EmptySeq
<1>2. /\ Tail(s) \in Seq(S) /\ Head(s) \in S /\ Len(Tail(s)) = Len(s) - 1
      /\ \A i \in 1 .. Len(Tail(s)) : Tail(s)[i] = s[i + 1]
  BY HeadTailProperties
<1>3. Head(s) = s[1]
  OBVIOUS
<1>4. \A i \in 1 .. Len(Tail(s)) : i + 1 \in 1 .. Len(s) /\ i + 1 # 1
  BY <1>1, <1>2
<1>5. 1 \in 1 .. Len(s)
  BY <1>1
<1>6. \A i, j \in 1 .. Len(Tail(s)) : i + 1 = j + 1 => i = j
  OBVIOUS
<1>7. In(Head(s), s) /\ \A m : In(m, Tail(s)) => In(m, s)
  BY <1>2, <1>3, <1>4, <1>5 DEF In
<1>8. ASSUME Distinct(s) PROVE Distinct(Tail(s))
  BY <1>2, <1>4, <1>6, <1>8 DEF Distinct
<1>9. ASSUME Distinct(s) PROVE ~In(Head(s), Tail(s))
  BY <1>2, <1>3, <1>4, <1>5, <1>9 DEF Distinct, In
<1>10. QED
  BY <1>2, <1>7, <1>8, <1>9

(* So does taking an element out of the middle; the others stay.           *)
THEOREM RemoveElements ==
  ASSUME NEW S, NEW s \in Seq(S), NEW i \in 1 .. Len(s)
  PROVE  /\ RemoveAt(s, i) \in Seq(S) /\ s[i] \in S
         /\ \A m : In(m, RemoveAt(s, i)) => In(m, s)
         /\ \A m : In(m, s) /\ m # s[i] => In(m, RemoveAt(s, i))
         /\ Distinct(s) => Distinct(RemoveAt(s, i))
                            /\ ~In(s[i], RemoveAt(s, i))
<1> DEFINE t == RemoveAt(s, i)
           from(j) == IF j < i THEN j ELSE j + 1
<1>1. Len(s) \in Nat /\ i \in Nat /\ s[i] \in S
  BY LenProperties, ElementOfSeq
<1>2. /\ t \in Seq(S) /\ Len(t) = Len(s) - 1
      /\ \A j \in 1 .. Len(s) - 1 : t[j] = IF j < i THEN s[j] ELSE s[j + 1]
  BY RemoveAtProperties
<1> HIDE DEF t
<1>3. \A j \in 1 .. Len(t) : t[j] = s[from(j)]
  BY <1>2
<1>4. \A j \in 1 .. Len(t) : from(j) \in 1 .. Len(s) /\ from(j) # i
  BY <1>1, <1>2
<1>5. \A j, k \in 1 .. Len(t) : from(j) = from(k) => j = k
  BY <1>1, <1>2
<1> HIDE DEF from
<1>6. \A m : In(m, t) => In(m, s)
  BY <1>3, <1>4 DEF In
<1>7. ASSUME Distinct(s) PROVE Distinct(t)
  BY <1>3, <1>4, <1>5, <1>7 DEF Distinct
<1>8. ASSUME Distinct(s) PROVE ~In(s[i], t)
  BY <1>3, <1>4, <1>8 DEF Distinct, In
<1>9. ASSUME NEW j \in 1 .. Len(s), s[j] # s[i] PROVE In(s[j], t)
  <2> DEFINE k == IF j < i THEN j ELSE j - 1
  <2>1. k \in 1 .. Len(t) /\ from(k) = j
    BY <1>1, <1>2, <1>9 DEF from
  <2>2. QED
    BY <1>3, <2>1 DEF In
<1>10. \A m : In(m, s) /\ m # s[i] => In(m, t)
  BY <1>9 DEF In
<1>11. QED
  BY <1>1, <1>2, <1>6, <1>7, <1>8, <1>10 DEF t

(* RemoveFirst takes out one occurrence, if there is one.                  *)
THEOREM RemoveFirstCases ==
  ASSUME NEW S, NEW s \in Seq(S), NEW v
  PROVE  \/ ~In(v, s) /\ RemoveFirst(s, v) = s
         \/ \E i \in 1 .. Len(s) :
              s[i] = v /\ RemoveFirst(s, v) = RemoveAt(s, i)
<1>1. CASE ~In(v, s)
  BY <1>1 DEF In, RemoveFirst
<1>2. CASE In(v, s)
  <2> DEFINE I == {i \in 1 .. Len(s) : s[i] = v}
  <2>1. I \in SUBSET Nat /\ I # {}
    BY <1>2 DEF In
  <2>2. Min(I) \in I
    BY <2>1, LeastNatural DEF Min
  <2>3. RemoveFirst(s, v) = RemoveAt(s, Min(I))
    BY <1>2, <2>1 DEF RemoveFirst, SelectInSeq, In
  <2>4. QED
    BY <2>2, <2>3
<1>3. QED
  BY <1>1, <1>2
=============================================================================
