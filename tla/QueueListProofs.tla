---------------------------- MODULE QueueListProofs ----------------------------
(***************************************************************************)
(* The linked lists of queue.c implement the sequences of QueueSpec, for   *)
(* any number of qnodes, any queues, data and keys.                        *)
(*                                                                         *)
(* The inductive invariant is that the queues and the free list are lists  *)
(* that share no qnode and leave none out: there is a function, lists, to  *)
(* the sequences of their qnodes, and head, tail, size and the next fields *)
(* are as they follow from it (Laid).  An operation takes one qnode out of *)
(* a list and puts it into another, so there are lemmas for taking out and *)
(* for putting in, of a sequence, of its links, and of the division of the *)
(* qnodes among the lists.  That a traversal meets the qnodes of the       *)
(* sequence (ChainIs) connects this with QueueList.                        *)
(***************************************************************************)
EXTENDS QueueList, Integers, SequenceTheorems, FunctionTheorems, FiniteSetTheorems, TLAPS

-----------------------------------------------------------------------------
(* A non-empty set of naturals has a least element.                        *)
LEMMA LeastNat ==
  ASSUME NEW S \in SUBSET Nat, S # {}
  PROVE  \E m \in S : \A x \in S : m <= x
<1> DEFINE R == {ss \in Nat \X Nat : ss[1] < ss[2]}
<1>1. IsWellFoundedOn(R, Nat)
  BY NatLessThanWellFounded DEF OpToRel
<1>2. PICK m \in S : \A x \in S : ~ (<<x, m>> \in R)
  BY <1>1, WFMin
<1>3. \A x \in S : ~ (x < m)
  <2> SUFFICES ASSUME NEW x \in S, x < m PROVE FALSE
    OBVIOUS
  <2>1. <<x, m>> \in Nat \X Nat
    OBVIOUS
  <2>2. <<x, m>> \in R
    BY <2>1
  <2> QED
    BY <1>2, <2>2
<1> QED
  BY <1>3

-----------------------------------------------------------------------------
(* The i-th qnode of a list, if there is one, and a list that follows the  *)
(* next fields to the end.                                                 *)
At(s, i) == IF i \in 1 .. Len(s) THEN s[i] ELSE NULL

Linked(nxt, s) == \A i \in 1 .. Len(s) : nxt[s[i]] = At(s, i + 1)

(* Chain, of the next fields that are given.                               *)
ChainFrom(nxt, n) ==
  LET at[i \in Qnode] ==
        IF i = 1 THEN n ELSE IF at[i - 1] = NULL THEN NULL ELSE nxt[at[i - 1]]
      length == Cardinality({i \in Qnode : at[i] # NULL})
  IN  [i \in 1 .. length |-> at[i]]

(* A traversal meets the qnodes of the list, and ends.                     *)
LEMMA ChainIs ==
  ASSUME NEW nxt, NEW s \in Seq(Qnode), Linked(nxt, s), Len(s) <= N_QNODES
  PROVE  ChainFrom(nxt, At(s, 1)) = s
<1> DEFINE n == At(s, 1)
           Rec(f) == [i \in Qnode |-> IF i = 1 THEN n
                                      ELSE IF f[i - 1] = NULL THEN NULL ELSE nxt[f[i - 1]]]
           g == [i \in Qnode |-> At(s, i)]
<1>0. PICK N \in Nat \ {0} : N = N_QNODES
  BY QueueListConstants
<1>1. PICK l \in Nat : l = Len(s)
  OBVIOUS
<1>2. \A i \in 1 .. l : s[i] \in Qnode /\ s[i] # NULL
  BY <1>0, <1>1 DEF Qnode, NULL
<1>3. \A i \in Qnode : g[i] = IF i <= l THEN s[i] ELSE NULL
  BY <1>0, <1>1 DEF At, Qnode
<1>4. \A i \in Qnode \ {1} : i - 1 \in Qnode /\ i \in 1 .. N
  BY <1>0 DEF Qnode
<1>5. \A i \in Qnode \ {1} : g[i] = IF g[i - 1] = NULL THEN NULL ELSE nxt[g[i - 1]]
  <2> SUFFICES ASSUME NEW i \in Qnode \ {1}
               PROVE  g[i] = IF g[i - 1] = NULL THEN NULL ELSE nxt[g[i - 1]]
    OBVIOUS
  <2>1. i - 1 \in Qnode /\ i \in 1 .. N
    BY <1>4
  <2> HIDE DEF g
  <2>2. CASE i - 1 <= l
    <3>1. g[i - 1] = s[i - 1] /\ s[i - 1] # NULL /\ i - 1 \in 1 .. l
      BY <1>0, <1>2, <1>3, <2>1, <2>2 DEF Qnode
    <3>2. nxt[s[i - 1]] = At(s, i - 1 + 1) /\ i - 1 + 1 = i
      BY <1>1, <2>1, <3>1 DEF Linked
    <3>3. g[i] = At(s, i)
      BY DEF g
    <3> QED
      BY <3>1, <3>2, <3>3
  <2>3. CASE ~ (i - 1 <= l)
    <3>1. g[i - 1] = NULL /\ ~ (i <= l)
      BY <1>3, <2>1, <2>3
    <3> QED
      BY <1>3, <3>1
  <2> QED
    BY <2>2, <2>3
<1>6. 1 \in Qnode /\ g[1] = n
  BY <1>0 DEF Qnode
<1>7. g = Rec(g)
  <2>1. \A i \in Qnode : g[i] = Rec(g)[i]
    BY <1>5, <1>6
  <2> QED
    BY <2>1
<1> HIDE DEF g, n
<1>8. ASSUME NEW f, f = Rec(f) PROVE f = g
  <2> DEFINE Bad == {i \in Qnode : f[i] # g[i]}
  <2>1. Bad = {}
    <3> SUFFICES ASSUME Bad # {} PROVE FALSE
      OBVIOUS
    <3>1. Bad \in SUBSET Nat
      BY <1>0 DEF Qnode
    <3>2. PICK m \in Bad : \A x \in Bad : m <= x
      BY <3>1, LeastNat
    <3>3. m \in Qnode /\ f[m] # g[m]
      OBVIOUS
    <3>4. m # 1
      BY <1>6, <1>8, <3>3
    <3>5. m - 1 \in Qnode /\ m \in 1 .. N
      BY <1>4, <3>3, <3>4
    <3>6. m - 1 \notin Bad
      BY <3>2, <3>5
    <3>7. f[m - 1] = g[m - 1]
      BY <3>5, <3>6
    <3>8. f[m] = IF f[m - 1] = NULL THEN NULL ELSE nxt[f[m - 1]]
      BY <1>8, <3>3, <3>4
    <3> QED
      BY <1>5, <3>3, <3>4, <3>7, <3>8
  <2>2. f = [i \in Qnode |-> f[i]]
    BY <1>8
  <2>3. g = [i \in Qnode |-> g[i]]
    BY DEF g
  <2> QED
    BY <2>1, <2>2, <2>3
<1>9. (CHOOSE f : f = Rec(f)) = g
  BY <1>7, <1>8
<1> DEFINE length == Cardinality({i \in Qnode : g[i] # NULL})
<1>10. length = l
  <2>1. \A i \in Qnode : g[i] # NULL <=> i <= l
    <3>1. \A i \in Qnode : i <= l => i \in 1 .. l
      BY <1>0 DEF Qnode
    <3> QED
      BY <1>2, <1>3, <3>1
  <2>2. {i \in Qnode : g[i] # NULL} = 1 .. l
    BY <1>0, <1>1, <2>1 DEF Qnode
  <2>3. Cardinality(1 .. l) = l
    BY FS_Interval
  <2> QED
    BY <2>2, <2>3
<1>11. ChainFrom(nxt, n) = [i \in 1 .. length |-> g[i]]
  <2> DEFINE at == CHOOSE f : f = Rec(f)
  <2>1. ChainFrom(nxt, n) = [i \in 1 .. Cardinality({i \in Qnode : at[i] # NULL}) |-> at[i]]
    BY Zenon DEF ChainFrom
  <2>2. at = g
    BY <1>9
  <2> HIDE DEF at
  <2> QED
    BY <2>1, <2>2, Zenon
<1> HIDE DEF length
<1>12. \A i \in 1 .. l : i \in Qnode /\ g[i] = s[i]
  BY <1>0, <1>1, <1>3 DEF Qnode
<1>13. s = [i \in 1 .. l |-> s[i]]
  BY <1>1
<1> QED
  BY <1>10, <1>11, <1>12, <1>13 DEF n

-----------------------------------------------------------------------------
(* Taking out of a sequence and putting in, place by place.                *)
Out(s, i)   == [j \in 1 .. Len(s) - 1 |-> IF j < i THEN s[j] ELSE s[j + 1]]
In(s, i, e) ==
  [j \in 1 .. Len(s) + 1 |-> IF j < i THEN s[j] ELSE IF j = i THEN e ELSE s[j - 1]]

LEMMA OutSeq ==
  ASSUME NEW S, NEW s \in Seq(S), NEW i \in 1 .. Len(s)
  PROVE  /\ Out(s, i) \in Seq(S) /\ Len(Out(s, i)) = Len(s) - 1
         /\ \A j \in 1 .. Len(s) - 1 : Out(s, i)[j] = IF j < i THEN s[j] ELSE s[j + 1]
<1>1. PICK n \in Nat : n = Len(s)
  OBVIOUS
<1>2. n - 1 \in Nat
  BY <1>1
<1>3. \A j \in 1 .. n - 1 : (IF j < i THEN s[j] ELSE s[j + 1]) \in S
  BY <1>1
<1>4. Out(s, i) \in [1 .. n - 1 -> S]
  BY <1>1, <1>3 DEF Out
<1>5. Out(s, i) \in Seq(S)
  BY <1>2, <1>4, SeqDef
<1>6. Len(Out(s, i)) = n - 1
  BY <1>2, <1>4, <1>5, LenProperties
<1> QED
  BY <1>1, <1>5, <1>6 DEF Out

LEMMA InSeq ==
  ASSUME NEW S, NEW s \in Seq(S), NEW i \in 1 .. Len(s) + 1, NEW e \in S
  PROVE  /\ In(s, i, e) \in Seq(S) /\ Len(In(s, i, e)) = Len(s) + 1
         /\ \A j \in 1 .. Len(s) + 1 :
              In(s, i, e)[j] = IF j < i THEN s[j] ELSE IF j = i THEN e ELSE s[j - 1]
<1>1. PICK n \in Nat : n = Len(s)
  OBVIOUS
<1>2. n + 1 \in Nat
  BY <1>1
<1>3. \A j \in 1 .. n + 1 :
        (IF j < i THEN s[j] ELSE IF j = i THEN e ELSE s[j - 1]) \in S
  BY <1>1
<1>4. In(s, i, e) \in [1 .. n + 1 -> S]
  BY <1>1, <1>3 DEF In
<1>5. In(s, i, e) \in Seq(S)
  BY <1>2, <1>4, SeqDef
<1>6. Len(In(s, i, e)) = n + 1
  BY <1>2, <1>4, <1>5, LenProperties
<1> QED
  BY <1>1, <1>5, <1>6 DEF In

(* They are RemoveAt and InsertAt of the community modules.                *)
LEMMA OutIsRemoveAt ==
  ASSUME NEW S, NEW s \in Seq(S), NEW i \in 1 .. Len(s)
  PROVE  SubSeq(s, 1, i - 1) \o SubSeq(s, i + 1, Len(s)) = Out(s, i)
<1> DEFINE a == SubSeq(s, 1, i - 1)
           b == SubSeq(s, i + 1, Len(s))
<1>0. PICK n \in Nat : n = Len(s)
  OBVIOUS
<1>1. a \in Seq(S) /\ Len(a) = i - 1 /\ \A j \in 1 .. i - 1 : a[j] = s[j]
  OBVIOUS
<1>2. b \in Seq(S) /\ Len(b) = n - i /\ \A j \in 1 .. n - i : b[j] = s[j + i]
  BY <1>0
<1> HIDE DEF a, b
<1>3. PICK c : c = a \o b
  OBVIOUS
<1>4. /\ c \in Seq(S) /\ Len(c) = n - 1
      /\ \A j \in 1 .. n - 1 : c[j] = IF j <= i - 1 THEN a[j] ELSE b[j - (i - 1)]
  <2>1. Len(a) + Len(b) = n - 1
    BY <1>0, <1>1, <1>2
  <2>2. /\ c \in Seq(S) /\ Len(c) = Len(a) + Len(b)
        /\ \A j \in 1 .. Len(a) + Len(b) :
             c[j] = IF j <= Len(a) THEN a[j] ELSE b[j - Len(a)]
    BY <1>1, <1>2, <1>3, ConcatProperties
  <2> QED
    BY <2>1, <2>2, <1>1
<1>5. ASSUME NEW j \in 1 .. n - 1
      PROVE  c[j] = IF j < i THEN s[j] ELSE s[j + 1]
  <2>1. CASE j < i
    <3>1. j \in 1 .. i - 1 /\ c[j] = a[j]
      BY <1>0, <1>4, <2>1
    <3> QED
      BY <1>1, <2>1, <3>1
  <2>2. CASE ~ (j < i)
    <3>1. j - (i - 1) \in 1 .. n - i /\ j - (i - 1) + i = j + 1 /\ c[j] = b[j - (i - 1)]
      BY <1>0, <1>4, <2>2
    <3> QED
      BY <1>2, <2>2, <3>1
  <2> QED
    BY <2>1, <2>2
<1>6. c = [j \in 1 .. n - 1 |-> c[j]]
  BY <1>0, <1>4
<1> QED
  BY <1>0, <1>3, <1>5, <1>6 DEF Out, a, b

LEMMA InIsInsertAt ==
  ASSUME NEW S, NEW s \in Seq(S), NEW i \in 1 .. Len(s) + 1, NEW e \in S
  PROVE  SubSeq(s, 1, i - 1) \o <<e>> \o SubSeq(s, i, Len(s)) = In(s, i, e)
<1> DEFINE a == SubSeq(s, 1, i - 1)
           b == SubSeq(s, i, Len(s))
<1>0. PICK n \in Nat : n = Len(s)
  OBVIOUS
<1>1. a \in Seq(S) /\ Len(a) = i - 1 /\ \A j \in 1 .. i - 1 : a[j] = s[j]
  BY <1>0
<1>2. /\ b \in Seq(S) /\ Len(b) = n - i + 1
      /\ \A j \in 1 .. n - i + 1 : b[j] = s[j + i - 1]
  BY <1>0
<1> HIDE DEF a, b
<1>3. PICK c : c = a \o <<e>>
  OBVIOUS
<1>4. /\ c \in Seq(S) /\ Len(c) = i
      /\ \A j \in 1 .. i : c[j] = IF j < i THEN s[j] ELSE e
  BY <1>0, <1>1, <1>3
<1>5. PICK r : r = c \o b
  OBVIOUS
<1>6. /\ r \in Seq(S) /\ Len(r) = n + 1
      /\ \A j \in 1 .. n + 1 : r[j] = IF j <= i THEN c[j] ELSE b[j - i]
  <2>1. Len(c) + Len(b) = n + 1
    BY <1>0, <1>2, <1>4
  <2>2. /\ r \in Seq(S) /\ Len(r) = Len(c) + Len(b)
        /\ \A j \in 1 .. Len(c) + Len(b) :
             r[j] = IF j <= Len(c) THEN c[j] ELSE b[j - Len(c)]
    BY <1>2, <1>4, <1>5, ConcatProperties
  <2> QED
    BY <2>1, <2>2, <1>4
<1>7. ASSUME NEW j \in 1 .. n + 1
      PROVE  r[j] = IF j < i THEN s[j] ELSE IF j = i THEN e ELSE s[j - 1]
  <2>1. CASE j <= i
    <3>1. j \in 1 .. i /\ r[j] = c[j]
      BY <1>0, <1>6, <2>1
    <3> QED
      BY <1>4, <3>1
  <2>2. CASE ~ (j <= i)
    <3>1. j - i \in 1 .. n - i + 1 /\ j - i + i - 1 = j - 1
      BY <1>0, <2>2
    <3>2. b[j - i] = s[j - 1]
      BY <1>2, <3>1
    <3>3. r[j] = b[j - i]
      BY <1>6, <2>2
    <3> QED
      BY <2>2, <3>2, <3>3
  <2> QED
    BY <2>1, <2>2
<1>8. r = [j \in 1 .. n + 1 |-> r[j]]
  BY <1>0, <1>6
<1> QED
  BY <1>0, <1>3, <1>5, <1>7, <1>8 DEF In, a, b

(* What is at each place, and beyond the end.                              *)
LEMMA AtOut ==
  ASSUME NEW s \in Seq(Qnode), NEW i \in 1 .. Len(s), NEW j \in Nat \ {0}
  PROVE  At(Out(s, i), j) = IF j < i THEN At(s, j) ELSE At(s, j + 1)
<1>1. PICK n \in Nat : n = Len(s)
  OBVIOUS
<1>2. /\ Len(Out(s, i)) = n - 1
      /\ \A k \in 1 .. n - 1 : Out(s, i)[k] = IF k < i THEN s[k] ELSE s[k + 1]
  BY <1>1, OutSeq
<1>3. PICK o : o = Out(s, i)
  OBVIOUS
<1> QED
  BY <1>1, <1>2, <1>3 DEF At

LEMMA AtIn ==
  ASSUME NEW s \in Seq(Qnode), NEW i \in 1 .. Len(s) + 1, NEW e \in Qnode,
         NEW j \in Nat \ {0}
  PROVE  At(In(s, i, e), j) =
           IF j < i THEN At(s, j) ELSE IF j = i THEN e ELSE At(s, j - 1)
<1>1. PICK n \in Nat : n = Len(s)
  OBVIOUS
<1>2. PICK o : o = In(s, i, e)
  OBVIOUS
<1>3. /\ Len(o) = n + 1
      /\ \A k \in 1 .. n + 1 : o[k] = IF k < i THEN s[k] ELSE IF k = i THEN e ELSE s[k - 1]
  BY <1>1, <1>2, InSeq
<1>4. CASE j < i
  BY <1>1, <1>2, <1>3, <1>4 DEF At
<1>5. CASE j = i
  BY <1>1, <1>2, <1>3, <1>5 DEF At
<1>6. CASE j > i
  <2>1. j - 1 \in Nat /\ (j - 1 \in 1 .. n <=> j \in 1 .. n + 1)
    BY <1>1, <1>6
  <2>2. ~ (j < i) /\ j # i
    BY <1>6
  <2> QED
    BY <1>1, <1>2, <1>3, <2>1, <2>2 DEF At
<1> QED
  BY <1>1, <1>4, <1>5, <1>6

(* _qn_dealloc of a qnode that the one before it has skipped.              *)
LEMMA OutLinked ==
  ASSUME NEW nxt, NEW nxt2, NEW s \in Seq(Qnode), NEW i \in 1 .. Len(s), Linked(nxt, s),
         \A j \in 1 .. Len(s) :
           j # i => nxt2[s[j]] = IF j = i - 1 THEN nxt[s[i]] ELSE nxt[s[j]]
  PROVE  Linked(nxt2, Out(s, i))
<1>1. PICK n \in Nat : n = Len(s)
  OBVIOUS
<1>2. /\ Len(Out(s, i)) = n - 1
      /\ \A k \in 1 .. n - 1 : Out(s, i)[k] = IF k < i THEN s[k] ELSE s[k + 1]
  BY <1>1, OutSeq
<1>3. ASSUME NEW j \in 1 .. n - 1
      PROVE  nxt2[Out(s, i)[j]] = At(Out(s, i), j + 1)
  <2>1. At(Out(s, i), j + 1) = IF j + 1 < i THEN At(s, j + 1) ELSE At(s, j + 1 + 1)
    BY AtOut
  <2>2. CASE j < i
    <3>1. j \in 1 .. n /\ j # i /\ (j = i - 1 <=> ~ (j + 1 < i)) /\ (j = i - 1 => i + 1 = j + 1 + 1)
      BY <1>1, <2>2
    <3>2. nxt2[s[j]] = IF j = i - 1 THEN nxt[s[i]] ELSE nxt[s[j]]
      BY <1>1, <3>1
    <3>3. nxt[s[i]] = At(s, i + 1) /\ nxt[s[j]] = At(s, j + 1)
      BY <1>1, <3>1 DEF Linked
    <3> QED
      BY <1>2, <2>1, <2>2, <3>1, <3>2, <3>3
  <2>3. CASE ~ (j < i)
    <3>1. j + 1 \in 1 .. n /\ j + 1 # i /\ j + 1 # i - 1 /\ ~ (j + 1 < i)
      BY <1>1, <2>3
    <3>2. nxt2[s[j + 1]] = nxt[s[j + 1]]
      BY <1>1, <3>1
    <3>3. nxt[s[j + 1]] = At(s, j + 1 + 1)
      BY <1>1, <3>1 DEF Linked
    <3> QED
      BY <1>2, <2>1, <2>3, <3>1, <3>2, <3>3
  <2> QED
    BY <2>2, <2>3
<1> QED
  BY <1>2, <1>3 DEF Linked

(* A qnode is linked between its neighbours.                               *)
LEMMA InLinked ==
  ASSUME NEW nxt, NEW nxt2, NEW s \in Seq(Qnode), NEW i \in 1 .. Len(s) + 1,
         NEW e \in Qnode, Linked(nxt, s),
         \A j \in 1 .. Len(s) : nxt2[s[j]] = IF j = i - 1 THEN e ELSE nxt[s[j]],
         nxt2[e] = At(s, i)
  PROVE  Linked(nxt2, In(s, i, e))
<1>1. PICK n \in Nat : n = Len(s)
  OBVIOUS
<1>2. /\ Len(In(s, i, e)) = n + 1
      /\ \A k \in 1 .. n + 1 :
           In(s, i, e)[k] = IF k < i THEN s[k] ELSE IF k = i THEN e ELSE s[k - 1]
  BY <1>1, InSeq
<1>3. ASSUME NEW j \in 1 .. n + 1
      PROVE  nxt2[In(s, i, e)[j]] = At(In(s, i, e), j + 1)
  <2>1. At(In(s, i, e), j + 1) =
          IF j + 1 < i THEN At(s, j + 1) ELSE IF j + 1 = i THEN e ELSE At(s, j)
    <3>1. j + 1 \in Nat \ {0} /\ j + 1 - 1 = j
      OBVIOUS
    <3> QED
      BY <3>1, AtIn
  <2>2. CASE j < i
    <3>1. j \in 1 .. n /\ j # i /\ (j = i - 1 <=> j + 1 = i) /\ (j # i - 1 => j + 1 < i)
          /\ ~ (i < i)
      BY <1>1, <2>2
    <3>2. nxt2[s[j]] = IF j = i - 1 THEN e ELSE nxt[s[j]]
      BY <1>1, <3>1
    <3>3. nxt[s[j]] = At(s, j + 1)
      BY <1>1, <3>1 DEF Linked
    <3> QED
      BY <1>2, <2>1, <2>2, <3>1, <3>2, <3>3
  <2>3. CASE j = i
    <3>1. ~ (j < i) /\ ~ (j + 1 < i) /\ j + 1 # i
      BY <2>3
    <3> QED
      BY <1>2, <2>1, <2>3, <3>1
  <2>4. CASE j > i
    <3>1. /\ j - 1 \in 1 .. n /\ j - 1 # i - 1 /\ ~ (j < i) /\ j # i
          /\ ~ (j + 1 < i) /\ j + 1 # i /\ j - 1 + 1 = j
      BY <1>1, <2>4
    <3>2. nxt2[s[j - 1]] = nxt[s[j - 1]]
      BY <1>1, <3>1
    <3>3. nxt[s[j - 1]] = At(s, j)
      BY <1>1, <3>1 DEF Linked
    <3> QED
      BY <1>2, <2>1, <3>1, <3>2, <3>3
  <2> QED
    BY <1>1, <2>2, <2>3, <2>4
<1> QED
  BY <1>2, <1>3 DEF Linked

-----------------------------------------------------------------------------
(* The qnodes of S are divided among the queues and the free list.         *)
Pool == CHOOSE x : x \notin Queue
List == Queue \cup {Pool}

Divided(lists, S) ==
  /\ lists \in [List -> Seq(Qnode)]
  /\ \A v, w \in List : \A i \in 1 .. Len(lists[v]) : \A j \in 1 .. Len(lists[w]) :
       lists[v][i] = lists[w][j] => v = w /\ i = j
  /\ \A v \in List : \A i \in 1 .. Len(lists[v]) : lists[v][i] \in S
  /\ \A x \in S : \E v \in List : \E i \in 1 .. Len(lists[v]) : lists[v][i] = x

Taken(lists, v, i) == [lists EXCEPT ![v] = Out(@, i)]
Given(lists, v, i, x) == [lists EXCEPT ![v] = In(@, i, x)]

(* The free list is not one of the queues.                                 *)
LEMMA PoolIsNoQueue == Pool \notin Queue /\ Pool \in List /\ Queue \subseteq List
<1>1. \E x : x \notin Queue
  <2>1. {x \in Queue : x \notin x} \notin Queue
    OBVIOUS
  <2> QED
    BY <2>1
<1> QED
  BY <1>1 DEF Pool, List

LEMMA TakenDivided ==
  ASSUME NEW lists, NEW S, Divided(lists, S),
         NEW v \in List, NEW i \in 1 .. Len(lists[v])
  PROVE  Divided(Taken(lists, v, i), S \ {lists[v][i]})
<1> DEFINE t == Taken(lists, v, i)
           from(w, j) == IF w = v /\ ~ (j < i) THEN j + 1 ELSE j
<1>1. lists \in [List -> Seq(Qnode)]
  BY DEF Divided
<1>2. /\ Out(lists[v], i) \in Seq(Qnode) /\ Len(Out(lists[v], i)) = Len(lists[v]) - 1
      /\ \A j \in 1 .. Len(lists[v]) - 1 :
           Out(lists[v], i)[j] = IF j < i THEN lists[v][j] ELSE lists[v][j + 1]
  <2>1. lists[v] \in Seq(Qnode)
    BY <1>1
  <2> QED
    BY <2>1, OutSeq
<1>3. /\ t \in [List -> Seq(Qnode)] /\ t[v] = Out(lists[v], i)
      /\ \A w \in List \ {v} : t[w] = lists[w]
  BY <1>1, <1>2 DEF Taken
<1>4. \A w \in List : Len(lists[w]) \in Nat
  BY <1>1
<1>5. \A w \in List : \A j \in 1 .. Len(t[w]) :
        /\ from(w, j) \in 1 .. Len(lists[w]) /\ t[w][j] = lists[w][from(w, j)]
        /\ ~ (w = v /\ from(w, j) = i) /\ j \in Nat
  <2> SUFFICES ASSUME NEW w \in List, NEW j \in 1 .. Len(t[w])
               PROVE  /\ from(w, j) \in 1 .. Len(lists[w]) /\ t[w][j] = lists[w][from(w, j)]
                      /\ ~ (w = v /\ from(w, j) = i) /\ j \in Nat
    OBVIOUS
  <2> HIDE DEF t
  <2>1. CASE w = v
    <3>1. Len(t[w]) = Len(lists[v]) - 1 /\ t[w] = Out(lists[v], i)
      BY <1>2, <1>3, <2>1
    <3>2. PICK n \in Nat : n = Len(lists[v])
      BY <1>4
    <3>3. CASE j < i
      BY <1>2, <2>1, <3>1, <3>2, <3>3
    <3>4. CASE ~ (j < i)
      BY <1>2, <2>1, <3>1, <3>2, <3>4
    <3> QED
      BY <3>3, <3>4
  <2>2. CASE w # v
    BY <1>3, <1>4, <2>2
  <2> QED
    BY <2>1, <2>2
<1>6. \A w \in List : \A k \in 1 .. Len(lists[w]) :
        ~ (w = v /\ k = i) => \E j \in 1 .. Len(t[w]) : from(w, j) = k
  <2> SUFFICES ASSUME NEW w \in List, NEW k \in 1 .. Len(lists[w]), ~ (w = v /\ k = i)
               PROVE  \E j \in 1 .. Len(t[w]) : from(w, j) = k
    OBVIOUS
  <2> HIDE DEF t
  <2>1. CASE w = v
    <3>1. PICK n \in Nat : n = Len(lists[v])
      BY <1>4
    <3>2. Len(t[w]) = n - 1
      BY <1>2, <1>3, <2>1, <3>1
    <3>3. CASE k < i
      <4>1. k \in 1 .. n - 1
        BY <2>1, <3>1, <3>3
      <4> QED
        BY <2>1, <3>2, <3>3, <4>1
    <3>4. CASE k > i
      <4>1. k - 1 \in 1 .. n - 1 /\ ~ (k - 1 < i) /\ k - 1 + 1 = k
        BY <2>1, <3>1, <3>4
      <4> QED
        BY <2>1, <3>2, <4>1
    <3> QED
      BY <2>1, <3>1, <3>3, <3>4
  <2>2. CASE w # v
    BY <1>3, <2>2
  <2> QED
    BY <2>1, <2>2
<1>7. \A w \in List : \A j, k \in Nat : from(w, j) = from(w, k) => j = k
  OBVIOUS
<1> HIDE DEF t, from
<1>8. ASSUME NEW w \in List, NEW u \in List, NEW j \in 1 .. Len(t[w]), NEW k \in 1 .. Len(t[u]),
             t[w][j] = t[u][k]
      PROVE  w = u /\ j = k
  <2>1. lists[w][from(w, j)] = lists[u][from(u, k)]
    BY <1>5, <1>8
  <2>2. w = u /\ from(w, j) = from(u, k)
    BY <1>5, <2>1 DEF Divided
  <2> QED
    BY <1>5, <1>7, <2>2
<1>9. ASSUME NEW w \in List, NEW j \in 1 .. Len(t[w])
      PROVE  t[w][j] \in S \ {lists[v][i]}
  <2>1. lists[w][from(w, j)] \in S
    BY <1>5 DEF Divided
  <2>2. lists[w][from(w, j)] # lists[v][i]
    BY <1>5 DEF Divided
  <2> QED
    BY <1>5, <2>1, <2>2
<1>10. ASSUME NEW x \in S \ {lists[v][i]}
       PROVE  \E w \in List : \E j \in 1 .. Len(t[w]) : t[w][j] = x
  <2>0. PICK w \in List : \E k \in 1 .. Len(lists[w]) : lists[w][k] = x
    BY DEF Divided
  <2>1. PICK k \in 1 .. Len(lists[w]) : lists[w][k] = x
    BY <2>0
  <2>2. PICK j \in 1 .. Len(t[w]) : from(w, j) = k
    BY <1>6, <2>1
  <2> QED
    BY <1>5, <2>1, <2>2
<1>11. Divided(t, S \ {lists[v][i]})
  BY <1>3, <1>8, <1>9, <1>10 DEF Divided
<1> QED
  BY <1>11 DEF t

LEMMA GivenDivided ==
  ASSUME NEW lists, NEW S, Divided(lists, S), NEW x \in Qnode \ S,
         NEW v \in List, NEW i \in 1 .. Len(lists[v]) + 1
  PROVE  Divided(Given(lists, v, i, x), S \cup {x})
<1> DEFINE t == Given(lists, v, i, x)
           to(w, j) == IF w = v /\ ~ (j < i) THEN j + 1 ELSE j
<1>1. lists \in [List -> Seq(Qnode)]
  BY DEF Divided
<1>2. /\ In(lists[v], i, x) \in Seq(Qnode) /\ Len(In(lists[v], i, x)) = Len(lists[v]) + 1
      /\ \A j \in 1 .. Len(lists[v]) + 1 :
           In(lists[v], i, x)[j] =
             IF j < i THEN lists[v][j] ELSE IF j = i THEN x ELSE lists[v][j - 1]
  <2>1. PICK s \in Seq(Qnode) : s = lists[v]
    BY <1>1
  <2>2. x \in Qnode /\ i \in 1 .. Len(s) + 1
    BY <2>1
  <2> QED
    BY <2>1, <2>2, InSeq
<1>3. /\ t \in [List -> Seq(Qnode)] /\ t[v] = In(lists[v], i, x)
      /\ \A w \in List \ {v} : t[w] = lists[w]
  BY <1>1, <1>2 DEF Given
<1>4. \A w \in List : Len(lists[w]) \in Nat
  BY <1>1
(* Whatever was there still is, one place further on if it comes after x.  *)
<1>5. \A w \in List : \A k \in 1 .. Len(lists[w]) :
        to(w, k) \in 1 .. Len(t[w]) /\ t[w][to(w, k)] = lists[w][k] /\ k \in Nat
  <2> SUFFICES ASSUME NEW w \in List, NEW k \in 1 .. Len(lists[w])
               PROVE  to(w, k) \in 1 .. Len(t[w]) /\ t[w][to(w, k)] = lists[w][k] /\ k \in Nat
    OBVIOUS
  <2> HIDE DEF t
  <2>1. CASE w = v
    <3>1. PICK n \in Nat : n = Len(lists[v])
      BY <1>4
    <3>2. Len(t[w]) = n + 1 /\ t[w] = In(lists[v], i, x)
      BY <1>2, <1>3, <2>1, <3>1
    <3>3. CASE k < i
      BY <1>2, <2>1, <3>1, <3>2, <3>3
    <3>4. CASE ~ (k < i)
      <4>1. k + 1 \in 1 .. n + 1 /\ ~ (k + 1 < i) /\ k + 1 # i /\ k + 1 - 1 = k
        BY <2>1, <3>1, <3>4
      <4> QED
        BY <1>2, <2>1, <3>1, <3>2, <3>4, <4>1
    <3> QED
      BY <3>3, <3>4
  <2>2. CASE w # v
    BY <1>3, <1>4, <2>2
  <2> QED
    BY <2>1, <2>2
<1>6. \A w \in List : \A j \in 1 .. Len(t[w]) :
        \/ w = v /\ j = i /\ t[w][j] = x
        \/ \E k \in 1 .. Len(lists[w]) : to(w, k) = j
  <2> SUFFICES ASSUME NEW w \in List, NEW j \in 1 .. Len(t[w])
               PROVE  \/ w = v /\ j = i /\ t[w][j] = x
                      \/ \E k \in 1 .. Len(lists[w]) : to(w, k) = j
    OBVIOUS
  <2> HIDE DEF t
  <2>1. CASE w = v
    <3>1. PICK n \in Nat : n = Len(lists[v])
      BY <1>4
    <3>2. Len(t[w]) = n + 1 /\ t[w] = In(lists[v], i, x)
      BY <1>2, <1>3, <2>1, <3>1
    <3>3. CASE j < i
      <4>1. j \in 1 .. n
        BY <3>1, <3>2, <3>3
      <4> QED
        BY <2>1, <3>1, <3>3, <4>1
    <3>4. CASE j = i
      BY <1>2, <2>1, <3>1, <3>2, <3>4
    <3>5. CASE j > i
      <4>1. j - 1 \in 1 .. n /\ ~ (j - 1 < i) /\ j - 1 + 1 = j
        BY <3>1, <3>2, <3>5
      <4> QED
        BY <2>1, <3>1, <4>1
    <3> QED
      BY <3>1, <3>2, <3>3, <3>4, <3>5
  <2>2. CASE w # v
    BY <1>3, <2>2
  <2> QED
    BY <2>1, <2>2
<1>7. i \in 1 .. Len(t[v]) /\ t[v][i] = x
  <2>1. PICK n \in Nat : n = Len(lists[v])
    BY <1>4
  <2> HIDE DEF t
  <2> QED
    BY <1>2, <1>3, <2>1
<1> HIDE DEF t, to
<1>8. \A w \in List : \A k \in 1 .. Len(lists[w]) : lists[w][k] # x
  BY DEF Divided
<1>9. ASSUME NEW w \in List, NEW u \in List, NEW j \in 1 .. Len(t[w]), NEW k \in 1 .. Len(t[u]),
             t[w][j] = t[u][k]
      PROVE  w = u /\ j = k
  <2>1. CASE t[w][j] = x
    <3>1. ASSUME NEW r \in List, NEW m \in 1 .. Len(t[r]), t[r][m] = x
          PROVE  r = v /\ m = i
      <4>1. ASSUME NEW o \in 1 .. Len(lists[r]), to(r, o) = m PROVE FALSE
        <5>1. t[r][m] = lists[r][o]
          BY <1>5, <4>1
        <5> QED
          BY <1>8, <3>1, <5>1
      <4> QED
        BY <1>6, <4>1
    <3>2. w = v /\ j = i
      BY <2>1, <3>1
    <3>3. u = v /\ k = i
      BY <1>9, <2>1, <3>1
    <3> QED
      BY <3>2, <3>3
  <2>2. CASE t[w][j] # x
    <3>1. PICK a \in 1 .. Len(lists[w]) : to(w, a) = j
      BY <1>6, <2>2
    <3>2. PICK b \in 1 .. Len(lists[u]) : to(u, b) = k
      BY <1>6, <1>9, <2>2
    <3>3. lists[w][a] = lists[u][b]
      BY <1>5, <1>9, <3>1, <3>2
    <3>4. w = u /\ a = b
      BY <3>3 DEF Divided
    <3> QED
      BY <3>1, <3>2, <3>4
  <2> QED
    BY <2>1, <2>2
<1>10. ASSUME NEW w \in List, NEW j \in 1 .. Len(t[w])
       PROVE  t[w][j] \in S \cup {x}
  <2>1. CASE t[w][j] = x
    BY <2>1
  <2>2. CASE t[w][j] # x
    <3>1. PICK a \in 1 .. Len(lists[w]) : to(w, a) = j
      BY <1>6, <2>2
    <3>2. lists[w][a] \in S
      BY DEF Divided
    <3> QED
      BY <1>5, <3>1, <3>2
  <2> QED
    BY <2>1, <2>2
<1>11. ASSUME NEW y \in S \cup {x}
       PROVE  \E w \in List : \E j \in 1 .. Len(t[w]) : t[w][j] = y
  <2>1. CASE y = x
    BY <1>7, <2>1
  <2>2. CASE y \in S
    <3>1. PICK w \in List : \E k \in 1 .. Len(lists[w]) : lists[w][k] = y
      BY <2>2 DEF Divided
    <3>2. PICK k \in 1 .. Len(lists[w]) : lists[w][k] = y
      BY <3>1
    <3> QED
      BY <1>5, <3>2
  <2> QED
    BY <2>1, <2>2
<1>12. Divided(t, S \cup {x})
  BY <1>3, <1>9, <1>10, <1>11 DEF Divided
<1> QED
  BY <1>12 DEF t

(* A qnode moves from one list to another.                                 *)
Moved(lists, v, i, w, j) == Given(Taken(lists, v, i), w, j, lists[v][i])

LEMMA MovedDivided ==
  ASSUME NEW lists, Divided(lists, Qnode), NEW v \in List, NEW w \in List, v # w,
         NEW i \in 1 .. Len(lists[v]), NEW j \in 1 .. Len(lists[w]) + 1
  PROVE  LET lists2 == Moved(lists, v, i, w, j) IN
         /\ Divided(lists2, Qnode)
         /\ lists2[v] = Out(lists[v], i) /\ lists2[w] = In(lists[w], j, lists[v][i])
         /\ \A u \in List \ {v, w} : lists2[u] = lists[u]
<1> DEFINE t == Taken(lists, v, i)
           x == lists[v][i]
<1>1. lists \in [List -> Seq(Qnode)] /\ x \in Qnode
  BY DEF Divided
<1>2. t[v] = Out(lists[v], i) /\ \A u \in List \ {v} : t[u] = lists[u]
  BY <1>1 DEF Taken
<1>3. Divided(t, Qnode \ {x})
  BY TakenDivided
<1>4. t \in [List -> Seq(Qnode)]
  BY <1>3 DEF Divided
<1>5. j \in 1 .. Len(t[w]) + 1
  BY <1>2
<1> HIDE DEF t, x
<1>6. Divided(Given(t, w, j, x), (Qnode \ {x}) \cup {x})
  BY <1>1, <1>3, <1>5, GivenDivided
<1>7. (Qnode \ {x}) \cup {x} = Qnode
  BY <1>1
<1>8. /\ Given(t, w, j, x)[w] = In(t[w], j, x)
      /\ \A u \in List \ {w} : Given(t, w, j, x)[u] = t[u]
  BY <1>4 DEF Given
<1> QED
  BY <1>2, <1>6, <1>7, <1>8 DEF Moved, t, x

LEMMA DividedAt ==
  ASSUME NEW lists, Divided(lists, Qnode), NEW u \in List, NEW k \in 1 .. Len(lists[u]),
         NEW z \in List, NEW m \in Nat
  PROVE  lists[u][k] \in Qnode /\ (lists[u][k] = At(lists[z], m) <=> u = z /\ k = m)
<1>1. lists[u][k] \in Qnode /\ NULL \notin Qnode
  BY QueueListConstants DEF Divided, Qnode, NULL
<1>2. CASE m \in 1 .. Len(lists[z])
  <2>1. lists[u][k] = lists[z][m] => u = z /\ k = m
    <3>1. \A i \in 1 .. Len(lists[u]) : \A j \in 1 .. Len(lists[z]) :
            lists[u][i] = lists[z][j] => u = z /\ i = j
      BY Zenon DEF Divided
    <3> QED
      BY <1>2, <3>1
  <2> QED
    BY <1>1, <1>2, <2>1 DEF At
<1>3. CASE m \notin 1 .. Len(lists[z])
  BY <1>1, <1>3 DEF At
<1> QED
  BY <1>2, <1>3

(* Its next field, and that of the qnodes before it, in the list that it   *)
(* leaves and in the one that it enters.                                   *)
Relinked(nxt, nxt2, lists, v, i, w, j) ==
  LET x == lists[v][i] IN
  /\ nxt2[x] = At(lists[w], j)
  /\ \A n \in Qnode \ {x} :
       nxt2[n] = IF n = At(lists[v], i - 1) THEN nxt[x]
                 ELSE IF n = At(lists[w], j - 1) THEN x ELSE nxt[n]

LEMMA MovedLinked ==
  ASSUME NEW nxt, NEW nxt2, NEW lists,
         Divided(lists, Qnode), \A u \in List : Linked(nxt, lists[u]),
         NEW v \in List, NEW w \in List, v # w,
         NEW i \in 1 .. Len(lists[v]), NEW j \in 1 .. Len(lists[w]) + 1,
         Relinked(nxt, nxt2, lists, v, i, w, j)
  PROVE  \A u \in List : Linked(nxt2, Moved(lists, v, i, w, j)[u])
<1> DEFINE x == lists[v][i]
<1>1. \A u \in List : lists[u] \in Seq(Qnode) /\ Len(lists[u]) \in Nat
  BY DEF Divided
<1>2. x \in Qnode /\ i - 1 \in Nat /\ j - 1 \in Nat
  BY <1>1 DEF Divided
<1>3. \A u \in List : \A k \in 1 .. Len(lists[u]) :
        /\ lists[u][k] \in Qnode
        /\ lists[u][k] = x <=> u = v /\ k = i
        /\ lists[u][k] = At(lists[v], i - 1) <=> u = v /\ k = i - 1
        /\ lists[u][k] = At(lists[w], j - 1) <=> u = w /\ k = j - 1
  <2> SUFFICES ASSUME NEW u \in List, NEW k \in 1 .. Len(lists[u])
               PROVE  /\ lists[u][k] \in Qnode
                      /\ lists[u][k] = x <=> u = v /\ k = i
                      /\ lists[u][k] = At(lists[v], i - 1) <=> u = v /\ k = i - 1
                      /\ lists[u][k] = At(lists[w], j - 1) <=> u = w /\ k = j - 1
    OBVIOUS
  <2>1. lists[u][k] = x <=> u = v /\ k = i
    BY DEF Divided
  <2>2. lists[u][k] \in Qnode /\ (lists[u][k] = At(lists[v], i - 1) <=> u = v /\ k = i - 1)
    BY <1>2, DividedAt
  <2>3. lists[u][k] = At(lists[w], j - 1) <=> u = w /\ k = j - 1
    BY <1>2, DividedAt
  <2> QED
    BY <2>1, <2>2, <2>3
<1>4. /\ nxt2[x] = At(lists[w], j)
      /\ \A n \in Qnode \ {x} :
           nxt2[n] = IF n = At(lists[v], i - 1) THEN nxt[x]
                     ELSE IF n = At(lists[w], j - 1) THEN x ELSE nxt[n]
  BY DEF Relinked
<1> DEFINE t == Moved(lists, v, i, w, j)
<1>5. /\ t[v] = Out(lists[v], i) /\ t[w] = In(lists[w], j, x)
      /\ \A u \in List \ {v, w} : t[u] = lists[u]
  BY MovedDivided
<1>6. x = lists[v][i]
  OBVIOUS
<1> HIDE DEF x, t
<1>7. Linked(nxt2, t[v])
  <2>1. \A k \in 1 .. Len(lists[v]) :
          k # i => nxt2[lists[v][k]] = IF k = i - 1 THEN nxt[lists[v][i]] ELSE nxt[lists[v][k]]
    BY <1>3, <1>4, <1>6
  <2>2. PICK s \in Seq(Qnode) : s = lists[v]
    BY <1>1
  <2>3. /\ Linked(nxt, s) /\ i \in 1 .. Len(s)
        /\ \A k \in 1 .. Len(s) : k # i => nxt2[s[k]] = IF k = i - 1 THEN nxt[s[i]] ELSE nxt[s[k]]
    BY <2>1, <2>2
  <2>4. Linked(nxt2, Out(s, i))
    BY <2>3, OutLinked
  <2> QED
    BY <1>5, <2>2, <2>4
<1>8. Linked(nxt2, t[w])
  <2>1. \A k \in 1 .. Len(lists[w]) :
          nxt2[lists[w][k]] = IF k = j - 1 THEN x ELSE nxt[lists[w][k]]
    BY <1>3, <1>4
  <2>2. PICK s \in Seq(Qnode) : s = lists[w]
    BY <1>1
  <2>3. /\ Linked(nxt, s) /\ j \in 1 .. Len(s) + 1 /\ nxt2[x] = At(s, j)
        /\ \A k \in 1 .. Len(s) : nxt2[s[k]] = IF k = j - 1 THEN x ELSE nxt[s[k]]
    BY <1>4, <2>1, <2>2
  <2>4. Linked(nxt2, In(s, j, x))
    BY <1>2, <2>3, InLinked
  <2> QED
    BY <1>5, <2>2, <2>4
<1>9. ASSUME NEW u \in List \ {v, w} PROVE Linked(nxt2, t[u])
  <2>1. \A k \in 1 .. Len(lists[u]) : nxt2[lists[u][k]] = nxt[lists[u][k]]
    BY <1>3, <1>4
  <2>2. Linked(nxt, lists[u])
    OBVIOUS
  <2>3. Linked(nxt2, lists[u])
    BY <2>1, <2>2 DEF Linked
  <2> QED
    BY <1>5, <2>3
<1> QED
  BY <1>7, <1>8, <1>9 DEF t

(* The pool is used up when every qnode is in a queue.                     *)
LEMMA UsedUp ==
  ASSUME NEW lists, Divided(lists, Qnode)
  PROVE  lists[Pool] = << >> <=>
           Cardinality(UNION {{q} \X (1 .. Len(lists[q])) : q \in Queue}) = N_QNODES
<1> DEFINE P == UNION {{q} \X (1 .. Len(lists[q])) : q \in Queue}
           f == [p \in P |-> lists[p[1]][p[2]]]
<1>1. \A p : p \in P <=> \E q \in Queue : \E i \in 1 .. Len(lists[q]) : p = <<q, i>>
  OBVIOUS
<1> HIDE DEF P
<1>2. Queue \subseteq List /\ Pool \in List /\ Pool \notin Queue
  BY PoolIsNoQueue
<1>3. \A p \in P : f[p] \in Qnode
  BY <1>1, <1>2 DEF Divided
<1>4. \A p, r \in P : f[p] = f[r] => p = r
  <2> SUFFICES ASSUME NEW p \in P, NEW r \in P, f[p] = f[r] PROVE p = r
    OBVIOUS
  <2>1. PICK q \in Queue : \E i \in 1 .. Len(lists[q]) : p = <<q, i>>
    BY <1>1
  <2>2. PICK i \in 1 .. Len(lists[q]) : p = <<q, i>>
    BY <2>1
  <2>3. PICK q2 \in Queue : \E j \in 1 .. Len(lists[q2]) : r = <<q2, j>>
    BY <1>1
  <2>4. PICK j \in 1 .. Len(lists[q2]) : r = <<q2, j>>
    BY <2>3
  <2>5. lists[q][i] = lists[q2][j]
    BY <2>2, <2>4
  <2>6. q = q2 /\ i = j
    BY <1>2, <2>5 DEF Divided
  <2> QED
    BY <2>2, <2>4, <2>6
<1>5. f \in Injection(P, Qnode)
  BY <1>3, <1>4 DEF Injection, IsInjective
<1>6. IsFiniteSet(Qnode) /\ Cardinality(Qnode) = N_QNODES
  <2>1. N_QNODES \in Nat /\ N_QNODES > 0
    BY QueueListConstants
  <2> QED
    BY <2>1, FS_Interval DEF Qnode
<1>7. Cardinality(P) = N_QNODES <=> f \in Surjection(P, Qnode)
  BY <1>5, <1>6, FS_Injection
<1>8. f \in Surjection(P, Qnode) <=> \A n \in Qnode : \E p \in P : f[p] = n
  BY <1>3 DEF Surjection
<1>9. ASSUME lists[Pool] = << >>, NEW n \in Qnode PROVE \E p \in P : f[p] = n
  <2>1. PICK v \in List : \E i \in 1 .. Len(lists[v]) : lists[v][i] = n
    BY DEF Divided
  <2>2. PICK i \in 1 .. Len(lists[v]) : lists[v][i] = n
    BY <2>1
  <2>3. v # Pool
    BY <1>9, <2>2
  <2>4. v \in Queue
    BY <2>3 DEF List
  <2>5. <<v, i>> \in P
    BY <1>1, <2>4
  <2>6. f[<<v, i>>] = n
    BY <2>2, <2>5
  <2> QED
    BY <2>5, <2>6
<1>10. ASSUME lists[Pool] # << >>, \A n \in Qnode : \E p \in P : f[p] = n PROVE FALSE
  <2>1. lists[Pool] \in Seq(Qnode)
    BY <1>2 DEF Divided
  <2>2. 1 \in 1 .. Len(lists[Pool])
    BY <1>10, <2>1
  <2>3. lists[Pool][1] \in Qnode
    BY <2>1, <2>2
  <2>4. PICK p \in P : f[p] = lists[Pool][1]
    BY <1>10, <2>3
  <2>5. PICK q \in Queue : \E i \in 1 .. Len(lists[q]) : p = <<q, i>>
    BY <1>1
  <2>6. PICK i \in 1 .. Len(lists[q]) : p = <<q, i>>
    BY <2>5
  <2>7. lists[q][i] = lists[Pool][1]
    BY <2>4, <2>6
  <2> QED
    BY <1>2, <2>2, <2>7 DEF Divided
<1> HIDE DEF f
<1>11. lists[Pool] = << >> <=> Cardinality(P) = N_QNODES
  BY <1>7, <1>8, <1>9, <1>10
<1> QED
  BY <1>11 DEF P

-----------------------------------------------------------------------------
(* The fields of a queue, and the data it holds, follow from its list.     *)
Ends(s) == [head |-> At(s, 1), tail |-> At(s, Len(s)), size |-> Len(s)]

ContentsOf(dat, lists) == [q \in Queue |-> [i \in 1 .. Len(lists[q]) |-> dat[lists[q][i]]]]

(* The memory is laid out as lists says.                                   *)
Laid(nxt, dat, fr, qs, lists) ==
  /\ nxt \in [Qnode -> Qnode \cup {NULL}] /\ dat \in [Qnode -> Data \cup {NULL}]
  /\ Divided(lists, Qnode)
  /\ \A v \in List : Linked(nxt, lists[v])
  /\ fr = At(lists[Pool], 1)
  /\ qs = [q \in Queue |-> Ends(lists[q])]
  /\ \A q \in Queue : \A i \in 1 .. Len(lists[q]) : dat[lists[q][i]] \in Data

(* The inductive invariant.                                                *)
QueueInv == \E lists : Laid(next, data, free, que, lists)

LEMMA ListsFit ==
  ASSUME NEW lists, Divided(lists, Qnode), NEW v \in List
  PROVE  lists[v] \in Seq(Qnode) /\ Len(lists[v]) <= N_QNODES
<1>1. PICK n \in Nat : n = Len(lists[v])
  BY DEF Divided
<1>2. lists[v] \in [1 .. n -> Qnode]
  BY <1>1 DEF Divided
<1>3. lists[v] \in Injection(1 .. n, Qnode)
  <2>1. \A i \in 1 .. Len(lists[v]) : \A j \in 1 .. Len(lists[v]) :
          lists[v][i] = lists[v][j] => i = j
    BY Zenon DEF Divided
  <2> QED
    BY <1>1, <1>2, <2>1 DEF Injection, IsInjective
<1>4. N_QNODES \in Nat /\ N_QNODES > 0
  BY QueueListConstants
<1>5. IsFiniteSet(Qnode) /\ Cardinality(Qnode) = N_QNODES
  BY <1>4, FS_Interval DEF Qnode
<1>6. Cardinality(1 .. n) = n
  BY FS_Interval
<1>7. Cardinality(1 .. n) <= Cardinality(Qnode)
  BY <1>3, <1>5, FS_Injection
<1> QED
  BY <1>1, <1>5, <1>6, <1>7 DEF Divided

(* What Chain and Contents are then.                                       *)
LEMMA LaidChains ==
  ASSUME NEW nxt, NEW dat, NEW fr, NEW qs, NEW lists, Laid(nxt, dat, fr, qs, lists)
  PROVE  /\ \A q \in Queue : ChainFrom(nxt, qs[q].head) = lists[q]
         /\ [q \in Queue |-> LET list == ChainFrom(nxt, qs[q].head)
                             IN  [i \in DOMAIN list |-> dat[list[i]]]] = ContentsOf(dat, lists)
<1>1. ASSUME NEW q \in Queue
      PROVE  ChainFrom(nxt, qs[q].head) = lists[q] /\ DOMAIN lists[q] = 1 .. Len(lists[q])
  <2>1. q \in List
    BY PoolIsNoQueue
  <2>2. Divided(lists, Qnode) /\ Linked(nxt, lists[q]) /\ qs[q].head = At(lists[q], 1)
    BY <2>1 DEF Laid, Ends
  <2>3. lists[q] \in Seq(Qnode) /\ Len(lists[q]) <= N_QNODES
    BY <2>1, <2>2, ListsFit
  <2>4. ChainFrom(nxt, At(lists[q], 1)) = lists[q]
    BY <2>2, <2>3, ChainIs
  <2> QED
    BY <2>2, <2>3, <2>4
<1>2. [q \in Queue |-> LET list == ChainFrom(nxt, qs[q].head)
                       IN  [i \in DOMAIN list |-> dat[list[i]]]]
        = [q \in Queue |-> [i \in DOMAIN lists[q] |-> dat[lists[q][i]]]]
  BY <1>1
<1>3. [q \in Queue |-> [i \in DOMAIN lists[q] |-> dat[lists[q][i]]]] = ContentsOf(dat, lists)
  BY <1>1 DEF ContentsOf
<1> QED
  BY <1>1, <1>2, <1>3

LEMMA ContentsAre ==
  ASSUME NEW lists, Laid(next, data, free, que, lists)
  PROVE  /\ Contents = ContentsOf(data, lists)
         /\ \A q \in Queue : Chain(que[q].head) = lists[q]
<1>1. \A n : Chain(n) = ChainFrom(next, n)
  BY DEF Chain, ChainFrom
<1> QED
  BY <1>1, LaidChains DEF Contents

LEMMA ContentsBecome ==
  ASSUME NEW lists, Laid(next', data', free', que', lists)
  PROVE  Contents' = ContentsOf(data', lists)
<1>1. Contents' = [q \in Queue |-> LET list == ChainFrom(next', que'[q].head)
                                   IN  [i \in DOMAIN list |-> data'[list[i]]]]
  BY DEF Contents, Chain, ChainFrom
<1>2. [q \in Queue |-> LET list == ChainFrom(next', que'[q].head)
                       IN  [i \in DOMAIN list |-> data'[list[i]]]] = ContentsOf(data', lists)
  BY LaidChains
<1> QED
  BY <1>1, <1>2

LEMMA EndsOut ==
  ASSUME NEW s \in Seq(Qnode), NEW i \in 1 .. Len(s)
  PROVE  Ends(Out(s, i)) = [head |-> IF i = 1 THEN At(s, 2) ELSE At(s, 1),
                            tail |-> IF i = Len(s) THEN At(s, i - 1) ELSE At(s, Len(s)),
                            size |-> Len(s) - 1]
<1>1. PICK n \in Nat : n = Len(s)
  OBVIOUS
<1>2. Len(Out(s, i)) = n - 1
  BY <1>1, OutSeq
<1>3. At(Out(s, i), 1) = IF 1 < i THEN At(s, 1) ELSE At(s, 1 + 1)
  BY AtOut
<1>4. At(Out(s, i), n - 1) = IF i = n THEN At(s, i - 1) ELSE At(s, n)
  <2>1. CASE n = 1
    BY <1>1, <1>2, <2>1 DEF At
  <2>2. CASE n # 1
    <3>1. n - 1 \in Nat \ {0} /\ (n - 1 < i <=> i = n) /\ n - 1 + 1 = n
      BY <1>1, <2>2
    <3>2. At(Out(s, i), n - 1) = IF n - 1 < i THEN At(s, n - 1) ELSE At(s, n - 1 + 1)
      BY <3>1, AtOut
    <3> QED
      BY <3>1, <3>2
  <2> QED
    BY <2>1, <2>2
<1> QED
  BY <1>1, <1>2, <1>3, <1>4 DEF Ends

LEMMA EndsIn ==
  ASSUME NEW s \in Seq(Qnode), NEW i \in 1 .. Len(s) + 1, NEW x \in Qnode
  PROVE  Ends(In(s, i, x)) = [head |-> IF i = 1 THEN x ELSE At(s, 1),
                              tail |-> IF i = Len(s) + 1 THEN x ELSE At(s, Len(s)),
                              size |-> Len(s) + 1]
<1>1. PICK n \in Nat : n = Len(s)
  OBVIOUS
<1>2. Len(In(s, i, x)) = n + 1
  BY <1>1, InSeq
<1>3. At(In(s, i, x), 1) = IF 1 < i THEN At(s, 1) ELSE IF 1 = i THEN x ELSE At(s, 1 - 1)
  BY AtIn
<1>4. At(In(s, i, x), n + 1) =
        IF n + 1 < i THEN At(s, n + 1) ELSE IF n + 1 = i THEN x ELSE At(s, n)
  <2>1. n + 1 \in Nat \ {0} /\ n + 1 - 1 = n
    BY <1>1
  <2> QED
    BY <2>1, AtIn
<1>5. (1 < i <=> i # 1) /\ ~ (n + 1 < i)
  BY <1>1
<1> QED
  BY <1>1, <1>2, <1>3, <1>4, <1>5 DEF Ends

(* The data of a queue are a sequence.                                     *)
LEMMA ContentsSeq ==
  ASSUME NEW nxt, NEW dat, NEW fr, NEW qs, NEW lists, Laid(nxt, dat, fr, qs, lists),
         NEW q \in Queue
  PROVE  /\ ContentsOf(dat, lists)[q] \in Seq(Data)
         /\ Len(ContentsOf(dat, lists)[q]) = Len(lists[q])
         /\ \A i \in 1 .. Len(lists[q]) : ContentsOf(dat, lists)[q][i] = dat[lists[q][i]]
<1>1. q \in List /\ Divided(lists, Qnode)
  BY PoolIsNoQueue DEF Laid
<1>2. PICK n \in Nat : n = Len(lists[q])
  BY <1>1 DEF Divided
<1>3. \A i \in 1 .. n : dat[lists[q][i]] \in Data
  BY <1>2 DEF Laid
<1>4. PICK c : c = ContentsOf(dat, lists)[q]
  OBVIOUS
<1>5. c = [i \in 1 .. n |-> dat[lists[q][i]]]
  BY <1>2, <1>4 DEF ContentsOf
<1>6. c \in [1 .. n -> Data]
  BY <1>3, <1>5
<1>7. c \in Seq(Data)
  BY <1>6, SeqDef
<1>8. Len(c) = n
  BY <1>6, <1>7, LenProperties
<1> QED
  BY <1>2, <1>4, <1>5, <1>7, <1>8

(* _q_enque puts the first free qnode at place p of a queue.               *)
LEMMA PutContents ==
  ASSUME NEW nxt, NEW dat, NEW fr, NEW qs, NEW lists, Laid(nxt, dat, fr, qs, lists),
         NEW q \in Queue, NEW d \in Data, lists[Pool] # << >>,
         NEW p \in 1 .. Len(lists[q]) + 1
  PROVE  ContentsOf([dat EXCEPT ![lists[Pool][1]] = d], Moved(lists, Pool, 1, q, p))
           = [ContentsOf(dat, lists) EXCEPT ![q] = In(@, p, d)]
<1> DEFINE x == lists[Pool][1]
           dat2 == [dat EXCEPT ![x] = d]
           t == Moved(lists, Pool, 1, q, p)
<1>1. Pool \in List /\ Pool \notin Queue /\ Queue \subseteq List /\ q # Pool
  BY PoolIsNoQueue
<1>2. Divided(lists, Qnode) /\ dat \in [Qnode -> Data \cup {NULL}]
  BY DEF Laid
<1>3. 1 \in 1 .. Len(lists[Pool])
  BY <1>1, <1>2 DEF Divided
<1>4. x \in Qnode /\ \A r \in Queue : \A i \in 1 .. Len(lists[r]) : lists[r][i] \in Qnode /\ lists[r][i] # x
  BY <1>1, <1>2, <1>3 DEF Divided
<1>5. t[q] = In(lists[q], p, x) /\ \A r \in Queue \ {q} : t[r] = lists[r]
  BY <1>1, <1>2, <1>3, MovedDivided
<1>6. dat2[x] = d /\ \A n \in Qnode \ {x} : dat2[n] = dat[n]
  BY <1>2, <1>4
<1> DEFINE c == ContentsOf(dat, lists)
<1>7. /\ c[q] \in Seq(Data) /\ Len(c[q]) = Len(lists[q])
      /\ \A i \in 1 .. Len(lists[q]) : c[q][i] = dat[lists[q][i]]
  BY ContentsSeq
<1>8. lists[q] \in Seq(Qnode)
  BY <1>1, <1>2 DEF Divided
<1>9. \A r \in Queue : c[r] = [i \in 1 .. Len(lists[r]) |-> dat[lists[r][i]]]
  BY DEF ContentsOf
<1>10. c = [r \in Queue |-> c[r]]
  BY DEF ContentsOf
<1>11. ContentsOf(dat2, t) = [r \in Queue |-> [i \in 1 .. Len(t[r]) |-> dat2[t[r][i]]]]
  BY DEF ContentsOf
<1> HIDE DEF x, dat2, t, c
<1>12. [i \in 1 .. Len(t[q]) |-> dat2[t[q][i]]] = In(c[q], p, d)
  <2>1. PICK s \in Seq(Qnode) : s = lists[q]
    BY <1>8
  <2>2. PICK n \in Nat : n = Len(s)
    OBVIOUS
  <2>3. /\ Len(In(s, p, x)) = n + 1
        /\ \A i \in 1 .. n + 1 :
             In(s, p, x)[i] = IF i < p THEN s[i] ELSE IF i = p THEN x ELSE s[i - 1]
    <3>1. p \in 1 .. Len(s) + 1
      BY <2>1
    <3>2. PICK y \in Qnode : y = x
      BY <1>4
    <3>3. /\ Len(In(s, p, y)) = Len(s) + 1
          /\ \A i \in 1 .. Len(s) + 1 :
               In(s, p, y)[i] = IF i < p THEN s[i] ELSE IF i = p THEN y ELSE s[i - 1]
      BY <3>1, InSeq
    <3> QED
      BY <2>2, <3>2, <3>3
  <2>4. ASSUME NEW i \in 1 .. n + 1
        PROVE  dat2[In(s, p, x)[i]] = IF i < p THEN c[q][i] ELSE IF i = p THEN d ELSE c[q][i - 1]
    <3>1. \A k \in 1 .. n : dat2[s[k]] = c[q][k]
      BY <1>4, <1>6, <1>7, <2>1, <2>2
    <3>2. CASE i < p
      <4>1. i \in 1 .. n
        BY <2>1, <2>2, <3>2
      <4> QED
        BY <2>3, <3>1, <3>2, <4>1
    <3>3. CASE i = p
      BY <1>6, <2>3, <3>3
    <3>4. CASE i > p
      <4>1. i - 1 \in 1 .. n /\ ~ (i < p) /\ i # p
        BY <2>1, <2>2, <3>4
      <4> QED
        BY <2>3, <3>1, <4>1
    <3> QED
      BY <2>1, <2>2, <3>2, <3>3, <3>4
  <2>5. [i \in 1 .. n + 1 |-> dat2[In(s, p, x)[i]]]
          = [i \in 1 .. n + 1 |-> IF i < p THEN c[q][i] ELSE IF i = p THEN d ELSE c[q][i - 1]]
    BY <2>4
  <2>6. [i \in 1 .. Len(t[q]) |-> dat2[t[q][i]]] = [i \in 1 .. n + 1 |-> dat2[In(s, p, x)[i]]]
    BY <1>5, <2>1, <2>3
  <2>7. In(c[q], p, d)
          = [i \in 1 .. n + 1 |-> IF i < p THEN c[q][i] ELSE IF i = p THEN d ELSE c[q][i - 1]]
    BY <1>7, <2>1, <2>2 DEF In
  <2> QED
    BY <2>5, <2>6, <2>7
<1>13. ASSUME NEW r \in Queue \ {q}
       PROVE  [i \in 1 .. Len(t[r]) |-> dat2[t[r][i]]] = c[r]
  <2>1. t[r] = lists[r] /\ c[r] = [i \in 1 .. Len(lists[r]) |-> dat[lists[r][i]]]
    BY <1>5, <1>9
  <2>2. \A i \in 1 .. Len(lists[r]) : dat2[lists[r][i]] = dat[lists[r][i]]
    BY <1>4, <1>6
  <2> QED
    BY <2>1, <2>2
<1>14. ContentsOf(dat2, t) = [r \in Queue |-> IF r = q THEN In(c[q], p, d) ELSE c[r]]
  BY <1>11, <1>12, <1>13
<1>15. [c EXCEPT ![q] = In(@, p, d)] = [r \in Queue |-> IF r = q THEN In(c[q], p, d) ELSE c[r]]
  BY <1>10
<1> QED
  BY <1>14, <1>15 DEF x, dat2, t, c

LEMMA PutLaid ==
  ASSUME NEW nxt, NEW dat, NEW fr, NEW qs, NEW lists, Laid(nxt, dat, fr, qs, lists),
         NEW q \in Queue, NEW d \in Data, lists[Pool] # << >>,
         NEW p \in 1 .. Len(lists[q]) + 1,
         NEW nxt2 \in [Qnode -> Qnode \cup {NULL}],
         Relinked(nxt, nxt2, lists, Pool, 1, q, p)
  PROVE  Laid(nxt2, [dat EXCEPT ![fr] = d], nxt[fr],
              [qs EXCEPT ![q] = Ends(In(lists[q], p, fr))],
              Moved(lists, Pool, 1, q, p))
<1> DEFINE x == lists[Pool][1]
           t == Moved(lists, Pool, 1, q, p)
           dat2 == [dat EXCEPT ![fr] = d]
           qs2 == [qs EXCEPT ![q] = Ends(In(lists[q], p, fr))]
<1>1. Pool \in List /\ Pool \notin Queue /\ Queue \subseteq List /\ q # Pool
  BY PoolIsNoQueue
<1>2. /\ Divided(lists, Qnode) /\ dat \in [Qnode -> Data \cup {NULL}]
      /\ \A v \in List : Linked(nxt, lists[v])
      /\ fr = At(lists[Pool], 1) /\ qs = [r \in Queue |-> Ends(lists[r])]
      /\ \A r \in Queue : \A i \in 1 .. Len(lists[r]) : dat[lists[r][i]] \in Data
  BY DEF Laid
<1>3. 1 \in 1 .. Len(lists[Pool]) /\ lists[Pool] \in Seq(Qnode)
  BY <1>1, <1>2 DEF Divided
<1>4. fr = x /\ x \in Qnode
  BY <1>2, <1>3 DEF At
<1>5. /\ Divided(t, Qnode)
      /\ t[Pool] = Out(lists[Pool], 1) /\ t[q] = In(lists[q], p, x)
      /\ \A r \in List \ {Pool, q} : t[r] = lists[r]
  BY <1>1, <1>2, <1>3, MovedDivided
<1>6. \A v \in List : Linked(nxt2, t[v])
  BY <1>1, <1>2, <1>3, MovedLinked
<1>7. nxt[fr] = At(t[Pool], 1)
  <2>1. nxt[x] = At(lists[Pool], 1 + 1)
    BY <1>1, <1>2, <1>3 DEF Linked
  <2>2. At(Out(lists[Pool], 1), 1) = At(lists[Pool], 1 + 1)
    BY <1>3, AtOut
  <2> QED
    BY <1>4, <1>5, <2>1, <2>2
<1>8. qs2 = [r \in Queue |-> Ends(t[r])]
  BY <1>1, <1>2, <1>4, <1>5
<1>9. dat2 \in [Qnode -> Data \cup {NULL}]
  BY <1>2
<1>10. ASSUME NEW r \in Queue, NEW i \in 1 .. Len(t[r]) PROVE dat2[t[r][i]] \in Data
  <2>1. t[r][i] \in Qnode
    BY <1>1, <1>5 DEF Divided
  <2>2. CASE t[r][i] = x
    BY <1>2, <1>4, <2>1, <2>2
  <2>3. CASE t[r][i] # x
    <3>1. \E v \in Queue : \E k \in 1 .. Len(lists[v]) : lists[v][k] = t[r][i]
      <4>1. CASE r = q
        <5>1. PICK s \in Seq(Qnode) : s = lists[q]
          BY <1>1, <1>2 DEF Divided
        <5>2. PICK n \in Nat : n = Len(s)
          OBVIOUS
        <5>3. p \in 1 .. Len(s) + 1
          BY <5>1
        <5>4. /\ Len(In(s, p, x)) = n + 1
              /\ \A k \in 1 .. n + 1 :
                   In(s, p, x)[k] = IF k < p THEN s[k] ELSE IF k = p THEN x ELSE s[k - 1]
          BY <1>4, <5>2, <5>3, InSeq
        <5>5. t[r] = In(s, p, x)
          BY <1>5, <4>1, <5>1
        <5> HIDE DEF t
        <5>6. i \in 1 .. n + 1 /\ i # p
          BY <2>3, <5>4, <5>5
        <5>7. CASE i < p
          <6>1. i \in 1 .. n
            BY <5>2, <5>3, <5>7
          <6>2. t[r][i] = s[i]
            BY <5>4, <5>5, <5>6, <5>7
          <6> QED
            BY <5>1, <5>2, <6>1, <6>2
        <5>8. CASE i > p
          <6>1. i - 1 \in 1 .. n /\ ~ (i < p)
            BY <5>2, <5>3, <5>6, <5>8
          <6>2. t[r][i] = s[i - 1]
            BY <5>4, <5>5, <5>6, <6>1
          <6> QED
            BY <5>1, <5>2, <6>1, <6>2
        <5> QED
          BY <5>3, <5>6, <5>7, <5>8
      <4>2. CASE r # q
        <5>1. t[r] = lists[r]
          BY <1>1, <1>5, <4>2
        <5> QED
          BY <5>1
      <4> QED
        BY <4>1, <4>2
    <3>4. dat[t[r][i]] \in Data
      BY <1>2, <3>1
    <3> QED
      BY <1>2, <1>4, <2>1, <2>3, <3>4
  <2> QED
    BY <2>2, <2>3
<1> HIDE DEF x, t, dat2, qs2
<1>11. Laid(nxt2, dat2, nxt[fr], qs2, t)
  BY <1>5, <1>6, <1>7, <1>8, <1>9, <1>10 DEF Laid
<1> QED
  BY <1>11 DEF t, dat2, qs2

(* _q_deque and _q_remove put the i-th qnode of a queue in front of the    *)
(* free list.                                                              *)
LEMMA TakeContents ==
  ASSUME NEW nxt, NEW dat, NEW fr, NEW qs, NEW lists, Laid(nxt, dat, fr, qs, lists),
         NEW q \in Queue, NEW i \in 1 .. Len(lists[q])
  PROVE  ContentsOf([dat EXCEPT ![lists[q][i]] = NULL], Moved(lists, q, i, Pool, 1))
           = [ContentsOf(dat, lists) EXCEPT ![q] = Out(@, i)]
<1> DEFINE x == lists[q][i]
           dat2 == [dat EXCEPT ![x] = NULL]
           t == Moved(lists, q, i, Pool, 1)
           c == ContentsOf(dat, lists)
<1>1. Pool \in List /\ Pool \notin Queue /\ Queue \subseteq List /\ q # Pool
  BY PoolIsNoQueue
<1>2. Divided(lists, Qnode) /\ dat \in [Qnode -> Data \cup {NULL}]
  BY DEF Laid
<1>3. 1 \in 1 .. Len(lists[Pool]) + 1 /\ q \in List
  BY <1>1, <1>2 DEF Divided
<1>4. /\ x \in Qnode
      /\ \A r \in Queue : \A k \in 1 .. Len(lists[r]) : lists[r][k] = x => r = q /\ k = i
  BY <1>1, <1>2, <1>3 DEF Divided
<1>5. t[q] = Out(lists[q], i) /\ \A r \in Queue \ {q} : t[r] = lists[r]
  BY <1>1, <1>2, <1>3, MovedDivided
<1>6. \A n \in Qnode \ {x} : dat2[n] = dat[n]
  BY <1>2, <1>4
<1>7. /\ c[q] \in Seq(Data) /\ Len(c[q]) = Len(lists[q])
      /\ \A k \in 1 .. Len(lists[q]) : c[q][k] = dat[lists[q][k]]
  BY ContentsSeq
<1>8. \A r \in Queue : lists[r] \in Seq(Qnode)
  BY <1>1, <1>2 DEF Divided
<1>9. \A r \in Queue : c[r] = [k \in 1 .. Len(lists[r]) |-> dat[lists[r][k]]]
  BY DEF ContentsOf
<1>10. c = [r \in Queue |-> c[r]]
  BY DEF ContentsOf
<1>11. ContentsOf(dat2, t) = [r \in Queue |-> [k \in 1 .. Len(t[r]) |-> dat2[t[r][k]]]]
  BY DEF ContentsOf
<1>12. \A k \in 1 .. Len(lists[q]) : lists[q][k] \in Qnode
  BY <1>8
<1> HIDE DEF x, dat2, t, c
<1>13. [k \in 1 .. Len(t[q]) |-> dat2[t[q][k]]] = Out(c[q], i)
  <2>1. PICK s \in Seq(Qnode) : s = lists[q]
    BY <1>8
  <2>2. PICK n \in Nat : n = Len(s)
    OBVIOUS
  <2>3. i \in 1 .. Len(s)
    BY <2>1
  <2>4. /\ Len(Out(s, i)) = n - 1
        /\ \A k \in 1 .. n - 1 : Out(s, i)[k] = IF k < i THEN s[k] ELSE s[k + 1]
    BY <2>2, <2>3, OutSeq
  <2>5. \A k \in 1 .. n : k # i => dat2[s[k]] = c[q][k]
    BY <1>4, <1>6, <1>7, <1>12, <2>1, <2>2
  <2>6. ASSUME NEW k \in 1 .. n - 1
        PROVE  dat2[Out(s, i)[k]] = IF k < i THEN c[q][k] ELSE c[q][k + 1]
    <3>1. CASE k < i
      <4>1. k \in 1 .. n /\ k # i
        BY <2>2, <3>1
      <4> QED
        BY <2>4, <2>5, <3>1, <4>1
    <3>2. CASE ~ (k < i)
      <4>1. k + 1 \in 1 .. n /\ k + 1 # i
        BY <2>2, <2>3, <3>2
      <4> QED
        BY <2>4, <2>5, <3>2, <4>1
    <3> QED
      BY <3>1, <3>2
  <2>7. [k \in 1 .. n - 1 |-> dat2[Out(s, i)[k]]]
          = [k \in 1 .. n - 1 |-> IF k < i THEN c[q][k] ELSE c[q][k + 1]]
    BY <2>6
  <2>8. [k \in 1 .. Len(t[q]) |-> dat2[t[q][k]]] = [k \in 1 .. n - 1 |-> dat2[Out(s, i)[k]]]
    BY <1>5, <2>1, <2>4
  <2>9. Out(c[q], i) = [k \in 1 .. n - 1 |-> IF k < i THEN c[q][k] ELSE c[q][k + 1]]
    BY <1>7, <2>1, <2>2 DEF Out
  <2> QED
    BY <2>7, <2>8, <2>9
<1>14. ASSUME NEW r \in Queue \ {q}
       PROVE  [k \in 1 .. Len(t[r]) |-> dat2[t[r][k]]] = c[r]
  <2>1. t[r] = lists[r] /\ c[r] = [k \in 1 .. Len(lists[r]) |-> dat[lists[r][k]]]
    BY <1>5, <1>9
  <2>2. \A k \in 1 .. Len(lists[r]) : lists[r][k] \in Qnode \ {x}
    BY <1>4, <1>8
  <2>3. \A k \in 1 .. Len(lists[r]) : dat2[lists[r][k]] = dat[lists[r][k]]
    BY <1>6, <2>2
  <2> QED
    BY <2>1, <2>3
<1>15. ContentsOf(dat2, t) = [r \in Queue |-> IF r = q THEN Out(c[q], i) ELSE c[r]]
  BY <1>11, <1>13, <1>14
<1>16. [c EXCEPT ![q] = Out(@, i)] = [r \in Queue |-> IF r = q THEN Out(c[q], i) ELSE c[r]]
  BY <1>10
<1> QED
  BY <1>15, <1>16 DEF x, dat2, t, c

LEMMA TakeLaid ==
  ASSUME NEW nxt, NEW dat, NEW fr, NEW qs, NEW lists, Laid(nxt, dat, fr, qs, lists),
         NEW q \in Queue, NEW i \in 1 .. Len(lists[q]),
         NEW nxt2 \in [Qnode -> Qnode \cup {NULL}],
         Relinked(nxt, nxt2, lists, q, i, Pool, 1)
  PROVE  Laid(nxt2, [dat EXCEPT ![lists[q][i]] = NULL], lists[q][i],
              [qs EXCEPT ![q] = Ends(Out(lists[q], i))],
              Moved(lists, q, i, Pool, 1))
<1> DEFINE x == lists[q][i]
           t == Moved(lists, q, i, Pool, 1)
           dat2 == [dat EXCEPT ![x] = NULL]
           qs2 == [qs EXCEPT ![q] = Ends(Out(lists[q], i))]
<1>1. Pool \in List /\ Pool \notin Queue /\ Queue \subseteq List /\ q # Pool /\ q \in List
  BY PoolIsNoQueue
<1>2. /\ Divided(lists, Qnode) /\ dat \in [Qnode -> Data \cup {NULL}]
      /\ \A v \in List : Linked(nxt, lists[v])
      /\ qs = [r \in Queue |-> Ends(lists[r])]
      /\ \A r \in Queue : \A k \in 1 .. Len(lists[r]) : dat[lists[r][k]] \in Data
  BY DEF Laid
<1>3. 1 \in 1 .. Len(lists[Pool]) + 1 /\ lists[Pool] \in Seq(Qnode) /\ lists[q] \in Seq(Qnode)
  BY <1>1, <1>2 DEF Divided
<1>4. x \in Qnode
  BY <1>3
<1>5. /\ Divided(t, Qnode)
      /\ t[q] = Out(lists[q], i) /\ t[Pool] = In(lists[Pool], 1, x)
      /\ \A r \in List \ {Pool, q} : t[r] = lists[r]
  BY <1>1, <1>2, <1>3, MovedDivided
<1>6. \A v \in List : Linked(nxt2, t[v])
  BY <1>1, <1>2, <1>3, MovedLinked
<1>7. x = At(t[Pool], 1)
  <2>1. PICK s \in Seq(Qnode) : s = lists[Pool]
    BY <1>3
  <2>2. At(In(s, 1, x), 1) = IF 1 < 1 THEN At(s, 1) ELSE IF 1 = 1 THEN x ELSE At(s, 1 - 1)
    BY <1>3, <1>4, <2>1, AtIn
  <2> QED
    BY <1>5, <2>1, <2>2
<1>8. qs2 = [r \in Queue |-> Ends(t[r])]
  BY <1>1, <1>2, <1>5
<1>9. dat2 \in [Qnode -> Data \cup {NULL}]
  BY <1>2
<1>10. ASSUME NEW r \in Queue, NEW k \in 1 .. Len(t[r]) PROVE dat2[t[r][k]] \in Data
  <2>1. t[r][k] \in Qnode
    BY <1>1, <1>5 DEF Divided
  <2>2. t[r][k] # x
    <3>1. 1 \in 1 .. Len(t[Pool]) /\ t[Pool][1] = x
      <4>1. \A m : At(t[Pool], 1) # NULL => 1 \in 1 .. Len(t[Pool])
        BY DEF At
      <4>2. x # NULL
        BY <1>4, QueueListConstants DEF Qnode, NULL
      <4> QED
        BY <1>7, <4>1, <4>2 DEF At
    <3> QED
      BY <1>1, <1>5, <3>1 DEF Divided
  <2>3. \E m \in 1 .. Len(lists[r]) : lists[r][m] = t[r][k]
    <3>1. CASE r = q
      <4>1. PICK s \in Seq(Qnode) : s = lists[q]
        BY <1>3
      <4>2. PICK n \in Nat : n = Len(s)
        OBVIOUS
      <4>3. i \in 1 .. Len(s)
        BY <4>1
      <4>4. /\ Len(Out(s, i)) = n - 1
            /\ \A m \in 1 .. n - 1 : Out(s, i)[m] = IF m < i THEN s[m] ELSE s[m + 1]
        BY <4>2, <4>3, OutSeq
      <4>5. t[r] = Out(s, i)
        BY <1>5, <3>1, <4>1
      <4> HIDE DEF t
      <4>6. k \in 1 .. n - 1 /\ k \in 1 .. n /\ k + 1 \in 1 .. n
        BY <4>2, <4>4, <4>5
      <4>7. t[r][k] = s[k] \/ t[r][k] = s[k + 1]
        BY <4>4, <4>5, <4>6
      <4> QED
        BY <3>1, <4>1, <4>2, <4>6, <4>7
    <3>2. CASE r # q
      <4>1. t[r] = lists[r]
        BY <1>1, <1>5, <3>2
      <4> QED
        BY <4>1
    <3> QED
      BY <3>1, <3>2
  <2>4. dat[t[r][k]] \in Data
    BY <1>2, <2>3
  <2> QED
    BY <1>2, <1>4, <2>1, <2>2, <2>4
<1> HIDE DEF x, t, dat2, qs2
<1>11. Laid(nxt2, dat2, x, qs2, t)
  BY <1>5, <1>6, <1>7, <1>8, <1>9, <1>10 DEF Laid
<1> QED
  BY <1>11 DEF x, t, dat2, qs2

-----------------------------------------------------------------------------
(* The initial state.                                                      *)
LEMMA InitLaid == ASSUME Init PROVE QueueInv /\ Abstract!Init
<1> DEFINE down == [i \in 1 .. N_QNODES |-> N_QNODES + 1 - i]
           lists == [v \in List |-> IF v = Pool THEN down ELSE << >>]
<1>1. PICK n \in Nat : n = N_QNODES /\ n > 0
  BY QueueListConstants
<1>2. Pool \in List /\ Pool \notin Queue /\ Queue \subseteq List
  BY PoolIsNoQueue
<1>3. down \in Seq(Qnode) /\ Len(down) = n /\ \A i \in 1 .. n : down[i] = n + 1 - i
  <2>1. down \in [1 .. n -> Qnode]
    BY <1>1 DEF Qnode
  <2> HIDE DEF down
  <2>2. down \in Seq(Qnode)
    BY <2>1, SeqDef
  <2>3. Len(down) = n
    BY <2>1, <2>2, LenProperties
  <2> QED
    BY <1>1, <2>2, <2>3 DEF down
<1> HIDE DEF down
<1>4. /\ lists \in [List -> Seq(Qnode)] /\ lists[Pool] = down
      /\ \A v \in List \ {Pool} : lists[v] = << >>
  BY <1>2, <1>3
<1> HIDE DEF lists
<1>5. \A v \in List \ {Pool} : Len(lists[v]) = 0
  BY <1>4
<1>6. Divided(lists, Qnode)
  <2>1. ASSUME NEW v \in List, NEW i \in 1 .. Len(lists[v])
        PROVE  v = Pool /\ i \in 1 .. n /\ lists[v][i] = n + 1 - i
    BY <1>1, <1>3, <1>4, <1>5
  <2>2. \A v, w \in List : \A i \in 1 .. Len(lists[v]) : \A j \in 1 .. Len(lists[w]) :
          lists[v][i] = lists[w][j] => v = w /\ i = j
    BY <1>1, <2>1
  <2>3. \A v \in List : \A i \in 1 .. Len(lists[v]) : lists[v][i] \in Qnode
    BY <1>1, <2>1 DEF Qnode
  <2>4. ASSUME NEW x \in Qnode
        PROVE  \E v \in List : \E i \in 1 .. Len(lists[v]) : lists[v][i] = x
    <3>1. n + 1 - x \in 1 .. n /\ n + 1 - (n + 1 - x) = x
      BY <1>1 DEF Qnode
    <3>2. Len(lists[Pool]) = n /\ lists[Pool][n + 1 - x] = x
      BY <1>3, <1>4, <3>1
    <3> QED
      BY <1>2, <3>1, <3>2
  <2> QED
    BY <1>4, <2>2, <2>3, <2>4 DEF Divided
<1>7. ASSUME NEW v \in List PROVE Linked(next, lists[v])
  <2>1. CASE v = Pool
    <3>1. ASSUME NEW i \in 1 .. n PROVE next[down[i]] = At(down, i + 1)
      <4>1. n + 1 - i \in Qnode /\ n + 1 - i - 1 = n - i
        BY <1>1 DEF Qnode
      <4>2. next[down[i]] = n - i
        BY <1>3, <4>1 DEF Init
      <4>3. CASE i = n
        BY <1>1, <1>3, <4>2, <4>3 DEF At, NULL
      <4>4. CASE i # n
        <5>1. i + 1 \in 1 .. n /\ n + 1 - (i + 1) = n - i
          BY <1>1, <4>4
        <5> QED
          BY <1>3, <4>2, <5>1 DEF At
      <4> QED
        BY <4>3, <4>4
    <3> QED
      BY <1>3, <1>4, <2>1, <3>1 DEF Linked
  <2>2. CASE v # Pool
    BY <1>5, <2>2 DEF Linked
  <2> QED
    BY <2>1, <2>2
<1>8. free = At(lists[Pool], 1)
  <2>1. 1 \in 1 .. n /\ n + 1 - 1 = n
    BY <1>1
  <2> QED
    BY <1>1, <1>3, <1>4, <2>1 DEF Init, At
<1>9. que = [q \in Queue |-> Ends(lists[q])]
  <2>1. \A q \in Queue : lists[q] = << >>
    BY <1>2, <1>4
  <2>2. Ends(<< >>) = [head |-> NULL, tail |-> NULL, size |-> 0]
    BY DEF Ends, At
  <2> QED
    BY <2>1, <2>2 DEF Init
<1>10. /\ next \in [Qnode -> Qnode \cup {NULL}] /\ data \in [Qnode -> Data \cup {NULL}]
  <2>1. \A x \in Qnode : x - 1 \in Qnode \cup {NULL}
    BY <1>1 DEF Qnode, NULL
  <2> QED
    BY <2>1 DEF Init
<1>11. \A q \in Queue : \A i \in 1 .. Len(lists[q]) : data[lists[q][i]] \in Data
  BY <1>2, <1>5
<1>12. Laid(next, data, free, que, lists)
  BY <1>6, <1>7, <1>8, <1>9, <1>10, <1>11 DEF Laid
<1>13. Contents = [q \in Queue |-> << >>]
  <2>1. Contents = ContentsOf(data, lists)
    BY <1>12, ContentsAre
  <2>2. \A q \in Queue : [i \in 1 .. Len(lists[q]) |-> data[lists[q][i]]] = << >>
    BY <1>2, <1>5
  <2> QED
    BY <2>1, <2>2 DEF ContentsOf
<1> QED
  BY <1>12, <1>13 DEF QueueInv, Init, Abstract!Init

(* What an operation finds in the fields of a queue.                       *)
LEMMA LaidFields ==
  ASSUME NEW lists, Laid(next, data, free, que, lists), NEW q \in Queue
  PROVE  /\ q \in List /\ lists[q] \in Seq(Qnode) /\ Len(lists[q]) \in Nat
         /\ que[q].head = At(lists[q], 1) /\ que[q].tail = At(lists[q], Len(lists[q]))
         /\ que[q].size = Len(lists[q])
         /\ que[q] = [head |-> que[q].head, tail |-> que[q].tail, size |-> que[q].size]
         /\ \A i \in 1 .. Len(lists[q]) : lists[q][i] # NULL
<1>1. q \in List /\ lists[q] \in Seq(Qnode)
  BY PoolIsNoQueue DEF Laid, Divided
<1>2. que[q] = Ends(lists[q])
  BY DEF Laid
<1>3. NULL \notin Qnode
  BY QueueListConstants DEF Qnode, NULL
<1>4. \A i \in 1 .. Len(lists[q]) : lists[q][i] # NULL
  BY <1>1, <1>3
<1> QED
  BY <1>1, <1>2, <1>4 DEF Ends

LEMMA LaidTypes ==
  ASSUME NEW lists, Laid(next, data, free, que, lists)
  PROVE  que \in [Queue -> [head : Qnode \cup {NULL}, tail : Qnode \cup {NULL}, size : Nat]]
<1>1. \A r \in Queue : lists[r] \in Seq(Qnode)
  BY PoolIsNoQueue DEF Laid, Divided
<1>2. que = [r \in Queue |-> Ends(lists[r])]
  BY DEF Laid
<1>3. ASSUME NEW r \in Queue
      PROVE  Ends(lists[r]) \in [head : Qnode \cup {NULL}, tail : Qnode \cup {NULL}, size : Nat]
  <2>1. PICK s \in Seq(Qnode) : s = lists[r]
    BY <1>1
  <2>2. Len(s) \in Nat /\ At(s, 1) \in Qnode \cup {NULL} /\ At(s, Len(s)) \in Qnode \cup {NULL}
    BY DEF At
  <2> QED
    BY <2>1, <2>2 DEF Ends
<1> QED
  BY <1>2, <1>3

(* _q_peek.                                                                *)
LEMMA PeekStep ==
  ASSUME QueueInv, NEW q \in Queue, Peek(q)
  PROVE  QueueInv' /\ Abstract!Peek(q)
<1>1. PICK lists : Laid(next, data, free, que, lists)
  BY DEF QueueInv
<1>2. /\ next' = next /\ data' = data /\ free' = free /\ que' = que
      /\ IF que[q].size = 0 THEN Returns("E_EMPTY_QUEUE", << >>)
         ELSE IF que[q].head = NULL \/ que[q].tail = NULL THEN Returns("panic", << >>)
         ELSE Returns("E_SUCCESS", <<data[que[q].head]>>)
  BY DEF Peek
<1>3. Laid(next', data', free', que', lists)
  BY <1>1, <1>2
<1>4. Contents = ContentsOf(data, lists) /\ Contents' = ContentsOf(data', lists)
  BY <1>1, <1>3, ContentsAre, ContentsBecome
<1>5. Contents' = Contents
  BY <1>2, <1>4
<1>6. /\ Contents[q] \in Seq(Data) /\ Len(Contents[q]) = Len(lists[q])
      /\ \A i \in 1 .. Len(lists[q]) : Contents[q][i] = data[lists[q][i]]
  BY <1>1, <1>4, ContentsSeq
<1>7. /\ que[q].head = At(lists[q], 1) /\ que[q].tail = At(lists[q], Len(lists[q]))
      /\ que[q].size = Len(lists[q]) /\ Len(lists[q]) \in Nat
      /\ \A i \in 1 .. Len(lists[q]) : lists[q][i] # NULL
  BY <1>1, LaidFields
<1>8. Abstract!Peek(q)
  <2>1. CASE Len(lists[q]) = 0
    <3>1. Contents[q] = << >>
      BY <1>6, <2>1
    <3> QED
      BY <1>2, <1>5, <1>7, <2>1, <3>1 DEF Abstract!Peek, Abstract!Returns, Returns
  <2>2. CASE Len(lists[q]) # 0
    <3>1. 1 \in 1 .. Len(lists[q]) /\ Len(lists[q]) \in 1 .. Len(lists[q])
      BY <1>7, <2>2
    <3>2. que[q].head = lists[q][1] /\ que[q].head # NULL /\ que[q].tail # NULL
      BY <1>7, <3>1 DEF At
    <3>3. Contents[q] # << >> /\ Head(Contents[q]) = data[que[q].head]
      BY <1>6, <3>1, <3>2
    <3>4. Returns("E_SUCCESS", <<data[que[q].head]>>)
      BY <1>2, <1>7, <2>2, <3>2
    <3> QED
      BY <1>5, <3>3, <3>4 DEF Abstract!Peek, Abstract!Returns, Returns
  <2> QED
    BY <2>1, <2>2
<1> QED
  BY <1>3, <1>8 DEF QueueInv

-----------------------------------------------------------------------------
(* _q_enque.                                                               *)

(* The entries that d goes before, and where it goes.                      *)
After(c, q, d) ==
  {i \in 1 .. Len(c) : (IF q \in Sorted THEN wakeup[d] ELSE 0)
                         < (IF q \in Sorted THEN wakeup[c[i]] ELSE 0)}
Place(c, q, d) == IF After(c, q, d) = {} THEN Len(c) + 1 ELSE Min(After(c, q, d))

LEMMA PlaceFits ==
  ASSUME NEW c \in Seq(Data), NEW q, NEW d
  PROVE  /\ Place(c, q, d) \in 1 .. Len(c) + 1
         /\ q \notin Sorted => Place(c, q, d) = Len(c) + 1
         /\ After(c, q, d) # {} => Place(c, q, d) \in 1 .. Len(c)
<1>1. PICK n \in Nat : n = Len(c)
  OBVIOUS
<1>2. q \notin Sorted => After(c, q, d) = {}
  BY DEF After
<1>3. CASE After(c, q, d) = {}
  BY <1>1, <1>3 DEF Place
<1>4. CASE After(c, q, d) # {}
  <2>1. PICK S : S = After(c, q, d)
    OBVIOUS
  <2>2. S \in SUBSET (1 .. n)
    BY <1>1, <2>1 DEF After
  <2>3. PICK m \in S : \A x \in S : m <= x
    <3>1. S \in SUBSET Nat /\ S # {}
      BY <1>1, <1>4, <2>1, <2>2
    <3> QED
      BY <3>1, LeastNat
  <2>4. Min(S) \in S
    BY <2>3 DEF Min
  <2> QED
    BY <1>1, <1>2, <1>4, <2>1, <2>2, <2>4 DEF Place
<1> QED
  BY <1>2, <1>3, <1>4

(* The first free qnode is linked between those at the places p - 1 and p. *)
LEMMA PutRelinked ==
  ASSUME NEW nxt \in [Qnode -> Qnode \cup {NULL}], NEW lists, Divided(lists, Qnode),
         NEW q \in Queue, lists[Pool] # << >>, NEW p \in 1 .. Len(lists[q]) + 1
  PROVE  LET x     == lists[Pool][1]
             first == [nxt EXCEPT ![x] = At(lists[q], p)]
             later == [nxt EXCEPT ![x] = At(lists[q], p), ![lists[q][p - 1]] = x]
         IN  /\ first \in [Qnode -> Qnode \cup {NULL}]
             /\ later \in [Qnode -> Qnode \cup {NULL}]
             /\ p = 1 => Relinked(nxt, first, lists, Pool, 1, q, p)
             /\ p # 1 => Relinked(nxt, later, lists, Pool, 1, q, p)
<1> DEFINE x == lists[Pool][1]
           nextQ == At(lists[q], p)
           first == [nxt EXCEPT ![x] = nextQ]
           later == [nxt EXCEPT ![x] = nextQ, ![lists[q][p - 1]] = x]
<1>1. Pool \in List /\ Pool \notin Queue /\ Queue \subseteq List /\ q # Pool /\ q \in List
  BY PoolIsNoQueue
<1>2. lists[Pool] \in Seq(Qnode) /\ lists[q] \in Seq(Qnode)
  BY <1>1 DEF Divided
<1>3. 1 \in 1 .. Len(lists[Pool]) /\ x \in Qnode
  BY <1>2
<1>4. nextQ \in Qnode \cup {NULL}
  BY <1>2 DEF At
<1>5. At(lists[Pool], 1 - 1) = NULL /\ NULL \notin Qnode
  BY QueueListConstants DEF At, Qnode, NULL
<1>6. p = 1 => At(lists[q], p - 1) = NULL
  BY DEF At
<1>7. ASSUME p # 1
      PROVE  /\ p - 1 \in 1 .. Len(lists[q]) /\ At(lists[q], p - 1) = lists[q][p - 1]
             /\ lists[q][p - 1] \in Qnode /\ lists[q][p - 1] # x
  <2>1. PICK n \in Nat : n = Len(lists[q])
    BY <1>2
  <2>2. p - 1 \in 1 .. Len(lists[q])
    BY <1>7, <2>1
  <2>3. lists[q][p - 1] \in Qnode /\ lists[q][p - 1] # x
    <3>1. \A i \in 1 .. Len(lists[q]) : \A j \in 1 .. Len(lists[Pool]) :
            lists[q][i] = lists[Pool][j] => q = Pool
      BY <1>1, Zenon DEF Divided
    <3>2. lists[q][p - 1] # x
      BY <1>1, <1>3, <2>2, <3>1
    <3> QED
      BY <1>2, <2>2, <3>2
  <2> QED
    BY <2>2, <2>3 DEF At
<1> HIDE DEF x, nextQ
<1>8. first \in [Qnode -> Qnode \cup {NULL}] /\ later \in [Qnode -> Qnode \cup {NULL}]
  BY <1>3, <1>4
<1>9. ASSUME p = 1 PROVE Relinked(nxt, first, lists, Pool, 1, q, p)
  <2>1. first[x] = nextQ /\ \A n \in Qnode \ {x} : first[n] = nxt[n]
    BY <1>3
  <2>2. \A n \in Qnode : n # At(lists[Pool], 1 - 1) /\ n # At(lists[q], p - 1)
    BY <1>5, <1>6, <1>9
  <2> HIDE DEF first
  <2> QED
    BY <2>1, <2>2 DEF Relinked, x, nextQ
<1>10. ASSUME p # 1 PROVE Relinked(nxt, later, lists, Pool, 1, q, p)
  <2>1. PICK prev : prev = lists[q][p - 1]
    OBVIOUS
  <2>2. prev \in Qnode /\ prev # x /\ At(lists[q], p - 1) = prev
    BY <1>7, <1>10, <2>1
  <2>3. later = [nxt EXCEPT ![x] = nextQ, ![prev] = x]
    BY <2>1
  <2> HIDE DEF later
  <2>4. later[x] = nextQ /\ \A n \in Qnode \ {x} : later[n] = IF n = prev THEN x ELSE nxt[n]
    BY <1>3, <2>2, <2>3
  <2>5. \A n \in Qnode : n # At(lists[Pool], 1 - 1)
    BY <1>5
  <2> QED
    BY <2>2, <2>4, <2>5 DEF Relinked, x, nextQ
<1> QED
  BY <1>8, <1>9, <1>10 DEF x, nextQ

(* The three ways to put a qnode into a queue put it where d goes.         *)
PutAt(lists, q, d) == Place(ContentsOf(data, lists)[q], q, d)

EnquedAt(lists, q, p) ==
  /\ next' \in [Qnode -> Qnode \cup {NULL}]
  /\ Relinked(next, next', lists, Pool, 1, q, p)
  /\ que' = [que EXCEPT ![q] = Ends(In(lists[q], p, free))]
  /\ Returns("E_SUCCESS", << >>)

(* What they have in common.                                               *)
LEMMA PutWhere ==
  ASSUME NEW lists, Laid(next, data, free, que, lists), NEW q \in Queue, NEW d \in Data,
         free # NULL
  PROVE  /\ PutAt(lists, q, d) \in 1 .. Len(lists[q]) + 1
         /\ q \notin Sorted => PutAt(lists, q, d) = Len(lists[q]) + 1
         /\ lists[Pool] # << >> /\ free = lists[Pool][1] /\ free \in Qnode
<1>1. ContentsOf(data, lists)[q] \in Seq(Data) /\ Len(ContentsOf(data, lists)[q]) = Len(lists[q])
  BY ContentsSeq
<1>2. /\ PutAt(lists, q, d) \in 1 .. Len(lists[q]) + 1
      /\ q \notin Sorted => PutAt(lists, q, d) = Len(lists[q]) + 1
  BY <1>1, PlaceFits DEF PutAt
<1>3. free = At(lists[Pool], 1) /\ lists[Pool] \in Seq(Qnode)
  BY PoolIsNoQueue DEF Laid, Divided
<1>4. 1 \in 1 .. Len(lists[Pool])
  BY <1>3 DEF At
<1> QED
  BY <1>2, <1>3, <1>4 DEF At

LEMMA FirstPuts ==
  ASSUME NEW lists, Laid(next, data, free, que, lists), NEW q \in Queue, NEW d \in Data,
         free # NULL, que[q].size = 0, First(q, free)
  PROVE  EnquedAt(lists, q, PutAt(lists, q, d))
<1> DEFINE p == PutAt(lists, q, d)
<1>1. /\ p \in 1 .. Len(lists[q]) + 1
      /\ lists[Pool] # << >> /\ free = lists[Pool][1] /\ free \in Qnode
  BY PutWhere
<1> HIDE DEF p
<1>2. /\ lists[q] \in Seq(Qnode) /\ Len(lists[q]) = 0
  BY LaidFields
<1>3. p = 1 /\ Len(lists[q]) + 1 = 1 /\ At(lists[q], p) = NULL /\ At(lists[q], 1) = NULL
  BY <1>1, <1>2 DEF At
<1>4. next \in [Qnode -> Qnode \cup {NULL}] /\ Divided(lists, Qnode)
  BY DEF Laid
<1>5. next' = [next EXCEPT ![lists[Pool][1]] = At(lists[q], p)]
  BY <1>1, <1>3 DEF First
<1>6. next' \in [Qnode -> Qnode \cup {NULL}] /\ Relinked(next, next', lists, Pool, 1, q, p)
  BY <1>1, <1>3, <1>4, <1>5, PutRelinked
<1>7. que' = [que EXCEPT ![q] = Ends(In(lists[q], p, free))]
  <2>1. PICK s \in Seq(Qnode) : s = lists[q]
    BY <1>2
  <2>2. p \in 1 .. Len(s) + 1
    BY <1>1, <2>1
  <2>3. Ends(In(s, p, free)) = [head |-> IF p = 1 THEN free ELSE At(s, 1),
                                tail |-> IF p = Len(s) + 1 THEN free ELSE At(s, Len(s)),
                                size |-> Len(s) + 1]
    BY <1>1, <2>2, EndsIn
  <2>4. Ends(In(lists[q], p, free)) = [head |-> free, tail |-> free, size |-> 1]
    BY <1>2, <1>3, <2>1, <2>3
  <2> QED
    BY <2>4 DEF First
<1>8. Returns("E_SUCCESS", << >>)
  BY DEF First
<1> QED
  BY <1>6, <1>7, <1>8 DEF EnquedAt, p

LEMMA AtTailPuts ==
  ASSUME NEW lists, Laid(next, data, free, que, lists), NEW q \in Queue, NEW d \in Data,
         free # NULL, que[q].size # 0, q \notin Sorted, AtTail(q, free)
  PROVE  EnquedAt(lists, q, PutAt(lists, q, d))
<1> DEFINE p == PutAt(lists, q, d)
<1>1. /\ p \in 1 .. Len(lists[q]) + 1 /\ p = Len(lists[q]) + 1
      /\ lists[Pool] # << >> /\ free = lists[Pool][1] /\ free \in Qnode
  BY PutWhere
<1> HIDE DEF p
<1>2. PICK s \in Seq(Qnode) : s = lists[q]
  BY LaidFields
<1>3. PICK n \in Nat : n = Len(s)
  OBVIOUS
<1>4. /\ n # 0 /\ p = n + 1 /\ p \in 1 .. Len(s) + 1 /\ p # 1 /\ p - 1 = n /\ n \in 1 .. n
      /\ que[q].tail = At(s, n) /\ que[q].head = At(s, 1) /\ que[q].size = n
  <2>1. /\ que[q].head = At(lists[q], 1) /\ que[q].tail = At(lists[q], Len(lists[q]))
        /\ que[q].size = Len(lists[q])
    BY LaidFields
  <2>2. que[q].tail = At(s, n) /\ que[q].head = At(s, 1) /\ que[q].size = n
    BY <1>2, <1>3, <2>1
  <2>3. n # 0 /\ p = n + 1
    BY <1>1, <1>2, <1>3, <2>2
  <2> QED
    BY <1>3, <2>2, <2>3
<1>5. At(s, p) = NULL /\ que[q].tail = s[p - 1]
  BY <1>3, <1>4 DEF At
<1>6. next \in [Qnode -> Qnode \cup {NULL}] /\ Divided(lists, Qnode)
  BY DEF Laid
<1>7. next' = [next EXCEPT ![lists[Pool][1]] = At(lists[q], p), ![lists[q][p - 1]] = lists[Pool][1]]
  BY <1>1, <1>2, <1>5 DEF AtTail
<1>8. next' \in [Qnode -> Qnode \cup {NULL}] /\ Relinked(next, next', lists, Pool, 1, q, p)
  BY <1>1, <1>4, <1>6, <1>7, PutRelinked
<1>9. que' = [que EXCEPT ![q] = Ends(In(lists[q], p, free))]
  <2>1. Ends(In(s, p, free)) = [head |-> IF p = 1 THEN free ELSE At(s, 1),
                                tail |-> IF p = Len(s) + 1 THEN free ELSE At(s, Len(s)),
                                size |-> Len(s) + 1]
    BY <1>1, <1>4, EndsIn
  <2>2. Ends(In(lists[q], p, free)) = [head |-> que[q].head, tail |-> free, size |-> que[q].size + 1]
    BY <1>2, <1>3, <1>4, <2>1
  <2>3. que \in [Queue -> [head : Qnode \cup {NULL}, tail : Qnode \cup {NULL}, size : Nat]]
    BY LaidTypes
  <2>4. que' = [que EXCEPT ![q].tail = free, ![q].size = @ + 1]
    BY DEF AtTail
  <2>5. que' = [que EXCEPT ![q] = [head |-> que[q].head, tail |-> free, size |-> que[q].size + 1]]
    BY <2>3, <2>4
  <2> QED
    BY <2>2, <2>5, Zenon
<1>10. Returns("E_SUCCESS", << >>)
  BY DEF AtTail
<1> QED
  BY <1>8, <1>9, <1>10 DEF EnquedAt, p

(* The traversal of a sorted queue stops before the place.                 *)
LEMMA PassedPlace ==
  ASSUME NEW lists, Laid(next, data, free, que, lists), NEW q \in Sorted, NEW d \in Data
  PROVE  Passed(q, d) = PutAt(lists, q, d) - 1
<1> DEFINE c == ContentsOf(data, lists)[q]
           l == lists[q]
<1>1. q \in Queue
  BY QueueListConstants
<1>2. Chain(que[q].head) = l
  BY <1>1, ContentsAre
<1>3. c \in Seq(Data) /\ Len(c) = Len(l) /\ \A i \in 1 .. Len(l) : c[i] = data[l[i]]
  BY <1>1, ContentsSeq
<1>4. PICK n \in Nat : n = Len(l)
  BY <1>3
<1>5. \A i \in 1 .. n : c[i] \in Data
  BY <1>3, <1>4
<1> HIDE DEF c, l
<1>6. ASSUME NEW i \in 1 .. n
      PROVE  ~ NotBefore(d, data[l[i]]) <=> wakeup[d] < wakeup[c[i]]
  <2>1. wakeup[d] \in Nat /\ wakeup[c[i]] \in Nat
    BY <1>5, QueueListConstants
  <2>2. data[l[i]] = c[i]
    BY <1>3, <1>4
  <2> QED
    BY <2>1, <2>2 DEF NotBefore
<1>7. {i \in 1 .. Len(l) : ~ NotBefore(d, data[l[i]])} = After(c, q, d)
  BY <1>3, <1>4, <1>6 DEF After
<1>8. Passed(q, d) = IF After(c, q, d) = {} THEN Len(l) ELSE Min(After(c, q, d)) - 1
  BY <1>2, <1>7 DEF Passed
<1>9. PutAt(lists, q, d) = IF After(c, q, d) = {} THEN n + 1 ELSE Min(After(c, q, d))
  BY <1>3, <1>4 DEF PutAt, Place, c
<1> QED
  BY <1>4, <1>8, <1>9

LEMMA InOrderPuts ==
  ASSUME NEW lists, Laid(next, data, free, que, lists), NEW q \in Queue, NEW d \in Data,
         free # NULL, que[q].size # 0, q \in Sorted, InOrder(q, free, d)
  PROVE  EnquedAt(lists, q, PutAt(lists, q, d))
<1> DEFINE p == PutAt(lists, q, d)
<1>1. /\ p \in 1 .. Len(lists[q]) + 1
      /\ lists[Pool] # << >> /\ free = lists[Pool][1] /\ free \in Qnode
  BY PutWhere
<1>2. Passed(q, d) = p - 1
  BY PassedPlace
<1>3. Chain(que[q].head) = lists[q]
  BY ContentsAre
<1> HIDE DEF p
<1>4. PICK s \in Seq(Qnode) : s = lists[q]
  BY LaidFields
<1>5. PICK n \in Nat : n = Len(s)
  OBVIOUS
<1>6. /\ que[q].tail = At(s, n) /\ que[q].head = At(s, 1) /\ que[q].size = n
      /\ \A i \in 1 .. n : s[i] # NULL
  <2>1. /\ que[q].head = At(lists[q], 1) /\ que[q].tail = At(lists[q], Len(lists[q]))
        /\ que[q].size = Len(lists[q]) /\ \A i \in 1 .. Len(lists[q]) : lists[q][i] # NULL
    BY LaidFields
  <2> QED
    BY <1>4, <1>5, <2>1
<1>7. p \in 1 .. n + 1 /\ n > 0
  BY <1>1, <1>4, <1>5, <1>6
<1> DEFINE curr == At(s, p)
           prev == At(s, p - 1)
<1>8. /\ (IF Passed(q, d) = Len(Chain(que[q].head)) THEN NULL
          ELSE Chain(que[q].head)[Passed(q, d) + 1]) = curr
      /\ (IF Passed(q, d) = 0 THEN NULL ELSE Chain(que[q].head)[Passed(q, d)]) = prev
  <2>1. (IF p - 1 = n THEN NULL ELSE s[p - 1 + 1]) = curr
    BY <1>5, <1>7 DEF At
  <2>2. (IF p - 1 = 0 THEN NULL ELSE s[p - 1]) = prev
    BY <1>5, <1>7 DEF At
  <2> QED
    BY <1>2, <1>3, <1>4, <1>5, <2>1, <2>2
<1>9. /\ prev = NULL <=> p = 1
      /\ curr = NULL <=> p = n + 1
      /\ p # 1 => prev = s[p - 1]
  <2>1. CASE p = 1
    BY <1>5, <1>6, <1>7, <2>1 DEF At
  <2>2. CASE p # 1
    <3>1. p - 1 \in 1 .. n
      BY <1>7, <2>2
    <3> QED
      BY <1>5, <1>6, <1>7, <2>2, <3>1 DEF At
  <2> QED
    BY <2>1, <2>2
<1>10. IF prev = NULL /\ curr = NULL
       THEN Returns("panic", << >>) /\ UNCHANGED <<next, que>>
       ELSE /\ next' = IF prev = NULL THEN [next EXCEPT ![free] = curr]
                       ELSE [next EXCEPT ![free] = curr, ![prev] = free]
            /\ que' = [que EXCEPT
                         ![q].head = IF prev = NULL THEN free ELSE @,
                         ![q].tail = IF prev # NULL /\ curr = NULL THEN free ELSE @,
                         ![q].size = @ + 1]
            /\ Returns("E_SUCCESS", << >>)
  BY <1>8 DEF InOrder
<1>11. next \in [Qnode -> Qnode \cup {NULL}] /\ Divided(lists, Qnode)
  BY DEF Laid
<1>12. curr = At(lists[q], p)
  BY <1>4
<1> HIDE DEF curr, prev
<1>13. ~ (prev = NULL /\ curr = NULL)
  BY <1>7, <1>9
<1>14. next' \in [Qnode -> Qnode \cup {NULL}] /\ Relinked(next, next', lists, Pool, 1, q, p)
  <2>1. CASE p = 1
    <3>1. next' = [next EXCEPT ![lists[Pool][1]] = At(lists[q], p)]
      BY <1>1, <1>9, <1>10, <1>12, <1>13, <2>1
    <3> QED
      BY <1>1, <1>11, <2>1, <3>1, PutRelinked
  <2>2. CASE p # 1
    <3>1. next' = [next EXCEPT ![lists[Pool][1]] = At(lists[q], p),
                               ![lists[q][p - 1]] = lists[Pool][1]]
      BY <1>1, <1>4, <1>9, <1>10, <1>12, <1>13, <2>2
    <3> QED
      BY <1>1, <1>11, <2>2, <3>1, PutRelinked
  <2> QED
    BY <2>1, <2>2
<1>15. que' = [que EXCEPT ![q] = Ends(In(lists[q], p, free))]
  <2>1. Ends(In(s, p, free)) = [head |-> IF p = 1 THEN free ELSE At(s, 1),
                                tail |-> IF p = Len(s) + 1 THEN free ELSE At(s, Len(s)),
                                size |-> Len(s) + 1]
    BY <1>1, <1>4, EndsIn
  <2>2. Ends(In(lists[q], p, free))
          = [head |-> IF p = 1 THEN free ELSE que[q].head,
             tail |-> IF p = n + 1 THEN free ELSE que[q].tail, size |-> que[q].size + 1]
    BY <1>4, <1>5, <1>6, <2>1
  <2>3. (prev # NULL /\ curr = NULL) <=> p = n + 1
    BY <1>7, <1>9
  <2>4. que \in [Queue -> [head : Qnode \cup {NULL}, tail : Qnode \cup {NULL}, size : Nat]]
    BY LaidTypes
  <2>5. que' = [que EXCEPT ![q].head = IF p = 1 THEN free ELSE @,
                           ![q].tail = IF p = n + 1 THEN free ELSE @,
                           ![q].size = @ + 1]
    BY <1>9, <1>10, <1>13, <2>3
  <2> QED
    BY <2>2, <2>4, <2>5
<1>16. Returns("E_SUCCESS", << >>)
  BY <1>10, <1>13
<1> QED
  BY <1>14, <1>15, <1>16 DEF EnquedAt, p

(* The free list is empty when the abstract pool is used up.               *)
LEMMA PoolEmpty ==
  ASSUME NEW lists, Laid(next, data, free, que, lists)
  PROVE  free = NULL <=> Abstract!Used = N_QNODES
<1>1. Divided(lists, Qnode) /\ Contents = ContentsOf(data, lists)
  BY ContentsAre DEF Laid
<1>2. \A q \in Queue : Len(Contents[q]) = Len(lists[q])
  BY <1>1, ContentsSeq
<1>3. Abstract!Used = Cardinality(UNION {{q} \X (1 .. Len(lists[q])) : q \in Queue})
  <2>1. Abstract!Used = Cardinality(UNION {{q} \X (1 .. Len(Contents[q])) : q \in Queue})
    BY Zenon DEF Abstract!Used, Abstract!Cardinality, Cardinality
  <2>2. {{q} \X (1 .. Len(Contents[q])) : q \in Queue} = {{q} \X (1 .. Len(lists[q])) : q \in Queue}
    BY <1>2, Zenon
  <2> QED
    BY <2>1, <2>2
<1>4. lists[Pool] = << >> <=> Abstract!Used = N_QNODES
  BY <1>1, <1>3, UsedUp
<1>5. PICK s \in Seq(Qnode) : s = lists[Pool]
  BY <1>1, PoolIsNoQueue DEF Divided
<1>6. NULL \notin Qnode
  BY QueueListConstants DEF Qnode, NULL
<1>7. At(s, 1) = NULL <=> s = << >>
  BY <1>6 DEF At
<1>8. free = At(lists[Pool], 1)
  BY DEF Laid
<1> QED
  BY <1>4, <1>5, <1>7, <1>8

LEMMA EnqueStep ==
  ASSUME QueueInv, NEW q \in Queue, NEW d \in Data, Enque(q, d)
  PROVE  QueueInv' /\ Abstract!Enque(q, d)
<1>1. PICK lists : Laid(next, data, free, que, lists)
  BY DEF QueueInv
<1>2. Contents = ContentsOf(data, lists)
  BY <1>1, ContentsAre
<1>3. free = NULL <=> Abstract!Used = N_QNODES
  BY <1>1, PoolEmpty
<1>4. CASE free = NULL
  <2>1. Returns("E_NO_QNODES", << >>) /\ next' = next /\ data' = data /\ free' = free /\ que' = que
    BY <1>4 DEF Enque
  <2>2. Laid(next', data', free', que', lists)
    BY <1>1, <2>1
  <2>3. Contents' = Contents
    BY <1>2, <2>1, <2>2, ContentsBecome
  <2>4. Abstract!Enque(q, d)
    BY <1>3, <1>4, <2>1, <2>3 DEF Abstract!Enque, Abstract!Returns, Returns
  <2> QED
    BY <2>2, <2>4 DEF QueueInv
<1>5. CASE free # NULL
  <2> DEFINE p == PutAt(lists, q, d)
             c == Contents[q]
             lists2 == Moved(lists, Pool, 1, q, p)
  <2>1. /\ free' = next[free] /\ data' = [data EXCEPT ![free] = d]
        /\ \/ que[q].size = 0 /\ First(q, free)
           \/ que[q].size # 0 /\ q \notin Sorted /\ AtTail(q, free)
           \/ que[q].size # 0 /\ q \in Sorted /\ InOrder(q, free, d)
    BY <1>5 DEF Enque
  <2>2. EnquedAt(lists, q, p)
    BY <1>1, <1>5, <2>1, FirstPuts, AtTailPuts, InOrderPuts
  <2>3. /\ p \in 1 .. Len(lists[q]) + 1
        /\ lists[Pool] # << >> /\ free = lists[Pool][1] /\ free \in Qnode
    BY <1>1, <1>5, PutWhere
  <2> HIDE DEF p
  <2>4. /\ next' \in [Qnode -> Qnode \cup {NULL}]
        /\ Relinked(next, next', lists, Pool, 1, q, p)
        /\ que' = [que EXCEPT ![q] = Ends(In(lists[q], p, free))]
        /\ Returns("E_SUCCESS", << >>)
    BY <2>2 DEF EnquedAt
  <2>5. Laid(next', data', free', que', lists2)
    <3>1. Laid(next', [data EXCEPT ![free] = d], next[free],
               [que EXCEPT ![q] = Ends(In(lists[q], p, free))], lists2)
      BY <1>1, <2>3, <2>4, PutLaid
    <3> HIDE DEF lists2
    <3> QED
      BY <2>1, <2>4, <3>1
  <2>6. ContentsOf(data', lists2) = [ContentsOf(data, lists) EXCEPT ![q] = In(@, p, d)]
    <3>1. ContentsOf([data EXCEPT ![lists[Pool][1]] = d], lists2)
            = [ContentsOf(data, lists) EXCEPT ![q] = In(@, p, d)]
      BY <1>1, <2>3, PutContents
    <3> HIDE DEF lists2
    <3> QED
      BY <2>1, <2>3, <3>1
  <2> HIDE DEF lists2
  <2>7. Contents' = [Contents EXCEPT ![q] = In(@, p, d)]
    BY <1>2, <2>5, <2>6, ContentsBecome
  <2>8. c \in Seq(Data) /\ p \in 1 .. Len(c) + 1
    BY <1>1, <1>2, <2>3, ContentsSeq
  <2>9. p = Place(c, q, d)
    BY <1>2 DEF PutAt, p
  <2> HIDE DEF c
  <2>10. Abstract!InsertAt(c, p, d) = In(c, p, d)
    BY <2>8, InIsInsertAt DEF Abstract!InsertAt
  <2>11. Contents' = [Contents EXCEPT ![q] = Abstract!InsertAt(@, p, d)]
    BY <2>7, <2>10 DEF c
  <2>12. p = IF After(c, q, d) = {} THEN Len(c) + 1 ELSE Abstract!Min(After(c, q, d))
    BY <2>9 DEF Place, Min, Abstract!Min
  <2>13. Abstract!Enque(q, d)
    <3>1. Abstract!Used # N_QNODES
      BY <1>3, <1>5
    <3> QED
      BY <2>4, <2>11, <2>12, <3>1 DEF Abstract!Enque, Abstract!Returns, Returns, After, c
  <2> QED
    BY <2>5, <2>13 DEF QueueInv
<1> QED
  BY <1>4, <1>5

-----------------------------------------------------------------------------
(* _q_deque and _q_remove.                                                 *)

(* The qnode before the i-th skips it, and it goes to the free list.       *)
LEMMA TakeRelinked ==
  ASSUME NEW nxt \in [Qnode -> Qnode \cup {NULL}], NEW lists, Divided(lists, Qnode),
         NEW q \in Queue, NEW i \in 1 .. Len(lists[q])
  PROVE  LET x    == lists[q][i]
             cut  == IF i = 1 THEN nxt ELSE [nxt EXCEPT ![lists[q][i - 1]] = nxt[x]]
             nxt2 == [cut EXCEPT ![x] = At(lists[Pool], 1)]
         IN  /\ nxt2 \in [Qnode -> Qnode \cup {NULL}]
             /\ Relinked(nxt, nxt2, lists, q, i, Pool, 1)
<1> DEFINE x == lists[q][i]
           nextF == At(lists[Pool], 1)
           cut == IF i = 1 THEN nxt ELSE [nxt EXCEPT ![lists[q][i - 1]] = nxt[x]]
           nxt2 == [cut EXCEPT ![x] = nextF]
<1>1. Pool \in List /\ q \in List
  BY PoolIsNoQueue
<1>2. lists[Pool] \in Seq(Qnode) /\ lists[q] \in Seq(Qnode)
  BY <1>1 DEF Divided
<1>3. x \in Qnode
  BY <1>2
<1>4. nextF \in Qnode \cup {NULL}
  BY <1>2 DEF At
<1>5. At(lists[Pool], 1 - 1) = NULL /\ NULL \notin Qnode
  BY QueueListConstants DEF At, Qnode, NULL
<1>6. i = 1 => At(lists[q], i - 1) = NULL
  BY DEF At
<1>7. ASSUME i # 1
      PROVE  /\ i - 1 \in 1 .. Len(lists[q]) /\ At(lists[q], i - 1) = lists[q][i - 1]
             /\ lists[q][i - 1] \in Qnode /\ lists[q][i - 1] # x
  <2>1. PICK n \in Nat : n = Len(lists[q])
    BY <1>2
  <2>2. i - 1 \in 1 .. Len(lists[q]) /\ i - 1 # i
    BY <1>7, <2>1
  <2>3. lists[q][i - 1] \in Qnode /\ lists[q][i - 1] # x
    <3>1. \A j \in 1 .. Len(lists[q]) : \A k \in 1 .. Len(lists[q]) :
            lists[q][j] = lists[q][k] => j = k
      BY <1>1, Zenon DEF Divided
    <3>2. lists[q][i - 1] # x
      BY <2>2, <3>1
    <3> QED
      BY <1>2, <2>2, <3>2
  <2> QED
    BY <2>2, <2>3 DEF At
<1> HIDE DEF x, nextF
<1>8. ASSUME i = 1
      PROVE  nxt2 \in [Qnode -> Qnode \cup {NULL}] /\ Relinked(nxt, nxt2, lists, q, i, Pool, 1)
  <2>1. nxt2 = [nxt EXCEPT ![x] = nextF]
    BY <1>8
  <2> HIDE DEF nxt2
  <2>2. /\ nxt2 \in [Qnode -> Qnode \cup {NULL}] /\ nxt2[x] = nextF
        /\ \A n \in Qnode \ {x} : nxt2[n] = nxt[n]
    BY <1>3, <1>4, <2>1
  <2>3. \A n \in Qnode : n # At(lists[Pool], 1 - 1) /\ n # At(lists[q], i - 1)
    BY <1>5, <1>6, <1>8
  <2> QED
    BY <2>2, <2>3 DEF Relinked, x, nextF
<1>9. ASSUME i # 1
      PROVE  nxt2 \in [Qnode -> Qnode \cup {NULL}] /\ Relinked(nxt, nxt2, lists, q, i, Pool, 1)
  <2>1. PICK prev : prev = lists[q][i - 1]
    OBVIOUS
  <2>2. prev \in Qnode /\ prev # x /\ At(lists[q], i - 1) = prev
    BY <1>7, <1>9, <2>1
  <2>3. nxt2 = [nxt EXCEPT ![prev] = nxt[x], ![x] = nextF]
    BY <1>9, <2>1
  <2> HIDE DEF nxt2
  <2>4. /\ nxt2 \in [Qnode -> Qnode \cup {NULL}] /\ nxt2[x] = nextF
        /\ \A n \in Qnode \ {x} : nxt2[n] = IF n = prev THEN nxt[x] ELSE nxt[n]
    BY <1>3, <1>4, <2>2, <2>3
  <2>5. \A n \in Qnode : n # At(lists[Pool], 1 - 1)
    BY <1>5
  <2> QED
    BY <2>2, <2>4, <2>5 DEF Relinked, x, nextF
<1> QED
  BY <1>8, <1>9 DEF x, nextF

(* What follows from it for the invariant and the contents.                *)
TakenFrom(lists, q, i) ==
  LET x   == lists[q][i]
      cut == IF i = 1 THEN next ELSE [next EXCEPT ![lists[q][i - 1]] = next[x]]
  IN  /\ next' = [cut EXCEPT ![x] = free]
      /\ data' = [data EXCEPT ![x] = NULL]
      /\ free' = x
      /\ que'  = [que EXCEPT ![q] = Ends(Out(lists[q], i))]

LEMMA Takes ==
  ASSUME NEW lists, Laid(next, data, free, que, lists), NEW q \in Queue,
         NEW i \in 1 .. Len(lists[q]), TakenFrom(lists, q, i)
  PROVE  QueueInv' /\ Contents' = [Contents EXCEPT ![q] = Out(@, i)]
<1> DEFINE lists2 == Moved(lists, q, i, Pool, 1)
<1>1. /\ next \in [Qnode -> Qnode \cup {NULL}] /\ Divided(lists, Qnode)
      /\ free = At(lists[Pool], 1)
  BY DEF Laid
<1>2. /\ next' \in [Qnode -> Qnode \cup {NULL}] /\ Relinked(next, next', lists, q, i, Pool, 1)
  BY <1>1, TakeRelinked DEF TakenFrom
<1>3. Laid(next', [data EXCEPT ![lists[q][i]] = NULL], lists[q][i],
           [que EXCEPT ![q] = Ends(Out(lists[q], i))], lists2)
  BY <1>2, TakeLaid
<1>4. ContentsOf([data EXCEPT ![lists[q][i]] = NULL], lists2)
        = [ContentsOf(data, lists) EXCEPT ![q] = Out(@, i)]
  <2>1. Laid(next, data, free, que, lists)
    OBVIOUS
  <2> QED
    BY <2>1, TakeContents
<1> HIDE DEF lists2
<1>5. Laid(next', data', free', que', lists2)
  BY <1>3 DEF TakenFrom
<1>6. Contents = ContentsOf(data, lists) /\ Contents' = ContentsOf(data', lists2)
  BY <1>5, ContentsAre, ContentsBecome
<1> QED
  BY <1>4, <1>5, <1>6 DEF QueueInv, TakenFrom

(* The first of a sequence taken out.                                      *)
LEMMA OutIsTail ==
  ASSUME NEW S, NEW c \in Seq(S), c # << >>
  PROVE  Out(c, 1) = Tail(c)
<1>1. PICK n \in Nat : n = Len(c)
  OBVIOUS
<1>2. Tail(c) \in Seq(S) /\ Len(Tail(c)) = n - 1 /\ \A j \in 1 .. n - 1 : Tail(c)[j] = c[j + 1]
  BY <1>1
<1>3. Tail(c) = [j \in 1 .. n - 1 |-> Tail(c)[j]]
  <2>1. PICK t \in Seq(S) : t = Tail(c) /\ Len(t) = n - 1
    BY <1>2
  <2>2. t = [j \in 1 .. Len(t) |-> t[j]]
    OBVIOUS
  <2> QED
    BY <2>1, <2>2, Zenon
<1>4. \A j \in 1 .. n - 1 : (IF j < 1 THEN c[j] ELSE c[j + 1]) = c[j + 1]
  OBVIOUS
<1> QED
  BY <1>1, <1>2, <1>3, <1>4 DEF Out

LEMMA DequeStep ==
  ASSUME QueueInv, NEW q \in Queue, Deque(q)
  PROVE  QueueInv' /\ Abstract!Deque(q)
<1>1. PICK lists : Laid(next, data, free, que, lists)
  BY DEF QueueInv
<1>2. PICK s \in Seq(Qnode) : s = lists[q]
  BY <1>1, LaidFields
<1>3. PICK n \in Nat : n = Len(s)
  OBVIOUS
<1>4. /\ que[q].head = At(s, 1) /\ que[q].tail = At(s, n) /\ que[q].size = n
      /\ \A i \in 1 .. n : s[i] # NULL
      /\ que[q] = [head |-> que[q].head, tail |-> que[q].tail, size |-> que[q].size]
  <2>1. /\ que[q].head = At(lists[q], 1) /\ que[q].tail = At(lists[q], Len(lists[q]))
        /\ que[q].size = Len(lists[q]) /\ \A i \in 1 .. Len(lists[q]) : lists[q][i] # NULL
        /\ que[q] = [head |-> que[q].head, tail |-> que[q].tail, size |-> que[q].size]
    BY <1>1, LaidFields
  <2> QED
    BY <1>2, <1>3, <2>1
<1>5. PICK c \in Seq(Data) : /\ c = Contents[q] /\ Len(c) = n
                             /\ \A i \in 1 .. n : c[i] = data[s[i]]
  <2>1. Contents = ContentsOf(data, lists)
    BY <1>1, ContentsAre
  <2>2. /\ ContentsOf(data, lists)[q] \in Seq(Data)
        /\ Len(ContentsOf(data, lists)[q]) = Len(lists[q])
        /\ \A i \in 1 .. Len(lists[q]) : ContentsOf(data, lists)[q][i] = data[lists[q][i]]
    BY <1>1, ContentsSeq
  <2> QED
    BY <1>2, <1>3, <2>1, <2>2
<1>6. CASE n = 0
  <2>1. Peek(q) /\ Returns("E_EMPTY_QUEUE", << >>)
    BY <1>4, <1>6 DEF Deque, Peek
  <2>2. QueueInv' /\ Abstract!Peek(q)
    BY <2>1, PeekStep
  <2>3. Contents[q] = << >>
    BY <1>5, <1>6
  <2> QED
    BY <2>1, <2>2, <2>3 DEF Abstract!Deque, Abstract!Peek, Abstract!Returns, Returns
<1>7. CASE n # 0
  <2> DEFINE left == [head |-> next[s[1]],
                      tail |-> IF next[s[1]] = NULL THEN NULL ELSE que[q].tail,
                      size |-> que[q].size - 1]
  <2>1. 1 \in 1 .. n /\ n \in 1 .. n
    BY <1>7
  <2>2. que[q].head = s[1] /\ que[q].head # NULL /\ que[q].tail # NULL /\ que[q].size # 0
    BY <1>3, <1>4, <1>7, <2>1 DEF At
  <2>3. next[s[1]] = At(s, 1 + 1) /\ (next[s[1]] = NULL <=> n = 1)
    <3>1. Linked(next, s)
      BY <1>1, <1>2, PoolIsNoQueue DEF Laid
    <3>2. next[s[1]] = At(s, 1 + 1)
      BY <1>3, <2>1, <3>1 DEF Linked
    <3>3. At(s, 1 + 1) = NULL <=> n = 1
      <4>1. 1 + 1 \in 1 .. n <=> n # 1
        BY <1>7
      <4> QED
        BY <1>3, <1>4, <4>1 DEF At
    <3> QED
      BY <3>2, <3>3
  <2>4. /\ que' = [que EXCEPT ![q] = left]
        /\ next' = [next EXCEPT ![s[1]] = free]
        /\ data' = [data EXCEPT ![s[1]] = NULL]
        /\ free' = s[1]
        /\ IF left.head = NULL /\ left.size # 0 THEN Returns("panic", << >>)
           ELSE Returns("E_SUCCESS", <<data[s[1]]>>)
    BY <2>2 DEF Deque
  <2>5. left = Ends(Out(s, 1))
    <3>1. Ends(Out(s, 1)) = [head |-> IF 1 = 1 THEN At(s, 2) ELSE At(s, 1),
                             tail |-> IF 1 = Len(s) THEN At(s, 1 - 1) ELSE At(s, Len(s)),
                             size |-> Len(s) - 1]
      BY <1>3, <2>1, EndsOut
    <3>2. At(s, 1 - 1) = NULL
      BY DEF At
    <3> QED
      BY <1>3, <1>4, <2>3, <3>1, <3>2
  <2>6. ~ (left.head = NULL /\ left.size # 0)
    BY <1>4, <2>3
  <2> HIDE DEF left
  <2>7. TakenFrom(lists, q, 1)
    BY <1>2, <2>4, <2>5 DEF TakenFrom
  <2>8. QueueInv' /\ Contents' = [Contents EXCEPT ![q] = Out(@, 1)]
    BY <1>1, <1>2, <1>3, <2>1, <2>7, Takes
  <2>9. c # << >> /\ Head(c) = data[s[1]] /\ Out(c, 1) = Tail(c)
    <3>1. c # << >> /\ Head(c) = data[s[1]]
      BY <1>5, <2>1
    <3> QED
      BY <3>1, OutIsTail
  <2>10. Contents' = [Contents EXCEPT ![q] = Tail(@)]
    BY <1>5, <2>8, <2>9
  <2> QED
    BY <1>5, <2>4, <2>6, <2>8, <2>9, <2>10 DEF Abstract!Deque, Abstract!Returns, Returns
<1> QED
  BY <1>6, <1>7

LEMMA RemoveStep ==
  ASSUME QueueInv, NEW q \in Queue, NEW d \in Data, Remove(q, d)
  PROVE  QueueInv' /\ Abstract!Extract(q, d)
<1>1. PICK lists : Laid(next, data, free, que, lists)
  BY DEF QueueInv
<1>2. PICK s \in Seq(Qnode) : s = lists[q]
  BY <1>1, LaidFields
<1>3. PICK n \in Nat : n = Len(s)
  OBVIOUS
<1>4. /\ que[q].head = At(s, 1) /\ que[q].tail = At(s, n) /\ que[q].size = n
      /\ \A i \in 1 .. n : s[i] # NULL
      /\ Chain(que[q].head) = s /\ Linked(next, s)
  <2>1. /\ que[q].head = At(lists[q], 1) /\ que[q].tail = At(lists[q], Len(lists[q]))
        /\ que[q].size = Len(lists[q]) /\ \A i \in 1 .. Len(lists[q]) : lists[q][i] # NULL
    BY <1>1, LaidFields
  <2>2. Chain(que[q].head) = lists[q]
    BY <1>1, ContentsAre
  <2>3. Linked(next, lists[q])
    BY <1>1, PoolIsNoQueue DEF Laid
  <2> QED
    BY <1>2, <1>3, <2>1, <2>2, <2>3
<1>5. PICK c \in Seq(Data) : /\ c = Contents[q] /\ Len(c) = n
                             /\ \A i \in 1 .. n : c[i] = data[s[i]]
  <2>1. Contents = ContentsOf(data, lists)
    BY <1>1, ContentsAre
  <2>2. /\ ContentsOf(data, lists)[q] \in Seq(Data)
        /\ Len(ContentsOf(data, lists)[q]) = Len(lists[q])
        /\ \A i \in 1 .. Len(lists[q]) : ContentsOf(data, lists)[q][i] = data[lists[q][i]]
    BY <1>1, ContentsSeq
  <2> QED
    BY <1>2, <1>3, <2>1, <2>2
<1> DEFINE found == {i \in 1 .. n : c[i] = d}
           m == Min(found)
<1>6. {i \in 1 .. Len(Chain(que[q].head)) : data[Chain(que[q].head)[i]] = d} = found
  BY <1>3, <1>4, <1>5
<1>7. CASE found = {}
  <2>1. Returns("E_NO_PROCESS", << >>) /\ next' = next /\ data' = data /\ free' = free /\ que' = que
    BY <1>6, <1>7 DEF Remove
  <2>2. Laid(next', data', free', que', lists)
    BY <1>1, <2>1
  <2>3. Contents' = Contents
    <3>1. Contents = ContentsOf(data, lists) /\ Contents' = ContentsOf(data', lists)
      BY <1>1, <2>2, ContentsAre, ContentsBecome
    <3> QED
      BY <2>1, <3>1
  <2>4. d \notin Abstract!ToSet(Contents[q])
    BY <1>5, <1>7 DEF Abstract!ToSet
  <2> QED
    BY <2>1, <2>2, <2>3, <2>4 DEF QueueInv, Abstract!Extract, Abstract!Returns, Returns
<1>8. CASE found # {}
  <2>1. m \in found /\ m \in 1 .. n /\ c[m] = d
    <3>1. found \in SUBSET Nat
      OBVIOUS
    <3>2. PICK l \in found : \A x \in found : l <= x
      BY <1>8, <3>1, LeastNat
    <3>3. m \in found
      BY <3>2 DEF Min
    <3> QED
      BY <3>3
  <2> DEFINE prev == IF m = 1 THEN NULL ELSE s[m - 1]
             cut == IF prev = NULL THEN next ELSE [next EXCEPT ![prev] = next[s[m]]]
  <2>2. /\ que' = [que EXCEPT ![q] = Unlinked(q, prev, s[m])]
        /\ next' = [cut EXCEPT ![s[m]] = free]
        /\ data' = [data EXCEPT ![s[m]] = NULL]
        /\ free' = s[m]
        /\ Returns("E_SUCCESS", << >>)
    BY <1>4, <1>6, <1>8 DEF Remove
  <2>3. d \in Abstract!ToSet(Contents[q])
    <3>1. m \in DOMAIN c /\ c[m] = d
      BY <1>5, <2>1
    <3> HIDE DEF found, m
    <3> QED
      BY <1>5, <3>1 DEF Abstract!ToSet
  <2>4. Abstract!RemoveFirst(c, d) = Out(c, m)
    <3>1. \E i \in 1 .. Len(c) : c[i] = d
      BY <1>5, <2>1
    <3>2. Abstract!SelectInSeq(c, LAMBDA v : v = d) = m
      BY <1>5, <1>8 DEF Abstract!SelectInSeq, Abstract!Min, Min
    <3>3. Abstract!RemoveAt(c, m) = Out(c, m)
      BY <1>5, <2>1, OutIsRemoveAt DEF Abstract!RemoveAt
    <3> QED
      BY <3>1, <3>2, <3>3 DEF Abstract!RemoveFirst
  <2> HIDE DEF found, m
  <2>5. prev = At(s, m - 1) /\ (prev = NULL <=> m = 1)
    <3>1. m # 1 => m - 1 \in 1 .. n
      BY <2>1
    <3> QED
      BY <1>3, <1>4, <3>1 DEF At
  <2>6. que[q].tail = s[m] <=> m = n
    <3>1. n \in 1 .. n /\ que[q].tail = s[n]
      BY <1>3, <1>4, <2>1 DEF At
    <3>2. \A i \in 1 .. n : \A j \in 1 .. n : s[i] = s[j] => i = j
      BY <1>1, <1>2, <1>3, PoolIsNoQueue DEF Laid, Divided
    <3> QED
      BY <2>1, <3>1, <3>2
  <2>7. Unlinked(q, prev, s[m]) = Ends(Out(s, m))
    <3>1. Ends(Out(s, m)) = [head |-> IF m = 1 THEN At(s, 2) ELSE At(s, 1),
                             tail |-> IF m = Len(s) THEN At(s, m - 1) ELSE At(s, Len(s)),
                             size |-> Len(s) - 1]
      BY <1>3, <2>1, EndsOut
    <3>2. m = 1 => next[s[m]] = At(s, 2)
      <4>1. next[s[m]] = At(s, m + 1)
        BY <1>3, <1>4, <2>1 DEF Linked
      <4> QED
        BY <4>1
    <3> HIDE DEF prev
    <3> QED
      BY <1>3, <1>4, <2>5, <2>6, <3>1, <3>2 DEF Unlinked
  <2>8. cut = IF m = 1 THEN next ELSE [next EXCEPT ![s[m - 1]] = next[s[m]]]
    BY <2>5
  <2> HIDE DEF cut, prev
  <2>9. TakenFrom(lists, q, m)
    BY <1>2, <2>2, <2>7, <2>8 DEF TakenFrom
  <2>10. QueueInv' /\ Contents' = [Contents EXCEPT ![q] = Out(@, m)]
    BY <1>1, <1>2, <1>3, <2>1, <2>9, Takes
  <2>11. Contents' = [Contents EXCEPT ![q] = Abstract!RemoveFirst(@, d)]
    BY <1>5, <2>4, <2>10
  <2> QED
    BY <2>2, <2>3, <2>10, <2>11 DEF Abstract!Extract, Abstract!Returns, Returns
<1> QED
  BY <1>7, <1>8

-----------------------------------------------------------------------------
(* Whatever the operations and their order, the queues and the free list   *)
(* are lists of which every qnode is on one.                               *)
THEOREM ListsStayApart == Spec => []QueueInv
<1>1. Init => QueueInv
  BY InitLaid
<1>2. QueueInv /\ [Next]_vars => QueueInv'
  <2> SUFFICES ASSUME QueueInv, [Next]_vars PROVE QueueInv'
    OBVIOUS
  <2>1. CASE Next
    BY <2>1, PeekStep, DequeStep, EnqueStep, RemoveStep DEF Next
  <2>2. CASE UNCHANGED vars
    BY <2>2 DEF vars, QueueInv, Laid
  <2> QED
    BY <2>1, <2>2
<1> QED
  BY <1>1, <1>2, PTL DEF Spec

(* queue.c keeps the promise of its callers' sequences: for any pool, any  *)
(* queues, keys and data, and any sequence of calls, each operation has    *)
(* the effect and the result of the one of QueueSpec, and no check fails.  *)
THEOREM QueuesImplemented == Spec => ImplementsQueues
<1>1. Init => Abstract!Init
  BY InitLaid
<1>2. QueueInv /\ [Next]_vars => [Abstract!Next]_<<Contents, result>>
  <2> SUFFICES ASSUME QueueInv, [Next]_vars PROVE [Abstract!Next]_<<Contents, result>>
    OBVIOUS
  <2>1. CASE Next
    BY <2>1, PeekStep, DequeStep, EnqueStep, RemoveStep DEF Next, Abstract!Next
  <2>2. CASE UNCHANGED vars
    <3>1. Contents' = Contents /\ result' = result
      BY <2>2 DEF vars, Contents, Chain
    <3> QED
      BY <3>1
  <2> QED
    BY <2>1, <2>2
<1> QED
  BY <1>1, <1>2, ListsStayApart, PTL DEF Spec, ImplementsQueues, Abstract!Spec

=============================================================================
