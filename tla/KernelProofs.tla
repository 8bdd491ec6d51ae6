----------------------------- MODULE KernelProofs -----------------------------
(***************************************************************************)
(* Type correctness of the kernel, for every value of the constants, and   *)
(* what its subroutines do to the queues, the stack pool and the pool of   *)
(* qnodes.                                                                 *)
(*                                                                         *)
(* KernelState is closed under each subroutine of KernelOps; a handler is  *)
(* a composition of subroutines, and its action a step Becomes(k) to the   *)
(* kernel state k that the composition yields.  So there is a lemma for    *)
(* each update of a PCB or a kernel state, then one for each subroutine,   *)
(* then one for each handler, and the theorem puts them together.  A       *)
(* subterm that a lemma has been applied to is hidden behind a name, as    *)
(* the provers are quick with [x EXCEPT !.state = st] for a variable x and *)
(* lost in the term that x stands for.                                     *)
(***************************************************************************)
EXTENDS KernelProps, Integers, SequencesExt, SequenceTheorems, FiniteSetTheorems, TLAPS

-----------------------------------------------------------------------------
(* Naturals and sequences.  Induction is by the least element of a set of  *)
(* naturals: the library's induction theorems take an operator, which the  *)
(* provers in use cannot instantiate, while WFMin is about a set.          *)

(* A non-empty set of naturals has a least element.                        *)
LEMMA LeastNat ==
  ASSUME NEW S \in SUBSET Nat, S # {}
  PROVE  \E m \in S : \A x \in S : m <= x
<1> DEFINE R == {ss \in Nat \X Nat : ss[1] < ss[2]}
<1>1. IsWellFoundedOn(R, Nat)
  BY NatLessThanWellFounded DEF OpToRel
<1>2. PICK m \in S : \A x \in S : ~ (<<x, m>> \in R)
  BY <1>1, WFMin
<1>3. \A x \in S : ~ (x < m)
  <2> SUFFICES ASSUME NEW x \in S, x < m PROVE FALSE
    OBVIOUS
  <2>1. <<x, m>> \in Nat \X Nat
    OBVIOUS
  <2>2. <<x, m>> \in R
    BY <2>1
  <2> QED
    BY <1>2, <2>2
<1>4. \A x \in S : m <= x
  BY <1>3
<1> QED
  BY <1>4

(* Min of the library is that element.                                     *)
LEMMA MinNat ==
  ASSUME NEW S \in SUBSET Nat, S # {}
  PROVE  Min(S) \in S /\ \A x \in S : Min(S) <= x
<1>1. \E m \in S : \A x \in S : m <= x
  BY LeastNat
<1> QED
  BY <1>1 DEF Min

(* Taking an element out of a sequence leaves a sequence of the same set.  *)
LEMMA RemoveAtSeq ==
  ASSUME NEW S, NEW s \in Seq(S), NEW i \in 1 .. Len(s)
  PROVE  /\ RemoveAt(s, i) \in Seq(S)
         /\ Len(RemoveAt(s, i)) = Len(s) - 1
         /\ \A j \in 1 .. Len(s) - 1 :
              RemoveAt(s, i)[j] = IF j < i THEN s[j] ELSE s[j + 1]
<1> DEFINE a == SubSeq(s, 1, i - 1)
           b == SubSeq(s, i + 1, Len(s))
<1>1. a \in Seq(S) /\ Len(a) = i - 1 /\ \A j \in 1 .. i - 1 : a[j] = s[j]
  OBVIOUS
<1>2. b \in Seq(S) /\ Len(b) = Len(s) - i /\ \A j \in 1 .. Len(s) - i : b[j] = s[j + i]
  OBVIOUS
<1> HIDE DEF a, b
<1>3. /\ a \o b \in Seq(S) /\ Len(a \o b) = Len(s) - 1
      /\ \A j \in 1 .. Len(s) - 1 :
           (a \o b)[j] = IF j <= i - 1 THEN a[j] ELSE b[j - (i - 1)]
  <2>1. Len(a) + Len(b) = Len(s) - 1
    BY <1>1, <1>2
  <2>2. /\ a \o b \in Seq(S) /\ Len(a \o b) = Len(a) + Len(b)
        /\ \A j \in 1 .. Len(a) + Len(b) :
             (a \o b)[j] = IF j <= Len(a) THEN a[j] ELSE b[j - Len(a)]
    BY <1>1, <1>2, ConcatProperties
  <2> QED
    BY <2>1, <2>2, <1>1
<1>4. \A j \in 1 .. Len(s) - 1 : (a \o b)[j] = IF j < i THEN s[j] ELSE s[j + 1]
  BY <1>1, <1>2, <1>3
<1> QED
  BY <1>3, <1>4 DEF RemoveAt, a, b

(* So does putting an element of the set in.                               *)
LEMMA InsertAtSeq ==
  ASSUME NEW S, NEW s \in Seq(S), NEW i \in 1 .. Len(s), NEW e \in S
  PROVE  /\ InsertAt(s, i, e) \in Seq(S)
         /\ Len(InsertAt(s, i, e)) = Len(s) + 1
         /\ \A j \in 1 .. Len(s) + 1 :
              InsertAt(s, i, e)[j] =
                IF j < i THEN s[j] ELSE IF j = i THEN e ELSE s[j - 1]
<1> DEFINE a == SubSeq(s, 1, i - 1)
           b == SubSeq(s, i, Len(s))
<1>1. a \in Seq(S) /\ Len(a) = i - 1 /\ \A j \in 1 .. i - 1 : a[j] = s[j]
  OBVIOUS
<1>2. /\ b \in Seq(S) /\ Len(b) = Len(s) - i + 1
      /\ \A j \in 1 .. Len(s) - i + 1 : b[j] = s[j + i - 1]
  OBVIOUS
<1> HIDE DEF a, b
<1> DEFINE c == a \o <<e>>
<1>3. /\ c \in Seq(S) /\ Len(c) = i
      /\ \A j \in 1 .. i : c[j] = IF j < i THEN s[j] ELSE e
  BY <1>1
<1> HIDE DEF c
<1>4. /\ c \o b \in Seq(S) /\ Len(c \o b) = Len(s) + 1
      /\ \A j \in 1 .. Len(s) + 1 :
           (c \o b)[j] = IF j <= i THEN c[j] ELSE b[j - i]
  <2>1. /\ c \o b \in Seq(S) /\ Len(c \o b) = Len(c) + Len(b)
        /\ \A j \in 1 .. Len(c) + Len(b) :
             (c \o b)[j] = IF j <= Len(c) THEN c[j] ELSE b[j - Len(c)]
    BY <1>2, <1>3, ConcatProperties
  <2>2. i + (Len(s) - i + 1) = Len(s) + 1
    OBVIOUS
  <2> QED
    BY <1>2, <1>3, <2>1, <2>2
<1>5. \A j \in 1 .. Len(s) + 1 :
        (c \o b)[j] = IF j < i THEN s[j] ELSE IF j = i THEN e ELSE s[j - 1]
  <2> SUFFICES ASSUME NEW j \in 1 .. Len(s) + 1
               PROVE  (c \o b)[j] = IF j < i THEN s[j] ELSE IF j = i THEN e ELSE s[j - 1]
    OBVIOUS
  <2>1. CASE j <= i
    <3>1. j \in 1 .. i /\ (c \o b)[j] = c[j]
      BY <1>4, <2>1
    <3>2. c[j] = IF j < i THEN s[j] ELSE e
      BY <1>3, <3>1
    <3> QED
      BY <3>1, <3>2
  <2>2. CASE j > i
    <3>1. j - i \in 1 .. Len(s) - i + 1 /\ j - i + i - 1 = j - 1
      BY <2>2
    <3>2. b[j - i] = s[j - i + i - 1]
      BY <1>2, <3>1
    <3>3. (c \o b)[j] = IF j <= i THEN c[j] ELSE b[j - i]
      BY <1>4
    <3>4. ~ (j <= i) /\ ~ (j < i) /\ j # i
      BY <2>2
    <3>5. (c \o b)[j] = b[j - i]
      BY <3>3, <3>4, Zenon
    <3>6. (c \o b)[j] = s[j - 1]
      BY <3>1, <3>2, <3>5, Zenon
    <3> QED
      BY <3>4, <3>6
  <2>3. j <= i \/ j > i
    OBVIOUS
  <2> QED
    BY <2>1, <2>2, <2>3, Zenon
<1> QED
  BY <1>4, <1>5 DEF InsertAt, a, b, c

-----------------------------------------------------------------------------
(* A sequence that lists a set: each element of the set once, and nothing  *)
(* else.                                                                   *)
Lists(s, S) == IsInjective(s) /\ ToSet(s) = S

(* What that says of the places of the sequence.                           *)
LEMMA ListsPlaces ==
  ASSUME NEW A, NEW s \in Seq(A), NEW S
  PROVE  Lists(s, S) <=>
           /\ \A i, j \in 1 .. Len(s) : s[i] = s[j] => i = j
           /\ \A i \in 1 .. Len(s) : s[i] \in S
           /\ \A x \in S : \E i \in 1 .. Len(s) : s[i] = x
<1>1. DOMAIN s = 1 .. Len(s)
  OBVIOUS
<1>2. ToSet(s) = {s[i] : i \in 1 .. Len(s)}
  BY <1>1 DEF ToSet
<1> QED
  BY <1>1, <1>2 DEF Lists, IsInjective

(* The empty sequence lists the empty set, and no other.                   *)
LEMMA ListsEmpty ==
  ASSUME NEW A, NEW s \in Seq(A), NEW S, Lists(s, S)
  PROVE  s = << >> <=> S = {}
<1>1. s = << >> => S = {}
  <2> SUFFICES ASSUME Len(s) = 0 PROVE S = {}
    OBVIOUS
  <2>1. \A x \in S : \E i \in 1 .. Len(s) : s[i] = x
    BY ListsPlaces, ZenonT(60)
  <2> QED
    BY <2>1
<1>2. s # << >> => 1 \in 1 .. Len(s)
  OBVIOUS
<1> QED
  BY <1>1, <1>2, ListsPlaces

(* As many entries as elements.                                            *)
LEMMA ListsLen ==
  ASSUME NEW A, NEW s \in Seq(A), NEW S, Lists(s, S)
  PROVE  IsFiniteSet(S) /\ Cardinality(S) = Len(s)
<1>1. /\ \A i, j \in 1 .. Len(s) : s[i] = s[j] => i = j
      /\ \A i \in 1 .. Len(s) : s[i] \in S
      /\ \A x \in S : \E i \in 1 .. Len(s) : s[i] = x
  BY ListsPlaces
<1>2. Len(s) \in Nat /\ s = [i \in 1 .. Len(s) |-> s[i]]
  OBVIOUS
<1>3. s \in [1 .. Len(s) -> S]
  BY <1>1, <1>2
<1>4. s \in Bijection(1 .. Len(s), S)
  BY <1>1, <1>2, <1>3 DEF Bijection, Injection, Surjection, IsInjective
<1>5. ExistsBijection(1 .. Len(s), S)
  BY <1>4 DEF ExistsBijection
<1> QED
  BY <1>2, <1>5, FS_CountingElements, FS_NatBijection

(* Putting a new element at the end.                                       *)
LEMMA ListsAppend ==
  ASSUME NEW A, NEW s \in Seq(A), NEW S, Lists(s, S), NEW e \in A, e \notin S
  PROVE  Lists(Append(s, e), S \cup {e})
<1> DEFINE t == Append(s, e)
<1>1. /\ \A i, j \in 1 .. Len(s) : s[i] = s[j] => i = j
      /\ \A i \in 1 .. Len(s) : s[i] \in S
      /\ \A x \in S : \E i \in 1 .. Len(s) : s[i] = x
  BY ListsPlaces
<1>2. /\ t \in Seq(A) /\ Len(t) = Len(s) + 1 /\ Len(s) \in Nat
      /\ t[Len(s) + 1] = e /\ \A i \in 1 .. Len(s) : t[i] = s[i]
  OBVIOUS
<1> HIDE DEF t
<1>3. \A i \in 1 .. Len(t) : i \in 1 .. Len(s) \/ i = Len(s) + 1
  BY <1>2
<1>4. \A i, j \in 1 .. Len(t) : t[i] = t[j] => i = j
  BY <1>1, <1>2, <1>3
<1>5. \A i \in 1 .. Len(t) : t[i] \in S \cup {e}
  BY <1>1, <1>2, <1>3
<1>6. \A x \in S \cup {e} : \E i \in 1 .. Len(t) : t[i] = x
  <2>1. \A i \in 1 .. Len(s) : i \in 1 .. Len(t)
    BY <1>2
  <2>2. Len(s) + 1 \in 1 .. Len(t)
    BY <1>2
  <2> QED
    BY <1>1, <1>2, <2>1, <2>2
<1>7. Lists(t, S \cup {e})
  BY <1>2, <1>4, <1>5, <1>6, ListsPlaces
<1> QED
  BY <1>7 DEF t

(* Putting one in before another.                                          *)
LEMMA ListsInsert ==
  ASSUME NEW A, NEW s \in Seq(A), NEW S, Lists(s, S), NEW e \in A, e \notin S,
         NEW i \in 1 .. Len(s)
  PROVE  Lists(InsertAt(s, i, e), S \cup {e})
<1> DEFINE t == InsertAt(s, i, e)
<1>1. /\ \A m, n \in 1 .. Len(s) : s[m] = s[n] => m = n
      /\ \A m \in 1 .. Len(s) : s[m] \in S
      /\ \A x \in S : \E m \in 1 .. Len(s) : s[m] = x
  BY ListsPlaces
<1>2. /\ t \in Seq(A) /\ Len(t) = Len(s) + 1 /\ Len(s) \in Nat
      /\ \A j \in 1 .. Len(s) + 1 :
           t[j] = IF j < i THEN s[j] ELSE IF j = i THEN e ELSE s[j - 1]
  BY InsertAtSeq
<1> HIDE DEF t
<1> DEFINE Old(j) == IF j < i THEN j ELSE j - 1
<1>7. \A j \in 1 .. Len(t) : j # i => Old(j) \in 1 .. Len(s) /\ t[j] = s[Old(j)]
  BY <1>2
<1>8. t[i] = e /\ \A m, n \in 1 .. Len(t) : m # i /\ n # i /\ Old(m) = Old(n) => m = n
  BY <1>2
<1> HIDE DEF Old
<1>3. \A m, n \in 1 .. Len(t) : t[m] = t[n] => m = n
  <2> SUFFICES ASSUME NEW m \in 1 .. Len(t), NEW n \in 1 .. Len(t), t[m] = t[n]
               PROVE  m = n
    OBVIOUS
  <2>3. m = i <=> n = i
    BY <1>1, <1>7, <1>8
  <2>4. m # i => Old(m) = Old(n)
    BY <1>1, <1>7, <2>3
  <2> QED
    BY <1>8, <2>3, <2>4
<1>4. \A j \in 1 .. Len(t) : t[j] \in S \cup {e}
  BY <1>1, <1>7, <1>8
<1>5. \A x \in S \cup {e} : \E j \in 1 .. Len(t) : t[j] = x
  <2> SUFFICES ASSUME NEW x \in S PROVE \E j \in 1 .. Len(t) : t[j] = x
    BY <1>2
  <2>1. PICK m \in 1 .. Len(s) : s[m] = x
    BY <1>1
  <2>2. CASE m < i
    BY <1>2, <2>1, <2>2
  <2>3. CASE ~ (m < i)
    <3>1. m + 1 \in 1 .. Len(t) /\ t[m + 1] = s[m]
      BY <1>2, <2>3
    <3> QED
      BY <2>1, <3>1
  <2> QED
    BY <2>2, <2>3
<1>6. Lists(t, S \cup {e})
  BY <1>2, <1>3, <1>4, <1>5, ListsPlaces
<1> QED
  BY <1>6 DEF t

(* Taking one out, wherever it is.                                         *)
LEMMA ListsRemove ==
  ASSUME NEW A, NEW s \in Seq(A), NEW S, Lists(s, S), NEW i \in 1 .. Len(s)
  PROVE  Lists(RemoveAt(s, i), S \ {s[i]})
<1> DEFINE t == RemoveAt(s, i)
           Old(j) == IF j < i THEN j ELSE j + 1
<1>1. /\ \A m, n \in 1 .. Len(s) : s[m] = s[n] => m = n
      /\ \A m \in 1 .. Len(s) : s[m] \in S
      /\ \A x \in S : \E m \in 1 .. Len(s) : s[m] = x
  BY ListsPlaces
<1>2. /\ t \in Seq(A) /\ Len(t) = Len(s) - 1 /\ Len(s) \in Nat
      /\ \A j \in 1 .. Len(s) - 1 : t[j] = IF j < i THEN s[j] ELSE s[j + 1]
  <2>1. /\ t \in Seq(A) /\ Len(t) = Len(s) - 1
        /\ \A j \in 1 .. Len(s) - 1 : t[j] = IF j < i THEN s[j] ELSE s[j + 1]
    BY RemoveAtSeq, Zenon
  <2>2. Len(s) \in Nat
    OBVIOUS
  <2> QED
    BY <2>1, <2>2
<1> HIDE DEF t
<1>3. ASSUME NEW j \in 1 .. Len(t)
      PROVE  Old(j) \in 1 .. Len(s) /\ Old(j) # i /\ t[j] = s[Old(j)]
  <2>1. /\ j \in Nat /\ 1 <= j /\ j <= Len(s) - 1 /\ i \in Nat /\ 1 <= i /\ i <= Len(s)
        /\ j \in 1 .. Len(s) - 1
    BY <1>2
  <2>2. t[j] = IF j < i THEN s[j] ELSE s[j + 1]
    BY <1>2, <2>1
  <2>3. Old(j) \in 1 .. Len(s) /\ Old(j) # i
    BY <1>2, <2>1
  <2> QED
    BY <2>2, <2>3
<1>4. \A m, n \in 1 .. Len(t) : Old(m) = Old(n) => m = n
  BY <1>2
<1> HIDE DEF Old
<1>5. \A m, n \in 1 .. Len(t) : t[m] = t[n] => m = n
  BY <1>1, <1>4, <1>3
<1>6. \A j \in 1 .. Len(t) : t[j] \in S \ {s[i]}
  BY <1>1, <1>3
<1>7. \A x \in S \ {s[i]} : \E j \in 1 .. Len(t) : t[j] = x
  <2> SUFFICES ASSUME NEW x \in S, x # s[i] PROVE \E j \in 1 .. Len(t) : t[j] = x
    OBVIOUS
  <2>1. PICK m \in 1 .. Len(s) : s[m] = x
    BY <1>1
  <2> DEFINE j == IF m < i THEN m ELSE m - 1
  <2>2. j \in 1 .. Len(t) /\ Old(j) = m
    BY <1>2, <2>1 DEF Old
  <2> HIDE DEF j
  <2> QED
    BY <1>3, <2>1, <2>2
<1>8. Lists(t, S \ {s[i]})
  BY <1>2, <1>5, <1>6, <1>7, ListsPlaces
<1> QED
  BY <1>8 DEF t

(* Splitting: the first n, and the others.                                 *)
LEMMA ListsSplit ==
  ASSUME NEW A, NEW s \in Seq(A), NEW S, Lists(s, S), NEW n \in 0 .. Len(s)
  PROVE  LET due == {s[i] : i \in 1 .. n} IN
         /\ due \subseteq S
         /\ SubSeq(s, 1, n) \in Seq(A) /\ Lists(SubSeq(s, 1, n), due)
         /\ SubSeq(s, n + 1, Len(s)) \in Seq(A)
         /\ Lists(SubSeq(s, n + 1, Len(s)), S \ due)
<1> DEFINE due == {s[i] : i \in 1 .. n}
           a   == SubSeq(s, 1, n)
           b   == SubSeq(s, n + 1, Len(s))
<1>1. /\ \A i, j \in 1 .. Len(s) : s[i] = s[j] => i = j
      /\ \A i \in 1 .. Len(s) : s[i] \in S
      /\ \A x \in S : \E i \in 1 .. Len(s) : s[i] = x
  BY ListsPlaces
<1>2. Len(s) \in Nat
  OBVIOUS
<1>3. a \in Seq(A) /\ Len(a) = n /\ \A i \in 1 .. n : a[i] = s[i]
  BY <1>2
<1>4. /\ b \in Seq(A) /\ Len(b) = Len(s) - n
      /\ \A i \in 1 .. Len(b) : b[i] = s[i + n] /\ i + n \in 1 .. Len(s) /\ i + n > n
  BY <1>2
<1> HIDE DEF a, b
<1>5. due \subseteq S
  BY <1>1
<1>6. Lists(a, due)
  <2>1. \A i \in 1 .. n : i \in 1 .. Len(s)
    BY <1>2
  <2> QED
    BY <1>1, <1>3, <2>1, ListsPlaces
<1>7. Lists(b, S \ due)
  <2>1. ASSUME NEW i \in 1 .. Len(b), NEW j \in 1 .. Len(b), b[i] = b[j]
        PROVE  i = j
    <3>1. i + n = j + n
      BY <1>1, <1>4, <2>1
    <3> QED
      BY <3>1, <1>4
  <2>2. ASSUME NEW i \in 1 .. Len(b) PROVE b[i] \in S \ due
    <3>1. i + n \in 1 .. Len(s) /\ ~ (i + n \in 1 .. n) /\ b[i] = s[i + n]
      BY <1>4
    <3>2. \A j \in 1 .. n : j \in 1 .. Len(s)
      BY <1>2
    <3> QED
      BY <3>1, <3>2, <1>1
  <2>3. \A x \in S \ due : \E i \in 1 .. Len(b) : b[i] = x
    <3> SUFFICES ASSUME NEW x \in S \ due PROVE \E i \in 1 .. Len(b) : b[i] = x
      OBVIOUS
    <3>1. PICK m \in 1 .. Len(s) : s[m] = x
      BY <1>1
    <3>2. ~ (m \in 1 .. n)
      BY <3>1
    <3>3. m - n \in 1 .. Len(b) /\ (m - n) + n = m
      BY <3>1, <3>2, <1>2, <1>4
    <3>4. b[m - n] = x
      BY <3>1, <3>3, <1>4
    <3> QED
      BY <3>3, <3>4
  <2> QED
    BY <1>4, <2>1, <2>2, <2>3, ListsPlaces
<1> QED
  BY <1>3, <1>4, <1>5, <1>6, <1>7 DEF a, b

(* Taking the first.                                                       *)
LEMMA ListsTail ==
  ASSUME NEW A, NEW s \in Seq(A), NEW S, Lists(s, S), s # << >>
  PROVE  /\ Head(s) \in S /\ Tail(s) \in Seq(A)
         /\ Lists(Tail(s), S \ {Head(s)})
<1>1. 1 \in 1 .. Len(s) /\ s[1] = Head(s) /\ Tail(s) \in Seq(A) /\ 1 \in 0 .. Len(s)
  OBVIOUS
<1>2. Tail(s) = SubSeq(s, 1 + 1, Len(s))
  OBVIOUS
<1>3. {s[i] : i \in 1 .. 1} = {Head(s)}
  BY <1>1
<1>4. Lists(SubSeq(s, 1 + 1, Len(s)), S \ {s[i] : i \in 1 .. 1})
  BY <1>1, ListsSplit
<1>5. Head(s) \in S
  <2>1. \A i \in 1 .. Len(s) : s[i] \in S
    BY ListsPlaces
  <2>2. s[1] \in S
    BY <1>1, <2>1, Zenon
  <2> QED
    BY <1>1, <2>2, Zenon
<1> QED
  BY <1>1, <1>2, <1>3, <1>4, <1>5

(* One list after another with other elements.                             *)
LEMMA ListsConcat ==
  ASSUME NEW A, NEW s \in Seq(A), NEW S, Lists(s, S),
         NEW t \in Seq(A), NEW T, Lists(t, T), S \cap T = {}
  PROVE  s \o t \in Seq(A) /\ Lists(s \o t, S \cup T)
<1> DEFINE u == s \o t
<1>1. /\ \A i, j \in 1 .. Len(s) : s[i] = s[j] => i = j
      /\ \A i \in 1 .. Len(s) : s[i] \in S
      /\ \A x \in S : \E i \in 1 .. Len(s) : s[i] = x
  BY ListsPlaces
<1>2. /\ \A i, j \in 1 .. Len(t) : t[i] = t[j] => i = j
      /\ \A i \in 1 .. Len(t) : t[i] \in T
      /\ \A x \in T : \E i \in 1 .. Len(t) : t[i] = x
  BY ListsPlaces
<1>3. /\ u \in Seq(A) /\ Len(u) = Len(s) + Len(t) /\ Len(s) \in Nat /\ Len(t) \in Nat
      /\ \A i \in 1 .. Len(s) : u[i] = s[i]
      /\ \A i \in 1 .. Len(t) : u[i + Len(s)] = t[i]
  BY ConcatProperties
<1> HIDE DEF u
<1>4. \A i \in 1 .. Len(u) :
        \/ i \in 1 .. Len(s) /\ u[i] = s[i]
        \/ /\ i - Len(s) \in 1 .. Len(t) /\ u[i] = t[i - Len(s)]
           /\ (i - Len(s)) + Len(s) = i
  BY <1>3, SMTT(30)
<1>5. \A i \in 1 .. Len(s) : i \in 1 .. Len(u)
  BY <1>3
<1>6. \A i \in 1 .. Len(t) : i + Len(s) \in 1 .. Len(u)
  BY <1>3
<1>7. ASSUME NEW i \in 1 .. Len(u), NEW j \in 1 .. Len(u), u[i] = u[j]
      PROVE  i = j
  <2>1. CASE i \in 1 .. Len(s) /\ u[i] = s[i]
    <3>1. j \in 1 .. Len(s) /\ u[j] = s[j]
      BY <1>1, <1>2, <1>4, <1>7, <2>1, ZenonT(60)
    <3> QED
      BY <1>1, <1>7, <2>1, <3>1
  <2>2. CASE /\ i - Len(s) \in 1 .. Len(t) /\ u[i] = t[i - Len(s)]
             /\ (i - Len(s)) + Len(s) = i
    <3>1. /\ j - Len(s) \in 1 .. Len(t) /\ u[j] = t[j - Len(s)]
          /\ (j - Len(s)) + Len(s) = j
      BY <1>1, <1>2, <1>4, <1>7, <2>2
    <3>2. i - Len(s) = j - Len(s)
      BY <1>2, <1>7, <2>2, <3>1
    <3> QED
      BY <2>2, <3>1, <3>2
  <2> QED
    BY <1>4, <2>1, <2>2
<1>8. \A i \in 1 .. Len(u) : u[i] \in S \cup T
  BY <1>1, <1>2, <1>4
<1>9. ASSUME NEW x \in S \cup T PROVE \E i \in 1 .. Len(u) : u[i] = x
  <2>1. CASE x \in S
    <3>1. PICK i \in 1 .. Len(s) : s[i] = x
      BY <1>1, <2>1
    <3> QED
      BY <1>3, <1>5, <3>1
  <2>2. CASE x \in T
    <3>1. PICK i \in 1 .. Len(t) : t[i] = x
      BY <1>2, <2>2
    <3>2. u[i + Len(s)] = x /\ i + Len(s) \in 1 .. Len(u)
      BY <1>3, <1>6, <3>1
    <3> QED
      BY <3>2
  <2> QED
    BY <2>1, <2>2
<1>10. Lists(u, S \cup T)
  BY <1>3, <1>7, <1>8, <1>9, ListsPlaces
<1> QED
  BY <1>3, <1>10 DEF u

-----------------------------------------------------------------------------
(* Updates of the fields of a kernel state and of a PCB.                   *)

(* Storing a PCB in the table keeps a kernel state a kernel state.         *)
LEMMA SetPcb ==
  ASSUME NEW k \in KernelState, NEW p \in Pcb, NEW r \in PcbRecord
  PROVE  [k EXCEPT !.pcb[p] = r] \in KernelState
BY DEF KernelState

(* The range of every field of a PCB.                                      *)
LEMMA PcbFields ==
  ASSUME NEW x \in PcbRecord
  PROVE  /\ x.state \in PState /\ x.pid \in 0 .. PID_NONE /\ x.ppid \in 0 .. PID_NONE
         /\ x.children \in Nat /\ x.prio \in Nat /\ x.wakeup \in 0 .. TIME_MOD - 1
         /\ x.exitstatus \in Int /\ x.stack \in Stack \cup {NoStack}
         /\ x.q_ticks \in 0 .. 255
BY DEF PcbRecord

(* A PCB with another state is a PCB.                                      *)
LEMMA SetState ==
  ASSUME NEW x \in PcbRecord, NEW st \in PState
  PROVE  [x EXCEPT !.state = st] \in PcbRecord
BY DEF PcbRecord

(* A PCB with another priority, or priority and state, is a PCB.           *)
LEMMA SetPrioState ==
  ASSUME NEW x \in PcbRecord, NEW prio \in Nat, NEW st \in PState
  PROVE  /\ [x EXCEPT !.prio = prio] \in PcbRecord
         /\ [x EXCEPT !.prio = prio, !.state = st] \in PcbRecord
BY DEF PcbRecord

(* A PCB with another quantum, or state and quantum, is a PCB (_dispatch,  *)
(* _clk_isr).                                                              *)
LEMMA SetStateTicks ==
  ASSUME NEW x \in PcbRecord, NEW st \in PState, NEW n \in 0 .. 255
  PROVE  /\ [x EXCEPT !.q_ticks = n] \in PcbRecord
         /\ [x EXCEPT !.state = st, !.q_ticks = n] \in PcbRecord
BY DEF PcbRecord

(* A PCB with another state and exit status is a PCB (_sys_exit,           *)
(* _sys_kill).                                                             *)
LEMMA SetFate ==
  ASSUME NEW x \in PcbRecord, NEW status \in Int, NEW st \in PState
  PROVE  /\ [x EXCEPT !.exitstatus = status, !.state = st] \in PcbRecord
         /\ [x EXCEPT !.state = st, !.exitstatus = status] \in PcbRecord
BY DEF PcbRecord

(* A PCB with another parent and count of children is a PCB (_zombify).    *)
LEMMA SetFamily ==
  ASSUME NEW x \in PcbRecord, NEW ppid \in 0 .. PID_NONE, NEW n \in Nat
  PROVE  /\ [x EXCEPT !.children = n] \in PcbRecord
         /\ [x EXCEPT !.ppid = ppid, !.children = n] \in PcbRecord
BY DEF PcbRecord

(* A PCB with another wakeup time, state and priority is a PCB             *)
(* (_sys_sleep, _clk_isr).                                                 *)
LEMMA SetWakeup ==
  ASSUME NEW x \in PcbRecord, NEW t \in 0 .. TIME_MOD - 1, NEW st \in PState,
         NEW prio \in Nat
  PROVE  /\ [x EXCEPT !.wakeup = t, !.state = st] \in PcbRecord
         /\ [x EXCEPT !.state = st, !.wakeup = t, !.prio = prio] \in PcbRecord
BY DEF PcbRecord

(* A copy of a PCB with an identity of its own is a PCB (_sys_fork).       *)
LEMMA SetIdentity ==
  ASSUME NEW x \in PcbRecord, NEW pid \in 0 .. PID_NONE, NEW ppid \in 0 .. PID_NONE,
         NEW s \in Stack \cup {NoStack}
  PROVE  [x EXCEPT !.pid = pid, !.ppid = ppid, !.stack = s] \in PcbRecord
BY DEF PcbRecord

(* The states a PCB can be given.                                          *)
LEMMA States ==
  {PS_FREE, PS_NEW, PS_READY, PS_RUNNING, PS_SLEEPING, PS_WAITING, PS_BLOCKED,
   PS_KILLED, PS_ZOMBIE} \subseteq PState
BY DEF PState, PS_FREE, PS_NEW, PS_READY, PS_RUNNING, PS_SLEEPING, PS_WAITING,
   PS_BLOCKED, PS_KILLED, PS_ZOMBIE

(* Giving a queue another sequence of PCBs, and changing the number of     *)
(* free qnodes, keeps a kernel state a kernel state.                       *)
LEMMA SetQueue ==
  ASSUME NEW k \in KernelState, NEW q \in QueueId, NEW s \in Seq(Pcb), NEW n \in Int
  PROVE  [k EXCEPT !.queue[q] = s, !.qnodes = n] \in KernelState
BY DEF KernelState

(* So does changing the queue of free stacks and the number of free        *)
(* qnodes.                                                                 *)
LEMMA SetStacks ==
  ASSUME NEW k \in KernelState, NEW s \in Seq(Stack), NEW n \in Int
  PROVE  [k EXCEPT !.free_stacks = s, !.qnodes = n] \in KernelState
BY DEF KernelState

(* So does storing the results of a call in a process' saved registers.    *)
LEMMA SetReturned ==
  ASSUME NEW k \in KernelState, NEW p \in Pcb, NEW v \in Seq(Int)
  PROVE  [k EXCEPT !.returned[p] = v] \in KernelState
BY DEF KernelState

(* So does changing the current process together with its PCB.             *)
LEMMA SetCurrent ==
  ASSUME NEW k \in KernelState, NEW p \in Pcb, NEW r \in PcbRecord
  PROVE  [k EXCEPT !.current = p, !.pcb[p] = r] \in KernelState
BY DEF KernelState

(* A panic only changes where the kernel has given up (_kpanic).           *)
LEMMA PanicType ==
  ASSUME NEW k \in KernelState, NEW site \in PanicSite
  PROVE  Panic(k, site) \in KernelState
BY DEF KernelState, Panic

(* The range of every field of a kernel state.                             *)
LEMMA KernelFields ==
  ASSUME NEW k \in KernelState
  PROVE  /\ k.pcb \in [Pcb -> PcbRecord]
         /\ k.queue \in [QueueId -> Seq(Pcb)]
         /\ k.free_stacks \in Seq(Stack)
         /\ k.qnodes \in Int /\ k.current \in Pcb
         /\ k.next_pid \in 0 .. PID_LIMIT /\ k.now \in 0 .. TIME_MOD - 1
         /\ k.incount \in 0 .. BUF_SIZE /\ k.console \in 0 .. C_BUFSIZE - 1
         /\ k.returned \in [Pcb -> Seq(Int)] /\ k.panic \in PanicSite
BY DEF KernelState

-----------------------------------------------------------------------------
(* The subroutines of KernelOps keep a kernel state a kernel state.        *)

(* _q_enque of a PCB, at its place in the sleep queue or at the end of     *)
(* another.                                                                *)
LEMMA EnqueType ==
  ASSUME NEW k \in KernelState, NEW q \in QueueId, NEW p \in Pcb
  PROVE  Enque(k, q, p) \in KernelState
<1>1. Behind(k, p) \in SUBSET Nat /\ Behind(k, p) \subseteq 1 .. Len(k.queue["sleeping"])
  BY KernelFields DEF Behind, QueueId
<1>2. k.queue[q] \in Seq(Pcb)
  BY KernelFields
<1> DEFINE s == IF q = "sleeping" /\ Behind(k, p) # {}
                THEN InsertAt(k.queue[q], Min(Behind(k, p)), p)
                ELSE Append(k.queue[q], p)
<1>3. s \in Seq(Pcb)
  <2>1. CASE q = "sleeping" /\ Behind(k, p) # {}
    <3>1. Min(Behind(k, p)) \in 1 .. Len(k.queue[q])
      BY <1>1, <2>1, MinNat
    <3> QED
      BY <2>1, <3>1, <1>2, InsertAtSeq
  <2>2. CASE ~ (q = "sleeping" /\ Behind(k, p) # {})
    BY <2>2, <1>2
  <2> QED
    BY <2>1, <2>2
<1>4. k.qnodes - 1 \in Int
  BY KernelFields
<1>5. Enque(k, q, p) = [k EXCEPT !.queue[q] = s, !.qnodes = k.qnodes - 1]
  BY DEF Enque
<1> HIDE DEF s
<1>6. [k EXCEPT !.queue[q] = s, !.qnodes = k.qnodes - 1] \in KernelState
  BY <1>3, <1>4, SetQueue
<1> QED
  BY <1>5, <1>6

(* _q_enque where the kernel gives up when there is no qnode.              *)
LEMMA EnqueOrPanicType ==
  ASSUME NEW k \in KernelState, NEW q \in QueueId, NEW p \in Pcb, NEW site \in PanicSite
  PROVE  EnqueOrPanic(k, q, p, site) \in KernelState
BY EnqueType, PanicType DEF EnqueOrPanic

(* _q_deque of a queue that is not empty returns a PCB and leaves the      *)
(* table alone.                                                            *)
LEMMA DequeType ==
  ASSUME NEW k \in KernelState, NEW q \in QueueId, k.queue[q] # << >>
  PROVE  /\ Deque(k, q) \in KernelState
         /\ Head(k.queue[q]) \in Pcb
         /\ Deque(k, q).pcb = k.pcb /\ Deque(k, q).current = k.current
<1>1. k.queue[q] \in Seq(Pcb) /\ k.qnodes + 1 \in Int
  BY KernelFields
<1>2. Tail(k.queue[q]) \in Seq(Pcb) /\ Head(k.queue[q]) \in Pcb
  BY <1>1
<1>3. [k EXCEPT !.queue[q] = Tail(k.queue[q]), !.qnodes = k.qnodes + 1] \in KernelState
  BY <1>1, <1>2, SetQueue
<1>4. Deque(k, q).pcb = k.pcb /\ Deque(k, q).current = k.current
  BY DEF Deque, KernelState
<1> QED
  BY <1>2, <1>3, <1>4 DEF Deque

(* _q_remove of a PCB, where the kernel gives up if it is not on the       *)
(* queue.                                                                  *)
LEMMA RemoveOrPanicType ==
  ASSUME NEW k \in KernelState, NEW q \in QueueId, NEW p \in Pcb, NEW site \in PanicSite
  PROVE  /\ RemoveOrPanic(k, q, p, site) \in KernelState
         /\ RemoveOrPanic(k, q, p, site).pcb = k.pcb
<1> DEFINE s    == k.queue[q]
           here == {i \in 1 .. Len(s) : s[i] = p}
<1>1. s \in Seq(Pcb) /\ k.qnodes + 1 \in Int
  BY KernelFields
<1>2. CASE here = {}
  <2>1. RemoveOrPanic(k, q, p, site) = Panic(k, site)
    BY <1>2 DEF RemoveOrPanic
  <2>2. Panic(k, site).pcb = k.pcb
    BY DEF Panic, KernelState
  <2> QED
    BY <2>1, <2>2, PanicType
<1>3. CASE here # {}
  <2>1. here \in SUBSET Nat
    BY <1>1
  <2>2. Min(here) \in here
    BY <1>3, <2>1, MinNat
  <2>3. RemoveAt(s, Min(here)) \in Seq(Pcb)
    BY <1>1, <2>2, RemoveAtSeq
  <2>4. RemoveOrPanic(k, q, p, site) =
          [k EXCEPT !.queue[q] = RemoveAt(s, Min(here)), !.qnodes = k.qnodes + 1]
    BY <1>3 DEF RemoveOrPanic
  <2>5. [k EXCEPT !.queue[q] = RemoveAt(s, Min(here)), !.qnodes = k.qnodes + 1].pcb = k.pcb
    BY DEF KernelState
  <2>6. [k EXCEPT !.queue[q] = RemoveAt(s, Min(here)), !.qnodes = k.qnodes + 1] \in KernelState
    BY <1>1, <2>3, SetQueue
  <2> QED
    BY <2>4, <2>5, <2>6
<1> QED
  BY <1>2, <1>3

(* The recursion that defines Only has a solution, one entry at a time.    *)
LEMMA OnlyExists ==
  ASSUME NEW S, NEW s \in Seq(S), NEW T
  PROVE  \E f : f = [i \in 0 .. Len(s) |->
                       IF i = 0 THEN << >>
                       ELSE IF s[i] \in T THEN Append(f[i - 1], s[i]) ELSE f[i - 1]]
<1> DEFINE Step(t, i) == IF s[i] \in T THEN Append(t, s[i]) ELSE t
           UpTo(m) == {g \in [0 .. m -> Seq(S)] :
                         /\ g[0] = << >>
                         /\ \A i \in 1 .. m : g[i] = Step(g[i - 1], i)}
           Bad == {m \in 0 .. Len(s) : UpTo(m) = {}}
<1>1. Bad = {}
  <2> SUFFICES ASSUME Bad # {} PROVE FALSE
    OBVIOUS
  <2>1. Bad \in SUBSET Nat
    OBVIOUS
  <2>2. PICK m \in Bad : \A x \in Bad : m <= x
    BY <2>1, LeastNat
  <2>3. m # 0
    <3>1. [i \in 0 .. 0 |-> << >>] \in UpTo(0)
      OBVIOUS
    <3> QED
      BY <3>1, <2>2
  <2>4. m - 1 \in 0 .. Len(s) /\ m \in 1 .. Len(s) /\ m - 1 \notin Bad
    <3>1. m \in 0 .. Len(s)
      BY <2>2
    <3>2. m - 1 \in 0 .. Len(s) /\ m \in 1 .. Len(s)
      BY <3>1, <2>3
    <3> HIDE DEF Bad
    <3>3. m - 1 \notin Bad
      BY <3>1, <2>2
    <3> QED
      BY <3>2, <3>3
  <2>5. PICK g \in UpTo(m - 1) : TRUE
    BY <2>4
  <2> DEFINE h == [i \in 0 .. m |-> IF i = m THEN Step(g[m - 1], m) ELSE g[i]]
  <2>6. Step(g[m - 1], m) \in Seq(S)
    BY <2>4, <2>5
  <2>7. h \in [0 .. m -> Seq(S)]
    BY <2>4, <2>5, <2>6
  <2>8. h[0] = << >>
    BY <2>4, <2>5
  <2>9. \A i \in 1 .. m : h[i] = Step(h[i - 1], i)
    <3> SUFFICES ASSUME NEW i \in 1 .. m PROVE h[i] = Step(h[i - 1], i)
      OBVIOUS
    <3>1. h[i - 1] = g[i - 1]
      BY <2>4
    <3>2. CASE i = m
      BY <3>1, <3>2
    <3>3. CASE i # m
      <4>1. i \in 1 .. m - 1 /\ h[i] = g[i]
        BY <3>3, <2>4
      <4> QED
        BY <4>1, <3>1, <2>5
    <3> QED
      BY <3>2, <3>3
  <2>10. h \in UpTo(m)
    BY <2>7, <2>8, <2>9
  <2> QED
    BY <2>10, <2>2
<1>2. UpTo(Len(s)) # {}
  BY <1>1, SMTT(30)
<1>3. PICK g \in UpTo(Len(s)) : TRUE
  BY <1>2
<1>4. g = [i \in 0 .. Len(s) |->
             IF i = 0 THEN << >>
             ELSE IF s[i] \in T THEN Append(g[i - 1], s[i]) ELSE g[i - 1]]
  <2>1. g = [i \in 0 .. Len(s) |-> g[i]]
    BY <1>3
  <2>2. \A i \in 0 .. Len(s) :
          g[i] = IF i = 0 THEN << >>
                 ELSE IF s[i] \in T THEN Append(g[i - 1], s[i]) ELSE g[i - 1]
    <3>1. g[0] = << >> /\ \A i \in 1 .. Len(s) : g[i] = Step(g[i - 1], i)
      BY <1>3
    <3> SUFFICES ASSUME NEW i \in 0 .. Len(s)
                 PROVE  g[i] = IF i = 0 THEN << >>
                               ELSE IF s[i] \in T THEN Append(g[i - 1], s[i]) ELSE g[i - 1]
      OBVIOUS
    <3>2. CASE i = 0
      BY <3>1, <3>2
    <3>3. CASE i # 0
      <4>1. i \in 1 .. Len(s)
        BY <3>3
      <4>2. g[i] = Step(g[i - 1], i)
        BY <3>1, <4>1
      <4> QED
        BY <3>3, <4>2
    <3> QED
      BY <3>2, <3>3
  <2> QED
    BY <2>1, <2>2, Zenon
<1> QED
  BY <1>4

(* So Only is the last value of a function that takes the entries of s in  *)
(* turn.                                                                   *)
LEMMA OnlySteps ==
  ASSUME NEW S, NEW s \in Seq(S), NEW T
  PROVE  \E only :
           /\ Only(s, T) = only[Len(s)]
           /\ \A i \in 0 .. Len(s) :
                only[i] = IF i = 0 THEN << >>
                          ELSE IF s[i] \in T THEN Append(only[i - 1], s[i]) ELSE only[i - 1]
<1> DEFINE Rec(f) == f = [i \in 0 .. Len(s) |->
                       IF i = 0 THEN << >>
                       ELSE IF s[i] \in T THEN Append(f[i - 1], s[i]) ELSE f[i - 1]]
           only == CHOOSE f : Rec(f)
<1>1. \A i \in 0 .. Len(s) :
        only[i] = IF i = 0 THEN << >>
                  ELSE IF s[i] \in T THEN Append(only[i - 1], s[i]) ELSE only[i - 1]
  <2>1. \E f : Rec(f)
    BY OnlyExists, ZenonT(60)
  <2> HIDE DEF Rec
  <2>2. Rec(only)
    BY <2>1, Zenon
  <2> USE DEF Rec
  <2> HIDE DEF only
  <2> QED
    BY <2>2, Zenon
<1>2. Only(s, T) = only[Len(s)]
  BY DEF Only
<1> HIDE DEF only
<1> QED
  BY <1>1, <1>2

(* So Only selects a sequence of the same set.                             *)
LEMMA OnlySeq ==
  ASSUME NEW S, NEW s \in Seq(S), NEW T
  PROVE  Only(s, T) \in Seq(S)
<1>1. PICK only :
        /\ Only(s, T) = only[Len(s)]
        /\ \A i \in 0 .. Len(s) :
             only[i] = IF i = 0 THEN << >>
                       ELSE IF s[i] \in T THEN Append(only[i - 1], s[i]) ELSE only[i - 1]
  BY OnlySteps
<1> DEFINE Bad == {m \in 0 .. Len(s) : only[m] \notin Seq(S)}
<1>2. Bad = {}
  <2> SUFFICES ASSUME Bad # {} PROVE FALSE
    OBVIOUS
  <2>1. Bad \in SUBSET Nat
    OBVIOUS
  <2>2. PICK m \in Bad : \A x \in Bad : m <= x
    BY <2>1, LeastNat
  <2>3. m # 0
    <3>1. 0 \in 0 .. Len(s)
      OBVIOUS
    <3>2. only[0] = << >> /\ << >> \in Seq(S)
      BY <1>1, <3>1
    <3>3. only[m] \notin Seq(S)
      BY <2>2
    <3> QED
      BY <3>2, <3>3
  <2>4. m - 1 \in 0 .. Len(s) /\ m \in 1 .. Len(s) /\ only[m - 1] \in Seq(S)
    BY <2>2, <2>3
  <2>5. only[m] = IF s[m] \in T THEN Append(only[m - 1], s[m]) ELSE only[m - 1]
    BY <1>1, <2>4
  <2>6. s[m] \in S
    BY <2>4
  <2>7. only[m] \in Seq(S)
    BY <2>4, <2>5, <2>6
  <2> QED
    BY <2>2, <2>7
<1> QED
  BY <1>1, <1>2

(* The ready queue of a legal priority is one of the queues.               *)
LEMMA ReadyType ==
  ASSUME NEW prio \in Prio
  PROVE  Ready(prio) \in ReadyId /\ Ready(prio) \in QueueId
BY DEF Ready, ReadyId, QueueId

(* A freed PCB is a PCB.                                                   *)
LEMMA FreePcbType == FreePcb \in PcbRecord
BY KernelConstants DEF FreePcb, PcbRecord, PState, PS_FREE, PS_ZOMBIE, P_SYSTEM,
   PID_NONE, NoStack

(* _stk_alloc with a free stack returns a stack.                           *)
LEMMA StkAllocType ==
  ASSUME NEW k \in KernelState, k.free_stacks # << >>
  PROVE  /\ StkAlloc(k) \in KernelState /\ Head(k.free_stacks) \in Stack
         /\ StkAlloc(k).pcb = k.pcb
<1>1. k.free_stacks \in Seq(Stack) /\ k.qnodes + 1 \in Int
  BY KernelFields
<1>2. Tail(k.free_stacks) \in Seq(Stack) /\ Head(k.free_stacks) \in Stack
  BY <1>1
<1>3. [k EXCEPT !.free_stacks = Tail(k.free_stacks), !.qnodes = k.qnodes + 1] \in KernelState
  BY <1>1, <1>2, SetStacks
<1>4. StkAlloc(k).pcb = k.pcb
  BY DEF StkAlloc, KernelState
<1> QED
  BY <1>2, <1>3, <1>4 DEF StkAlloc

(* _stk_dealloc of a stack, or of no stack at all.                         *)
LEMMA StkDeallocType ==
  ASSUME NEW k \in KernelState, NEW s \in Stack \cup {NoStack}
  PROVE  StkDealloc(k, s) \in KernelState
<1>1. CASE s = NoStack \/ k.qnodes = 0
  BY <1>1 DEF StkDealloc
<1>2. CASE ~ (s = NoStack \/ k.qnodes = 0)
  <2>1. s \in Stack
    BY <1>2
  <2>2. Append(k.free_stacks, s) \in Seq(Stack) /\ k.qnodes - 1 \in Int
    BY <2>1, KernelFields
  <2>3. [k EXCEPT !.free_stacks = Append(k.free_stacks, s), !.qnodes = k.qnodes - 1]
          \in KernelState
    BY <2>2, SetStacks
  <2> QED
    BY <1>2, <2>3 DEF StkDealloc
<1> QED
  BY <1>1, <1>2

(* _pcb_alloc with a free PCB returns a PCB.                               *)
LEMMA PcbAllocType ==
  ASSUME NEW k \in KernelState, k.queue["free_pcbs"] # << >>
  PROVE  PcbAlloc(k) \in KernelState /\ Head(k.queue["free_pcbs"]) \in Pcb
<1>1. "free_pcbs" \in QueueId
  BY DEF QueueId
<1> DEFINE d == Deque(k, "free_pcbs")
           p == Head(k.queue["free_pcbs"])
           r == [d.pcb[p] EXCEPT !.state = PS_NEW]
<1>2. d \in KernelState /\ p \in Pcb
  BY <1>1, DequeType
<1>3. d.pcb[p] \in PcbRecord
  BY <1>2, KernelFields
<1>4. r \in PcbRecord
  BY <1>3, States, SetState
<1>5. PcbAlloc(k) = [d EXCEPT !.pcb[p] = r]
  BY DEF PcbAlloc
<1> HIDE DEF d, p, r
<1>6. [d EXCEPT !.pcb[p] = r] \in KernelState
  BY <1>2, <1>4, SetPcb
<1> QED
  BY <1>2, <1>5, <1>6 DEF p

(* _pcb_dealloc.                                                           *)
LEMMA PcbDeallocType ==
  ASSUME NEW k \in KernelState, NEW p \in Pcb
  PROVE  PcbDealloc(k, p) \in KernelState
<1>1. [k EXCEPT !.pcb[p] = FreePcb] \in KernelState
  BY FreePcbType, SetPcb
<1>2. "free_pcbs" \in QueueId
  BY DEF QueueId
<1> QED
  BY <1>1, <1>2, EnqueType DEF PcbDealloc

(* _pcb_cleanup: the stack of a PCB in the table is a stack or none.       *)
LEMMA PcbCleanupType ==
  ASSUME NEW k \in KernelState, NEW p \in Pcb
  PROVE  PcbCleanup(k, p) \in KernelState
<1>1. k.pcb[p] \in PcbRecord
  BY KernelFields
<1>2. k.pcb[p].stack \in Stack \cup {NoStack}
  BY <1>1 DEF PcbRecord
<1>3. StkDealloc(k, k.pcb[p].stack) \in KernelState
  BY <1>2, StkDeallocType
<1> QED
  BY <1>3, PcbDeallocType DEF PcbCleanup

(* _pcb_find returns a PCB of the table, or NULL.                          *)
LEMMA PcbFindType ==
  ASSUME NEW k, NEW pid, PcbFind(k, pid) # NoPcb
  PROVE  PcbFind(k, pid) \in Pcb
<1> DEFINE hits == {p \in Pcb : k.pcb[p].pid = pid}
<1>1. hits \in SUBSET Nat
  BY DEF Pcb
<1>2. hits # {}
  BY DEF PcbFind
<1>3. Min(hits) \in hits
  BY <1>1, <1>2, MinNat
<1> QED
  BY <1>2, <1>3 DEF PcbFind

(* _schedule puts the PCB on the ready queue of a legal priority.          *)
LEMMA ScheduleType ==
  ASSUME NEW k \in KernelState, NEW p \in Pcb
  PROVE  Schedule(k, p) \in KernelState
<1> DEFINE prio == LegalPrio(k.pcb[p].prio)
           r    == [k.pcb[p] EXCEPT !.prio = prio, !.state = PS_READY]
<1>1. prio \in Prio /\ prio \in Nat
  BY DEF LegalPrio, Prio, P_SYSTEM, P_LOW, P_MIN
<1>2. k.pcb[p] \in PcbRecord
  BY KernelFields
<1>3. r \in PcbRecord
  BY <1>1, <1>2, States, SetPrioState
<1>4. Ready(prio) \in QueueId
  BY <1>1, ReadyType
<1> HIDE DEF prio
<1>5. [k EXCEPT !.pcb[p] = r] \in KernelState
  BY <1>3, SetPcb
<1>6. EnqueOrPanic([k EXCEPT !.pcb[p] = r], Ready(prio), p,
                   "_schedule: can't enque ready PCB") \in KernelState
  BY <1>4, <1>5, EnqueOrPanicType DEF PanicSite
<1> QED
  BY <1>6 DEF Schedule, prio

(* _dispatch takes a PCB from a ready queue, or gives up if all are empty. *)
LEMMA DispatchType ==
  ASSUME NEW k \in KernelState
  PROVE  Dispatch(k) \in KernelState
<1> DEFINE ready == {prio \in Prio : k.queue[Ready(prio)] # << >>}
           q     == Ready(Min(ready))
           d     == Deque(k, q)
           next  == Head(k.queue[q])
           r     == [d.pcb[next] EXCEPT !.state = PS_RUNNING, !.q_ticks = QUANT_STD]
<1>1. CASE ~ Halted(k) /\ ready # {}
  <2>1. ready \in SUBSET Nat
    BY DEF Prio, P_SYSTEM, P_MIN
  <2>2. Min(ready) \in ready
    BY <2>1, <1>1, MinNat
  <2>3. q \in QueueId /\ k.queue[q] # << >>
    BY <2>2, ReadyType
  <2>4. d \in KernelState /\ next \in Pcb
    BY <2>3, DequeType
  <2>5. d.pcb[next] \in PcbRecord
    BY <2>4, KernelFields
  <2>9. QUANT_STD \in 0 .. 255
    BY KernelConstants
  <2>6. r \in PcbRecord
    BY <2>5, <2>9, States, SetStateTicks
  <2>7. Dispatch(k) = [d EXCEPT !.current = next, !.pcb[next] = r]
    BY <1>1 DEF Dispatch
  <2> HIDE DEF d, next, r
  <2>8. [d EXCEPT !.current = next, !.pcb[next] = r] \in KernelState
    BY <2>4, <2>6, SetCurrent
  <2> QED
    BY <2>7, <2>8
<1>2. CASE Halted(k)
  BY <1>2 DEF Dispatch
<1>3. CASE ~ Halted(k) /\ ready = {}
  <2>1. Dispatch(k) = Panic(k, "_dispatch: no ready processes")
    BY <1>3 DEF Dispatch
  <2> QED
    BY <2>1, PanicType DEF PanicSite
<1> QED
  BY <1>1, <1>2, <1>3
(* Reparenting.                                                            *)

(* The loop of _zombify that gives the children to init, whose count stays *)
(* a natural number.                                                       *)
LEMMA ReparentType ==
  ASSUME NEW k \in KernelState, NEW p \in Pcb
  PROVE  Reparent(k, p) \in KernelState
<1> DEFINE orphans == IF k.pcb[p].children > 0 THEN ChildrenOf(k, k.pcb[p].pid) ELSE {}
           ppid(c) == IF c \in orphans THEN PID_INIT ELSE k.pcb[c].ppid
           children(c) == IF c = p THEN 0
                          ELSE IF c = InitPcb THEN k.pcb[c].children + Cardinality(orphans)
                          ELSE k.pcb[c].children
           family == [c \in Pcb |-> [k.pcb[c] EXCEPT !.ppid = ppid(c),
                                                     !.children = children(c)]]
<1>1. Cardinality(orphans) \in Nat
  <2>1. orphans \in SUBSET Pcb
    BY DEF ChildrenOf
  <2>2. IsFiniteSet(Pcb)
    BY KernelConstants, FS_Interval DEF Pcb, N_PCBS
  <2> HIDE DEF orphans
  <2> QED
    BY <2>1, <2>2, FS_Subset, FS_CardinalityType
<1>2. ASSUME NEW c \in Pcb
      PROVE  [k.pcb[c] EXCEPT !.ppid = ppid(c), !.children = children(c)] \in PcbRecord
  <2>1. k.pcb[c] \in PcbRecord
    BY KernelFields
  <2> DEFINE x == k.pcb[c]
  <2>2. x \in PcbRecord /\ x.children \in Nat /\ x.ppid \in 0 .. PID_NONE
    BY <2>1, PcbFields
  <2> HIDE DEF x, orphans
  <2>3. ppid(c) \in 0 .. PID_NONE
    <3>1. k.pcb[c].ppid \in 0 .. PID_NONE
      BY <2>2 DEF x
    <3>2. PID_INIT \in 0 .. PID_NONE
      BY DEF PID_INIT, PID_NONE
    <3> QED
      BY <3>1, <3>2
  <2>4. children(c) \in Nat
    BY <2>2, <1>1 DEF x
  <2> HIDE DEF ppid, children
  <2>5. [x EXCEPT !.ppid = ppid(c), !.children = children(c)] \in PcbRecord
    BY <2>2, <2>3, <2>4, SetFamily
  <2> QED
    BY <2>5 DEF x
<1>3. family \in [Pcb -> PcbRecord]
  BY <1>2
<1>4. Reparent(k, p) = [k EXCEPT !.pcb = family]
  BY DEF Reparent
<1> HIDE DEF family
<1> QED
  BY <1>3, <1>4 DEF KernelState

(* The part of _zombify for a parent blocked in wait().                    *)
LEMMA WakeParentType ==
  ASSUME NEW k \in KernelState, NEW parent \in Pcb, NEW p \in Pcb
  PROVE  WakeParent(k, parent, p) \in KernelState
<1> DEFINE out  == RemoveOrPanic(k, "waiting", parent, "_zombify: waiting parent isn't")
           v    == <<E_SUCCESS, k.pcb[p].pid, k.pcb[p].exitstatus>>
           told == [out EXCEPT !.returned[parent] = v]
<1>1. out \in KernelState
  BY RemoveOrPanicType DEF QueueId, PanicSite
<1>2. v \in Seq(Int)
  <2>1. k.pcb[p] \in PcbRecord
    BY KernelFields
  <2>2. k.pcb[p].pid \in Int /\ k.pcb[p].exitstatus \in Int
    BY <2>1, PcbFields
  <2> QED
    BY <2>2 DEF E_SUCCESS
<1>3. WakeParent(k, parent, p) =
        IF Halted(out) THEN out ELSE Schedule(PcbCleanup(told, p), parent)
  BY DEF WakeParent
<1> HIDE DEF out, v
<1>4. told \in KernelState
  BY <1>1, <1>2, SetReturned
<1> HIDE DEF told
<1>5. Schedule(PcbCleanup(told, p), parent) \in KernelState
  BY <1>4, PcbCleanupType, ScheduleType
<1> QED
  BY <1>1, <1>3, <1>5

(* _zombify, with its three ways to end.                                   *)
LEMMA ZombifyType ==
  ASSUME NEW k \in KernelState, NEW p \in Pcb
  PROVE  Zombify(k, p) \in KernelState
<1> DEFINE r      == Reparent(k, p)
           parent == PcbFind(r, r.pcb[p].ppid)
<1>1. r \in KernelState
  BY ReparentType
<1>2. Zombify(k, p) =
        IF parent = NoPcb THEN Panic(r, "_zombify: parent process doesn't exist")
        ELSE IF r.pcb[parent].state = PS_WAITING THEN WakeParent(r, parent, p)
        ELSE EnqueOrPanic(r, "zombie", p, "_zombify: enque zombie failed")
  BY DEF Zombify
<1>3. parent # NoPcb => parent \in Pcb
  BY PcbFindType
<1> HIDE DEF r, parent
<1>4. Panic(r, "_zombify: parent process doesn't exist") \in KernelState
  BY <1>1, PanicType DEF PanicSite
<1>5. EnqueOrPanic(r, "zombie", p, "_zombify: enque zombie failed") \in KernelState
  BY <1>1, EnqueOrPanicType DEF PanicSite, QueueId
<1>6. parent # NoPcb => WakeParent(r, parent, p) \in KernelState
  BY <1>1, <1>3, WakeParentType
<1> QED
  BY <1>2, <1>4, <1>5, <1>6

(* The loop of _clk_isr: the PCBs it takes from the sleep queue go to      *)
(* ready queues, and the rest of the queue stays.                          *)
LEMMA WakeSleepersType ==
  ASSUME NEW k \in KernelState
  PROVE  WakeSleepers(k) \in KernelState
<1> DEFINE s      == k.queue["sleeping"]
           asleep == {i \in 1 .. Len(s) : k.pcb[s[i]].wakeup > k.now}
           n      == IF asleep = {} THEN Len(s) ELSE Min(asleep) - 1
           due    == {s[i] : i \in 1 .. n}
           OfPrio(prio) == {p \in due : LegalPrio(k.pcb[p].prio) = prio}
           woken(prio)  == Only(SubSeq(s, 1, n), OfPrio(prio))
           pcbs == [p \in Pcb |->
                      IF p \in due
                      THEN [k.pcb[p] EXCEPT !.state = PS_READY, !.wakeup = 0,
                                            !.prio = LegalPrio(@)]
                      ELSE k.pcb[p]]
           queues == [q \in QueueId |->
                        CASE q = "sleeping" -> SubSeq(s, n + 1, Len(s))
                          [] q = "ready[0]" -> k.queue[q] \o woken(P_SYSTEM)
                          [] q = "ready[1]" -> k.queue[q] \o woken(P_HIGH)
                          [] q = "ready[2]" -> k.queue[q] \o woken(P_LOW)
                          [] q = "ready[3]" -> k.queue[q] \o woken(P_MIN)
                          [] OTHER          -> k.queue[q]]
<1>1. s \in Seq(Pcb) /\ \A q \in QueueId : k.queue[q] \in Seq(Pcb)
  BY KernelFields DEF QueueId
<1>2. n \in 0 .. Len(s)
  <2>1. CASE asleep = {}
    BY <1>1, <2>1
  <2>2. CASE asleep # {}
    <3>1. asleep \in SUBSET Nat
      BY <1>1
    <3>2. Min(asleep) \in 1 .. Len(s)
      BY <2>2, <3>1, MinNat
    <3>3. n = Min(asleep) - 1
      BY <2>2
    <3> HIDE DEF n, asleep, s
    <3> QED
      BY <1>1, <3>2, <3>3
  <2> QED
    BY <2>1, <2>2
<1>3. WakeSleepers(k) = [k EXCEPT !.pcb = pcbs, !.queue = queues]
  BY DEF WakeSleepers
<1>4. ASSUME NEW p \in Pcb
      PROVE  pcbs[p] \in PcbRecord
  <2> DEFINE x == k.pcb[p]
  <2>1. x \in PcbRecord
    BY KernelFields
  <2>2. LegalPrio(x.prio) \in Nat
    BY DEF LegalPrio, Prio, P_SYSTEM, P_LOW, P_MIN
  <2>3. 0 \in 0 .. TIME_MOD - 1
    BY KernelConstants
  <2>4. pcbs[p] = IF p \in due
                  THEN [x EXCEPT !.state = PS_READY, !.wakeup = 0,
                                 !.prio = LegalPrio(x.prio)]
                  ELSE x
    OBVIOUS
  <2> HIDE DEF x, due, pcbs
  <2>5. [x EXCEPT !.state = PS_READY, !.wakeup = 0, !.prio = LegalPrio(x.prio)]
          \in PcbRecord
    BY <2>1, <2>2, <2>3, States, SetWakeup
  <2> QED
    BY <2>1, <2>4, <2>5
<1>5. pcbs \in [Pcb -> PcbRecord]
  <2> DEFINE f(p) == IF p \in due
                     THEN [k.pcb[p] EXCEPT !.state = PS_READY, !.wakeup = 0,
                                           !.prio = LegalPrio(@)]
                     ELSE k.pcb[p]
  <2>1. pcbs = [p \in Pcb |-> f(p)]
    OBVIOUS
  <2>2. \A p \in Pcb : f(p) \in PcbRecord
    BY <1>4, <2>1
  <2> HIDE DEF f, pcbs, due
  <2> QED
    BY <2>1, <2>2
<1> HIDE DEF n, s
<1>6. SubSeq(s, 1, n) \in Seq(Pcb) /\ SubSeq(s, n + 1, Len(s)) \in Seq(Pcb)
  BY <1>1, <1>2
<1>7. \A prio : woken(prio) \in Seq(Pcb)
  BY <1>6, OnlySeq
<1> HIDE DEF woken
<1>8. queues \in [QueueId -> Seq(Pcb)]
  BY <1>1, <1>6, <1>7
<1> HIDE DEF pcbs, queues
<1> QED
  BY <1>3, <1>5, <1>8 DEF KernelState

-----------------------------------------------------------------------------
(* What the handlers start from and end with.                              *)

(* A step to a kernel state re-establishes the invariant.                  *)
LEMMA BecomesType ==
  ASSUME NEW k \in KernelState, Becomes(k)
  PROVE  TypeOK'
BY DEF Becomes, TypeOK, K, KernelState

(* The record K of the variables is a kernel state with those fields.      *)
LEMMA KType ==
  ASSUME TypeOK
  PROVE  /\ K \in KernelState /\ K.pcb = pcb /\ K.queue = queue
         /\ K.free_stacks = free_stacks /\ K.current = current
         /\ K.next_pid = next_pid /\ K.now = now /\ current \in Pcb
         /\ K.incount = incount /\ K.console = console /\ K.qnodes = qnodes
BY DEF TypeOK, K, KernelState

(* The state a handler starts from: that of the variables, nothing         *)
(* returned yet.                                                           *)
LEMMA EntryType ==
  ASSUME TypeOK
  PROVE  /\ Entry \in KernelState /\ Entry.pcb = pcb /\ Entry.queue = queue
         /\ Entry.free_stacks = free_stacks /\ Entry.next_pid = next_pid
         /\ Entry.now = now /\ Entry.incount = incount /\ Entry.console = console
<1>1. Nothing \in [Pcb -> Seq(Int)]
  BY DEF Nothing
<1> HIDE DEF Nothing
<1>2. K \in KernelState
  BY KType
<1>3. Entry \in KernelState
  BY <1>1, <1>2 DEF Entry, KernelState
<1> QED
  BY <1>3 DEF Entry, K

(* RET(_current) = value.                                                  *)
LEMMA ReturnType ==
  ASSUME TypeOK, NEW k \in KernelState, NEW v \in Int
  PROVE  Return(k, v) \in KernelState
<1>1. <<v>> \in Seq(Int)
  OBVIOUS
<1> QED
  BY <1>1, KType, SetReturned DEF Return

(* The current PCB, and every PCB of the table, is a PCB.                  *)
LEMMA MeType ==
  ASSUME TypeOK
  PROVE  me \in PcbRecord /\ \A p \in Pcb : pcb[p] \in PcbRecord
BY KType, KernelFields DEF me

-----------------------------------------------------------------------------
(* Every action keeps the type.                                            *)

(* A call that only returns a value keeps the type.                        *)
LEMMA ReplyKeepsType ==
  ASSUME TypeOK, NEW v \in Int, Becomes(Return(Entry, v))
  PROVE  TypeOK'
BY EntryType, ReturnType, BecomesType

(* getpid, getppid, gettime, getstatus, write, and the reads that are      *)
(* refused.                                                                *)
LEMMA QueriesKeepType ==
  ASSUME TypeOK, \/ GetPid \/ GetPpid \/ GetTime \/ GetStatus \/ Write \/ WriteBadChannel
                 \/ ReadConsoleEmpty \/ ReadBadChannel
  PROVE  TypeOK'
<1>1. me.pid \in Int /\ me.ppid \in Int /\ now \in Int
  BY MeType, PcbFields, KType, KernelFields
<1>2. CASE GetPid
  BY <1>1, <1>2, ReplyKeepsType DEF GetPid
<1>3. CASE GetPpid
  BY <1>1, <1>3, ReplyKeepsType DEF GetPpid
<1>4. CASE GetTime
  BY <1>1, <1>4, ReplyKeepsType DEF GetTime
<1>5. CASE GetStatus
  <2>1. PICK pid \in PidArgs :
          LET target == PcbFind(K, pid) IN
          Becomes(Return(Entry, IF target = NoPcb THEN PS_INVALID ELSE pcb[target].state))
    BY <1>5 DEF GetStatus
  <2> DEFINE target == PcbFind(K, pid)
             v == IF target = NoPcb THEN PS_INVALID ELSE pcb[target].state
  <2>2. target # NoPcb => target \in Pcb
    BY PcbFindType
  <2> HIDE DEF target
  <2>3. target # NoPcb => pcb[target].state \in PState
    BY <2>2, MeType, PcbFields
  <2>4. v \in Int
    BY <2>3 DEF PState, PS_INVALID, PS_FREE, PS_ZOMBIE
  <2>5. Becomes(Return(Entry, v))
    BY <2>1 DEF target
  <2> HIDE DEF v
  <2> QED
    BY <2>4, <2>5, ReplyKeepsType
<1>6. CASE Write
  <2>1. PICK size \in Sizes : Becomes(Return(Entry, size))
    BY <1>6 DEF Write
  <2>2. size \in Int
    BY <2>1, EnvironmentConstants
  <2> QED
    BY <2>1, <2>2, ReplyKeepsType
<1>7. CASE WriteBadChannel
  BY <1>7, ReplyKeepsType DEF WriteBadChannel, E_BAD_CHAN
<1>8. CASE ReadConsoleEmpty
  BY <1>8, ReplyKeepsType DEF ReadConsoleEmpty, E_NO_CHAR
<1>9. CASE ReadBadChannel
  BY <1>9, ReplyKeepsType DEF ReadBadChannel, E_BAD_CHAN
<1> QED
  BY <1>2, <1>3, <1>4, <1>5, <1>6, <1>7, <1>8, <1>9

(* exit(status), also in place of a system call with a bad code.           *)
LEMMA ExitKeepsType ==
  ASSUME TypeOK, NEW status \in Int, ExitWith(status)
  PROVE  TypeOK'
<1> DEFINE r     == [pcb[current] EXCEPT !.exitstatus = status, !.state = PS_ZOMBIE]
           dying == [Entry EXCEPT !.pcb[current] = r]
<1>1. pcb[current] \in PcbRecord /\ current \in Pcb
  BY MeType, KType
<1>2. r \in PcbRecord
  BY <1>1, States, SetFate
<1>3. Becomes(Dispatch(Zombify(dying, current)))
  BY EntryType DEF ExitWith
<1> HIDE DEF r
<1>4. dying \in KernelState
  BY <1>1, <1>2, EntryType, SetPcb
<1> HIDE DEF dying
<1>5. Dispatch(Zombify(dying, current)) \in KernelState
  BY <1>1, <1>4, ZombifyType, DispatchType
<1> QED
  BY <1>3, <1>5, BecomesType

(* The queue _sys_kill looks on is one of the queues.                      *)
LEMMA QueueOfType ==
  ASSUME NEW k \in KernelState, NEW p \in Pcb
  PROVE  QueueOf(k, p) \in QueueId
<1>1. \A prio : Ready(prio) \in QueueId
  BY DEF Ready, QueueId, ReadyId
<1> QED
  BY <1>1 DEF QueueOf, QueueId

(* The work of _sys_kill on a live victim.                                 *)
LEMMA KilledType ==
  ASSUME TypeOK, NEW k \in KernelState, NEW victim \in Pcb
  PROVE  Killed(k, victim) \in KernelState
<1> DEFINE out  == IF k.pcb[victim].state = PS_RUNNING THEN k
                   ELSE RemoveOrPanic(k, QueueOf(k, victim), victim,
                                      "_sys_kill: can't remove victim")
           x    == out.pcb[victim]
           r    == [x EXCEPT !.state = PS_KILLED, !.exitstatus = EXIT_KILLED]
           dead == [out EXCEPT !.pcb[victim] = r]
<1>1. out \in KernelState
  BY QueueOfType, RemoveOrPanicType DEF PanicSite
<1>2. Killed(k, victim) =
        IF Halted(out) THEN out ELSE Zombify(Return(dead, E_SUCCESS), victim)
  BY DEF Killed
<1> HIDE DEF out
<1>3. x \in PcbRecord
  BY <1>1, KernelFields
<1> HIDE DEF x
<1>4. r \in PcbRecord
  <2>1. PS_KILLED \in PState /\ EXIT_KILLED \in Int
    BY States DEF EXIT_KILLED
  <2> QED
    BY <1>3, <2>1, SetFate, Zenon
<1> HIDE DEF r
<1>5. dead \in KernelState
  BY <1>1, <1>4, SetPcb
<1> HIDE DEF dead
<1>6. Zombify(Return(dead, E_SUCCESS), victim) \in KernelState
  BY <1>5, ReturnType, ZombifyType DEF E_SUCCESS
<1> QED
  BY <1>1, <1>2, <1>6

(* kill() in its four cases.                                               *)
LEMMA KillKeepsType ==
  ASSUME TypeOK, Kill
  PROVE  TypeOK'
<1>1. CASE KillNobody
  BY <1>1, ReplyKeepsType DEF KillNobody, E_NO_PROCESS
<1>2. CASE KillDead
  BY <1>2, ReplyKeepsType DEF KillDead, E_SUCCESS
<1>3. CASE KillBadState
  <2>1. Panic(Entry, "_sys_kill: bad victim state") \in KernelState
    BY EntryType, PanicType DEF PanicSite
  <2>2. Becomes(Panic(Entry, "_sys_kill: bad victim state"))
    BY <1>3 DEF KillBadState
  <2> QED
    BY <2>1, <2>2, BecomesType
<1>4. CASE KillLive
  <2>1. PICK pid \in PidArgs :
          LET victim == PcbFind(K, pid)
              after  == Killed(Entry, victim)
          IN /\ victim # NoPcb
             /\ pcb[victim].state \in PS_READY .. PS_BLOCKED
             /\ Becomes(IF victim = current THEN Dispatch(after) ELSE after)
    BY <1>4 DEF KillLive
  <2> DEFINE victim == PcbFind(K, pid)
             after  == Killed(Entry, victim)
  <2>2. victim \in Pcb
    BY <2>1, PcbFindType
  <2>3. Becomes(IF victim = current THEN Dispatch(after) ELSE after)
    BY <2>1
  <2> HIDE DEF victim
  <2>4. after \in KernelState
    BY <2>2, EntryType, KilledType
  <2> HIDE DEF after
  <2> QED
    BY <2>3, <2>4, DispatchType, BecomesType
<1> QED
  BY <1>1, <1>2, <1>3, <1>4 DEF Kill

(* wait() in its three cases. The caller's count of children, which is not *)
(* zero when a child is collected, does not go below zero.                 *)
LEMMA WaitKeepsType ==
  ASSUME TypeOK, Wait
  PROVE  TypeOK'
<1>1. pcb[current] \in PcbRecord /\ current \in Pcb
  BY MeType, KType
<1>2. CASE WaitNoChild
  BY <1>2, ReplyKeepsType DEF WaitNoChild, E_NO_CHILD
<1>3. CASE WaitCollect
  <2> DEFINE child == Min(Collectable)
             out   == RemoveOrPanic(Entry, "zombie", child, "_sys_wait: can't deque zombie")
             r     == [out.pcb[current] EXCEPT !.children = me.children - 1]
             v     == <<E_SUCCESS, pcb[child].pid, pcb[child].exitstatus>>
             told  == [out EXCEPT !.pcb[current] = r, !.returned[current] = v]
  <2>1. child \in Pcb
    <3>1. Collectable \in SUBSET Nat /\ Collectable \subseteq Pcb
      BY DEF Collectable, ChildrenOf, Pcb
    <3>2. Collectable # {}
      BY <1>3 DEF WaitCollect
    <3> QED
      BY <3>1, <3>2, MinNat
  <2>2. Becomes(IF Halted(out) THEN out ELSE PcbCleanup(told, child))
    BY <1>3 DEF WaitCollect
  <2>3. pcb[current].children # 0
    BY <1>3 DEF WaitCollect, me
  <2> HIDE DEF child
  <2>4. out \in KernelState /\ out.pcb = pcb
    BY <2>1, EntryType, RemoveOrPanicType DEF QueueId, PanicSite
  <2> HIDE DEF out
  <2>5. r \in PcbRecord
    <3>1. me \in PcbRecord /\ me.children - 1 \in Nat
      BY <1>1, <2>3, PcbFields DEF me
    <3>2. r = [me EXCEPT !.children = me.children - 1]
      BY <2>4 DEF me
    <3>3. me.ppid \in 0 .. PID_NONE
      BY <3>1, PcbFields
    <3> HIDE DEF r
    <3> QED
      BY <3>1, <3>2, <3>3, SetFamily, Zenon
  <2>6. v \in Seq(Int)
    <3>1. pcb[child].pid \in Int /\ pcb[child].exitstatus \in Int
      BY <2>1, MeType, PcbFields
    <3> QED
      BY <3>1 DEF E_SUCCESS
  <2> HIDE DEF r, v
  <2>7. [out EXCEPT !.pcb[current] = r] \in KernelState
    BY <1>1, <2>4, <2>5, SetPcb
  <2>8. told = [[out EXCEPT !.pcb[current] = r] EXCEPT !.returned[current] = v]
    OBVIOUS
  <2> HIDE DEF told
  <2>9. told \in KernelState
    BY <1>1, <2>6, <2>7, <2>8, SetReturned
  <2>10. PcbCleanup(told, child) \in KernelState
    BY <2>1, <2>9, PcbCleanupType
  <2> QED
    BY <2>2, <2>4, <2>10, BecomesType
<1>4. CASE WaitBlock
  <2> DEFINE r       == [pcb[current] EXCEPT !.state = PS_WAITING]
             waiting == [Entry EXCEPT !.pcb[current] = r]
             after   == EnqueOrPanic(waiting, "waiting", current,
                                     "_sys_wait: can't enque waiting parent")
  <2>1. Becomes(Dispatch(after))
    BY <1>4, EntryType DEF WaitBlock
  <2>2. r \in PcbRecord
    BY <1>1, States, SetState
  <2> HIDE DEF r
  <2>3. waiting \in KernelState
    BY <1>1, <2>2, EntryType, SetPcb
  <2> HIDE DEF waiting
  <2>4. after \in KernelState
    BY <1>1, <2>3, EnqueOrPanicType DEF QueueId, PanicSite
  <2> HIDE DEF after
  <2> QED
    BY <2>1, <2>4, DispatchType, BecomesType
<1> QED
  BY <1>2, <1>3, <1>4 DEF Wait

(* fork() with a PCB and a stack to spare: next_pid is below the limit     *)
(* before it is advanced.                                                  *)
LEMMA ForkedType ==
  ASSUME TypeOK, next_pid < PID_LIMIT, queue["free_pcbs"] # << >>, free_stacks # << >>
  PROVE  Forked(Entry) \in KernelState
<1> DEFINE child  == Head(queue["free_pcbs"])
           with   == StkAlloc(PcbAlloc(Entry))
           r      == [me EXCEPT !.pid = next_pid, !.ppid = me.pid,
                                !.stack = Head(free_stacks)]
           copied == [with EXCEPT !.pcb[child] = r, !.next_pid = @ + 1]
           v      == [copied.returned EXCEPT ![child] = <<0>>, ![current] = <<next_pid>>]
           told   == [copied EXCEPT !.returned = v]
           x      == told.pcb[current]
           m      == [x EXCEPT !.children = me.children + 1]
<1>1. me \in PcbRecord /\ current \in Pcb
  BY MeType, KType
<1>2. /\ PcbAlloc(Entry) \in KernelState /\ child \in Pcb
      /\ PcbAlloc(Entry).free_stacks = free_stacks
      /\ PcbAlloc(Entry).next_pid = next_pid
  <2>1. PcbAlloc(Entry) \in KernelState /\ child \in Pcb
    BY EntryType, PcbAllocType
  <2>2. /\ PcbAlloc(Entry).free_stacks = Entry.free_stacks
        /\ PcbAlloc(Entry).next_pid = Entry.next_pid
    BY EntryType DEF PcbAlloc, Deque, KernelState
  <2> QED
    BY <2>1, <2>2, EntryType
<1>3. with \in KernelState /\ Head(free_stacks) \in Stack /\ with.next_pid = next_pid
  <2>1. StkAlloc(PcbAlloc(Entry)).next_pid = PcbAlloc(Entry).next_pid
    BY <1>2 DEF StkAlloc, KernelState
  <2> QED
    BY <1>2, <2>1, StkAllocType
<1>4. next_pid + 1 \in 0 .. PID_LIMIT /\ next_pid \in 0 .. PID_NONE /\ next_pid \in Int
  <2>1. next_pid \in 0 .. PID_LIMIT
    BY KType, KernelFields
  <2>2. PID_LIMIT \in Nat /\ PID_LIMIT < PID_NONE /\ PID_NONE \in Nat
    BY KernelConstants DEF PID_NONE
  <2>3. next_pid < PID_LIMIT
    OBVIOUS
  <2> QED
    BY <2>1, <2>2, <2>3
<1>5. r \in PcbRecord
  <2>1. me.pid \in 0 .. PID_NONE
    BY <1>1, PcbFields
  <2>2. Head(free_stacks) \in Stack \cup {NoStack}
    BY <1>3
  <2> HIDE DEF with, copied, told
  <2> QED
    BY <1>1, <1>4, <2>1, <2>2, SetIdentity, Zenon
<1>6. Forked(Entry) = Schedule([told EXCEPT !.pcb[current] = m], child)
  BY EntryType DEF Forked, me
<1> HIDE DEF child, with, r
<1>7. copied \in KernelState
  <2>1. [with EXCEPT !.pcb[child] = r] \in KernelState
    BY <1>2, <1>3, <1>5, SetPcb
  <2>2. copied = [[with EXCEPT !.pcb[child] = r] EXCEPT !.next_pid = next_pid + 1]
    BY <1>3
  <2> HIDE DEF copied
  <2> QED
    BY <1>4, <2>1, <2>2 DEF KernelState
<1> HIDE DEF copied
<1>8. v \in [Pcb -> Seq(Int)]
  <2>1. copied.returned \in [Pcb -> Seq(Int)]
    BY <1>7, KernelFields
  <2>2. <<0>> \in Seq(Int) /\ <<next_pid>> \in Seq(Int)
    BY <1>4
  <2> QED
    BY <2>1, <2>2
<1> HIDE DEF v
<1>9. told \in KernelState
  BY <1>7, <1>8 DEF KernelState
<1> HIDE DEF told
<1>10. m \in PcbRecord
  <2>1. x \in PcbRecord
    BY <1>1, <1>9, KernelFields
  <2>2. me.children + 1 \in Nat
    BY <1>1, PcbFields
  <2>3. x.ppid \in 0 .. PID_NONE
    BY <2>1, PcbFields
  <2> HIDE DEF x
  <2> QED
    BY <2>1, <2>2, <2>3, SetFamily, Zenon
<1> HIDE DEF m
<1>11. [told EXCEPT !.pcb[current] = m] \in KernelState
  BY <1>1, <1>9, <1>10, SetPcb
<1> QED
  BY <1>2, <1>6, <1>11, ScheduleType

(* fork() in all its cases.                                                *)
LEMMA ForkKeepsType ==
  ASSUME TypeOK, Fork
  PROVE  TypeOK'
<1>1. CASE ForkNoPid
  BY <1>1, ReplyKeepsType DEF ForkNoPid, E_NO_MORE_PROCS
<1>2. CASE ForkNoPcb
  BY <1>2, ReplyKeepsType DEF ForkNoPcb, E_NO_PCBS
<1>3. CASE ForkChild
  <2>1. CASE free_stacks = << >>
    <3> DEFINE k == PcbDealloc(PcbAlloc(Entry), Head(queue["free_pcbs"]))
    <3>1. Becomes(Return(k, E_NO_STACKS))
      BY <1>3, <2>1, EntryType DEF ForkChild, ForkNoStack
    <3>2. k \in KernelState
      BY <1>3, EntryType, PcbAllocType, PcbDeallocType DEF ForkChild
    <3> HIDE DEF k
    <3> QED
      BY <3>1, <3>2, ReturnType, BecomesType DEF E_NO_STACKS
  <2>2. CASE free_stacks # << >>
    BY <1>3, <2>2, ForkedType, BecomesType DEF ForkChild
  <2> QED
    BY <2>1, <2>2
<1> QED
  BY <1>1, <1>2, <1>3 DEF Fork

(* exec() with any natural number for a priority.                          *)
LEMMA ExecKeepsType ==
  ASSUME TypeOK, Exec
  PROVE  TypeOK'
<1>1. PICK prio \in ExecPrios :
        Becomes([Entry EXCEPT !.pcb[current] = [@ EXCEPT !.prio = prio]])
  BY DEF Exec
<1> DEFINE r == [me EXCEPT !.prio = prio]
<1>2. prio \in Nat /\ me \in PcbRecord /\ current \in Pcb
  BY <1>1, EnvironmentConstants, MeType, KType
<1>3. r \in PcbRecord
  BY <1>2, States, SetPrioState
<1>4. Becomes([Entry EXCEPT !.pcb[current] = r])
  BY <1>1, EntryType DEF me
<1> HIDE DEF r
<1>5. [Entry EXCEPT !.pcb[current] = r] \in KernelState
  BY <1>2, <1>3, EntryType, SetPcb
<1> QED
  BY <1>4, <1>5, BecomesType

(* sleep(): the wakeup time is taken modulo TIME_MOD.                      *)
LEMMA SleepKeepsType ==
  ASSUME TypeOK, Sleep
  PROVE  TypeOK'
<1>1. PICK msec \in SleepTimes :
        LET asleep == [Entry EXCEPT !.pcb[current] =
                         [@ EXCEPT !.wakeup = (now + msec) % TIME_MOD,
                                   !.state = PS_SLEEPING]]
        IN Becomes(Dispatch(
             IF msec = 0 THEN Schedule(Entry, current)
             ELSE EnqueOrPanic(asleep, "sleeping", current,
                               "_sys_sleep: can't enque sleeper")))
  BY DEF Sleep
<1> DEFINE t      == (now + msec) % TIME_MOD
           r      == [me EXCEPT !.wakeup = t, !.state = PS_SLEEPING]
           asleep == [Entry EXCEPT !.pcb[current] = r]
           after  == IF msec = 0 THEN Schedule(Entry, current)
                     ELSE EnqueOrPanic(asleep, "sleeping", current,
                                       "_sys_sleep: can't enque sleeper")
<1>2. me \in PcbRecord /\ current \in Pcb
  BY MeType, KType
<1>3. t \in 0 .. TIME_MOD - 1
  <2>1. now \in 0 .. TIME_MOD - 1
    BY KType, KernelFields
  <2>2. msec \in Nat
    BY <1>1, EnvironmentConstants
  <2> HIDE DEF t, r, asleep, after
  <2> QED
    BY <2>1, <2>2, KernelConstants DEF t
<1>4. Becomes(Dispatch(after))
  BY <1>1, EntryType DEF me
<1> HIDE DEF t
<1>5. r \in PcbRecord
  <2>1. PS_SLEEPING \in PState /\ me.prio \in Nat
    BY <1>2, States, PcbFields
  <2> QED
    BY <1>2, <1>3, <2>1, SetWakeup, Zenon
<1> HIDE DEF r
<1>6. asleep \in KernelState
  BY <1>2, <1>5, EntryType, SetPcb
<1> HIDE DEF asleep
<1>7. after \in KernelState
  BY <1>2, <1>6, EntryType, ScheduleType, EnqueOrPanicType DEF QueueId, PanicSite
<1> HIDE DEF after
<1> QED
  BY <1>4, <1>7, DispatchType, BecomesType

(* The end of _sys_read: return the count, fail, or block.                 *)
LEMMA FinishReadType ==
  ASSUME TypeOK, NEW k \in KernelState, NEW n \in Int
  PROVE  FinishRead(k, n) \in KernelState
<1>1. CASE n > 0
  BY <1>1, ReturnType DEF FinishRead
<1>2. CASE ~ (n > 0) /\ k.qnodes = 0
  BY <1>2, ReturnType DEF FinishRead, E_FAILURE
<1>3. CASE ~ (n > 0) /\ k.qnodes # 0
  <2> DEFINE e == Enque(k, "reading", current)
             x == e.pcb[current]
             r == [x EXCEPT !.state = PS_BLOCKED]
  <2>1. current \in Pcb
    BY KType
  <2>2. e \in KernelState
    BY <2>1, EnqueType DEF QueueId
  <2>3. FinishRead(k, n) = Dispatch([e EXCEPT !.pcb[current] = r])
    BY <1>3 DEF FinishRead
  <2> HIDE DEF e
  <2>4. x \in PcbRecord
    BY <2>1, <2>2, KernelFields
  <2> HIDE DEF x
  <2>5. r \in PcbRecord
    BY <2>4, States, SetState
  <2> HIDE DEF r
  <2>6. [e EXCEPT !.pcb[current] = r] \in KernelState
    BY <2>1, <2>2, <2>5, SetPcb
  <2> QED
    BY <2>3, <2>6, DispatchType
<1> QED
  BY <1>1, <1>2, <1>3

(* read() from the console or the serial line: no more is taken than is    *)
(* there.                                                                  *)
LEMMA ReadsKeepType ==
  ASSUME TypeOK, ReadConsole \/ ReadSio
  PROVE  TypeOK'
<1>1. incount \in 0 .. BUF_SIZE /\ console \in 0 .. C_BUFSIZE - 1
  BY KType, KernelFields
<1>2. CASE ReadConsole
  <2>1. PICK size \in Sizes : \E line \in Gets(size) :
          Becomes(FinishRead([Entry EXCEPT !.console =
                                IF line.used > @ THEN 0 ELSE @ - line.used], line.n))
    BY <1>2 DEF ReadConsole
  <2>2. PICK line \in Gets(size) :
          Becomes(FinishRead([Entry EXCEPT !.console =
                                IF line.used > @ THEN 0 ELSE @ - line.used], line.n))
    BY <2>1
  <2>3. line.n \in Int /\ line.used \in Nat
    <3>1. size \in Nat
      BY <2>1, EnvironmentConstants
    <3> QED
      BY <3>1, <2>2 DEF Gets
  <2> DEFINE left == IF line.used > console THEN 0 ELSE console - line.used
             k    == [Entry EXCEPT !.console = left]
  <2>4. Becomes(FinishRead(k, line.n))
    BY <2>2, EntryType
  <2>5. left \in 0 .. C_BUFSIZE - 1
    BY <1>1, <2>3, KernelConstants
  <2> HIDE DEF left
  <2>6. k \in KernelState
    BY <2>5, EntryType DEF KernelState
  <2> HIDE DEF k
  <2> QED
    BY <2>3, <2>4, <2>6, FinishReadType, BecomesType
<1>3. CASE ReadSio
  <2>1. PICK size \in Sizes :
          LET n == IF size < incount THEN size ELSE incount
          IN Becomes(FinishRead([Entry EXCEPT !.incount = @ - n], n))
    BY <1>3 DEF ReadSio
  <2> DEFINE n == IF size < incount THEN size ELSE incount
             k == [Entry EXCEPT !.incount = incount - n]
  <2>2. size \in Nat
    BY <2>1, EnvironmentConstants
  <2>3. n \in Int /\ incount - n \in 0 .. BUF_SIZE
    BY <1>1, <2>2, KernelConstants
  <2>4. Becomes(FinishRead(k, n))
    BY <2>1, EntryType
  <2> HIDE DEF n
  <2>5. k \in KernelState
    BY <2>3, EntryType DEF KernelState
  <2> HIDE DEF k
  <2> QED
    BY <2>3, <2>4, <2>5, FinishReadType, BecomesType
<1> QED
  BY <1>2, <1>3

(* The interrupts for input: no buffer gets more than it holds.            *)
LEMMA InputKeepsType ==
  ASSUME TypeOK, RxChar \/ KeyPress
  PROVE  TypeOK'
<1>1. incount \in 0 .. BUF_SIZE /\ console \in 0 .. C_BUFSIZE - 1
  BY KType, KernelFields
<1>2. CASE RxChar
  <2>1. PICK rxd \in Chars :
          LET ch     == IF rxd = CR THEN LF ELSE rxd
              reader == Head(queue["reading"])
              told   == [Deque(Entry, "reading") EXCEPT !.returned[reader] = <<ch>>]
          IN Becomes(IF queue["reading"] # << >> THEN Schedule(told, reader)
                     ELSE [Entry EXCEPT !.incount = IF @ < BUF_SIZE THEN @ + 1 ELSE @])
    BY <1>2 DEF RxChar
  <2>2. CASE queue["reading"] # << >>
    <3> DEFINE ch     == IF rxd = CR THEN LF ELSE rxd
               reader == Head(queue["reading"])
               d      == Deque(Entry, "reading")
               told   == [d EXCEPT !.returned[reader] = <<ch>>]
    <3>1. Becomes(Schedule(told, reader))
      BY <2>1, <2>2
    <3>2. d \in KernelState /\ reader \in Pcb
      BY <2>2, EntryType, DequeType DEF QueueId
    <3>3. <<ch>> \in Seq(Int)
      <4>1. ch \in Int
        BY EnvironmentConstants DEF LF
      <4> QED
        BY <4>1
    <3> HIDE DEF d, reader
    <3>4. told \in KernelState
      BY <3>2, <3>3, SetReturned
    <3> HIDE DEF told
    <3> QED
      BY <3>1, <3>2, <3>4, ScheduleType, BecomesType
  <2>3. CASE queue["reading"] = << >>
    <3> DEFINE n == IF incount < BUF_SIZE THEN incount + 1 ELSE incount
    <3>1. Becomes([Entry EXCEPT !.incount = n])
      BY <2>1, <2>3, EntryType
    <3>2. n \in 0 .. BUF_SIZE
      BY <1>1, KernelConstants
    <3> HIDE DEF n
    <3>3. [Entry EXCEPT !.incount = n] \in KernelState
      BY <3>2, EntryType DEF KernelState
    <3> QED
      BY <3>1, <3>3, BecomesType
  <2> QED
    BY <2>2, <2>3
<1>3. CASE KeyPress
  <2> DEFINE n == IF console < C_BUFSIZE - 1 THEN console + 1 ELSE console
  <2>1. Becomes([Entry EXCEPT !.console = n])
    BY <1>3, EntryType DEF KeyPress
  <2>2. n \in 0 .. C_BUFSIZE - 1
    BY <1>1, KernelConstants
  <2> HIDE DEF n
  <2>3. [Entry EXCEPT !.console = n] \in KernelState
    BY <2>2, EntryType DEF KernelState
  <2> QED
    BY <2>1, <2>3, BecomesType
<1> QED
  BY <1>2, <1>3

(* The clock interrupt.                                                    *)
LEMMA TickKeepsType ==
  ASSUME TypeOK, Tick
  PROVE  TypeOK'
<1> DEFINE t     == (now + 1) % TIME_MOD
           later == [Entry EXCEPT !.now = t]
           woken == WakeSleepers(later)
           left  == (me.q_ticks - 1) % 256
           x     == woken.pcb[current]
           r     == [x EXCEPT !.q_ticks = left]
           used  == [woken EXCEPT !.pcb[current] = r]
<1>1. current \in Pcb /\ now \in 0 .. TIME_MOD - 1 /\ me.q_ticks \in 0 .. 255
  <2>1. current \in Pcb /\ now \in 0 .. TIME_MOD - 1
    BY KType, KernelFields
  <2>2. me.q_ticks \in 0 .. 255
    BY MeType, PcbFields
  <2> QED
    BY <2>1, <2>2
<1>2. t \in 0 .. TIME_MOD - 1 /\ left \in 0 .. 255
  BY <1>1, KernelConstants
<1>3. Becomes(IF used.pcb[current].q_ticks < 1
              THEN Dispatch(Schedule(used, current)) ELSE used)
  BY EntryType DEF Tick
<1> HIDE DEF t, left
<1>4. later \in KernelState
  BY <1>2, EntryType DEF KernelState
<1> HIDE DEF later
<1>5. woken \in KernelState
  BY <1>4, WakeSleepersType
<1> HIDE DEF woken
<1>6. x \in PcbRecord
  BY <1>1, <1>5, KernelFields
<1> HIDE DEF x
<1>7. r \in PcbRecord
  BY <1>2, <1>6, States, SetStateTicks
<1> HIDE DEF r
<1>8. used \in KernelState
  BY <1>1, <1>5, <1>7, SetPcb
<1> HIDE DEF used
<1> QED
  BY <1>1, <1>3, <1>8, ScheduleType, DispatchType, BecomesType

-----------------------------------------------------------------------------
(* The initial state.                                                      *)

(* The initial state, that of _init() when it dispatches the first         *)
(* process.                                                                *)
LEMMA InitType ==
  ASSUME Init
  PROVE  TypeOK
<1>1. N_PCBS \in Nat /\ N_PCBS >= 3 /\ N_STACKS \in Nat /\ N_STACKS >= 3 /\ N_QNODES \in Int
  BY KernelConstants DEF N_PCBS, N_STACKS, N_QNODES
<1>2. InitPcb \in Pcb /\ 1 \in Stack
  BY <1>1 DEF Pcb, InitPcb, Stack
<1>3. InitProcess \in PcbRecord
  <2>1. PS_RUNNING \in PState
    BY States
  <2>2. QUANT_STD \in 0 .. 255 /\ PID_INIT \in 0 .. PID_NONE
    BY KernelConstants DEF PID_INIT, PID_NONE
  <2>3. FreePcb \in PcbRecord
    BY FreePcbType
  <2> DEFINE x == FreePcb
  <2>4. InitProcess = [x EXCEPT !.state = PS_RUNNING, !.pid = PID_INIT, !.ppid = PID_INIT,
                                !.stack = 1, !.q_ticks = QUANT_STD]
    BY DEF InitProcess
  <2>5. x \in PcbRecord /\ 1 \in Stack \cup {NoStack}
    BY <2>3, <1>2
  <2> HIDE DEF x
  <2> QED
    BY <2>1, <2>2, <2>4, <2>5 DEF PcbRecord
<1>4. pcb \in [Pcb -> PcbRecord]
  BY <1>3, FreePcbType DEF Init
<1>5. /\ [i \in 1 .. N_PCBS - 1 |-> i + 1] \in Seq(Pcb)
      /\ [i \in 1 .. N_STACKS - 1 |-> i + 1] \in Seq(Stack)
  BY <1>1 DEF Pcb, Stack
<1>6. queue \in [QueueId -> Seq(Pcb)] /\ free_stacks \in Seq(Stack)
  <2> DEFINE full == [i \in 1 .. N_PCBS - 1 |-> i + 1]
  <2>1. queue = [q \in QueueId |-> IF q = "free_pcbs" THEN full ELSE << >>]
    BY DEF Init
  <2>2. full \in Seq(Pcb)
    BY <1>5
  <2> HIDE DEF full
  <2>3. queue \in [QueueId -> Seq(Pcb)]
    BY <2>1, <2>2
  <2> QED
    BY <2>3, <1>5 DEF Init
<1>7. /\ qnodes \in Int /\ current \in Pcb /\ next_pid \in 0 .. PID_LIMIT
      /\ now \in 0 .. TIME_MOD - 1 /\ incount \in 0 .. BUF_SIZE
      /\ console \in 0 .. C_BUFSIZE - 1 /\ panic \in PanicSite
  BY <1>1, <1>2, KernelConstants DEF Init, PanicSite, NoPanic
<1>8. returned \in [Pcb -> Seq(Int)]
  BY DEF Init, Nothing
<1> QED
  BY <1>4, <1>6, <1>7, <1>8 DEF TypeOK, K, KernelState

-----------------------------------------------------------------------------

(* Type correctness: whatever the user programs do, every field of every   *)
(* PCB, every queue and every counter of the kernel stays in its range.    *)
(* In particular the 8-bit tick count, the modular clock, the PID counter  *)
(* and the input counters never leave theirs, and no child count goes      *)
(* below zero, for every size of the tables.                               *)
THEOREM TypeCorrect == Spec => []TypeOK
<1>1. Init => TypeOK
  BY InitType
<1>2. TypeOK /\ [Next]_vars => TypeOK'
  <2> SUFFICES ASSUME TypeOK, [Next]_vars PROVE TypeOK'
    OBVIOUS
  <2>1. CASE \/ GetPid \/ GetPpid \/ GetTime \/ GetStatus \/ Write \/ WriteBadChannel
             \/ ReadConsoleEmpty \/ ReadBadChannel
    BY <2>1, QueriesKeepType
  <2>2. CASE Exit
    <3>1. PICK status \in ExitStatuses : ExitWith(status)
      BY <2>2 DEF Exit
    <3>2. status \in Int
      BY <3>1, EnvironmentConstants
    <3> QED
      BY <3>1, <3>2, ExitKeepsType
  <2>3. CASE BogusCall
    BY <2>3, ExitKeepsType DEF BogusCall, EXIT_BAD_CODE
  <2>4. CASE Kill
    BY <2>4, KillKeepsType
  <2>5. CASE Wait
    BY <2>5, WaitKeepsType
  <2>6. CASE Fork
    BY <2>6, ForkKeepsType
  <2>7. CASE Exec
    BY <2>7, ExecKeepsType
  <2>8. CASE Sleep
    BY <2>8, SleepKeepsType
  <2>9. CASE ReadConsole \/ ReadSio
    BY <2>9, ReadsKeepType
  <2>10. CASE RxChar \/ KeyPress
    BY <2>10, InputKeepsType
  <2>11. CASE Tick
    BY <2>11, TickKeepsType
  <2>12. CASE UNCHANGED vars
    BY <2>12 DEF TypeOK, K, vars
  <2> QED
    BY <2>1, <2>2, <2>3, <2>4, <2>5, <2>6, <2>7, <2>8, <2>9, <2>10, <2>11, <2>12 DEF Next
<1> QED
  BY <1>1, <1>2, PTL DEF Spec

-----------------------------------------------------------------------------
(* What the subroutines of KernelOps do to the queues, the stack pool and  *)
(* the pool of qnodes: each PCB is on the queue its state names, once,     *)
(* each stack has one owner, and there is a qnode whenever one is needed.  *)
(*                                                                         *)
(* Between two subroutines of a handler this holds but for a few PCBs in   *)
(* hand: one that runs, or has been taken from a queue and not been put on *)
(* another yet.  Sound(k, out) says that the kernel state k is in order    *)
(* but for the PCBs in out.                                                *)

QueuedAt(k, out, q) == {p \in Pcb \ out : QueueOf(k, p) = q}

Placed(k, out) ==
  /\ \A q \in QueueId : Lists(k.queue[q], QueuedAt(k, out, q))
  /\ \A p \in Pcb \ out : k.pcb[p].state # PS_RUNNING

Owners(k) == {p \in Pcb : k.pcb[p].state # PS_FREE}
Owned(k)  == {k.pcb[p].stack : p \in Owners(k)}

Stacked(k) ==
  /\ \A p \in Owners(k) : k.pcb[p].stack \in Stack
  /\ \A p, c \in Owners(k) : k.pcb[p].stack = k.pcb[c].stack => p = c
  /\ Lists(k.free_stacks, Stack \ Owned(k))

(* _sleeping is in the order of the wakeup times.                          *)
Sorted(k) ==
  LET s == k.queue["sleeping"] IN
  \A i, j \in 1 .. Len(s) : i < j => k.pcb[s[i]].wakeup <= k.pcb[s[j]].wakeup

(* A qnode is free, or holds a PCB that is not in hand, or a free stack.   *)
Balanced(k, out) ==
  k.qnodes + Cardinality(Pcb \ out) + Len(k.free_stacks) = N_QNODES

Sound(k, out) ==
  /\ k \in KernelState /\ out \subseteq Pcb /\ ~ Halted(k)
  /\ Placed(k, out) /\ Stacked(k) /\ Sorted(k) /\ Balanced(k, out)

-----------------------------------------------------------------------------
(* The queue that QueueOf names is that of the PCB's state, and no other   *)
(* state's.                                                                *)
LEMMA QueueOfState ==
  ASSUME NEW k \in KernelState, NEW p \in Pcb
  PROVE  /\ QueueOf(k, p) \in QueueId
         /\ k.pcb[p].state = PS_FREE <=> QueueOf(k, p) = "free_pcbs"
         /\ k.pcb[p].state = PS_WAITING <=> QueueOf(k, p) = "waiting"
         /\ k.pcb[p].state = PS_SLEEPING <=> QueueOf(k, p) = "sleeping"
         /\ k.pcb[p].state = PS_BLOCKED <=> QueueOf(k, p) = "reading"
         /\ k.pcb[p].state = PS_READY <=> QueueOf(k, p) \in ReadyId
         /\ k.pcb[p].state = PS_READY => QueueOf(k, p) = Ready(k.pcb[p].prio)
         /\ k.pcb[p].state \in {PS_NEW, PS_RUNNING, PS_KILLED, PS_ZOMBIE}
              <=> QueueOf(k, p) = "zombie"
<1> DEFINE st == k.pcb[p].state
           r  == Ready(k.pcb[p].prio)
           q  == QueueOf(k, p)
<1>1. r \in ReadyId
  BY DEF Ready, ReadyId
<1>2. st \in 0 .. 8
  BY KernelFields, PcbFields DEF PState, PS_FREE, PS_ZOMBIE
<1>3. q = CASE st = 0 -> "free_pcbs" [] st = 5 -> "waiting" [] st = 4 -> "sleeping"
            [] st = 6 -> "reading" [] st = 2 -> r [] OTHER -> "zombie"
  BY DEF QueueOf, PS_FREE, PS_WAITING, PS_SLEEPING, PS_BLOCKED, PS_READY
<1> HIDE DEF st, r, q
<1>4. /\ st = 0 => q = "free_pcbs"
      /\ st = 5 => q = "waiting"
      /\ st = 4 => q = "sleeping"
      /\ st = 6 => q = "reading"
      /\ st = 2 => q = r
      /\ st \in {1, 3, 7, 8} => q = "zombie"
  BY <1>3
<1>5. st \in {0, 1, 2, 3, 4, 5, 6, 7, 8}
  BY <1>2
<1>6. /\ q \in QueueId
      /\ st = 0 <=> q = "free_pcbs"
      /\ st = 5 <=> q = "waiting"
      /\ st = 4 <=> q = "sleeping"
      /\ st = 6 <=> q = "reading"
      /\ st = 2 <=> q \in ReadyId
      /\ st = 2 => q = r
      /\ st \in {1, 3, 7, 8} <=> q = "zombie"
  BY <1>1, <1>4, <1>5 DEF QueueId, ReadyId
<1> QED
  BY <1>6 DEF st, r, q, PS_FREE, PS_NEW, PS_READY, PS_RUNNING, PS_SLEEPING, PS_WAITING,
     PS_BLOCKED, PS_KILLED, PS_ZOMBIE

(* QueueOf looks at the state and the priority only.                       *)
LEMMA QueueOfSame ==
  ASSUME NEW k, NEW k2, NEW p, k2.pcb[p].state = k.pcb[p].state,
         k2.pcb[p].prio = k.pcb[p].prio
  PROVE  QueueOf(k2, p) = QueueOf(k, p)
BY DEF QueueOf

(* The table of PCBs, and each part of it, is finite.                      *)
LEMMA PcbFinite ==
  /\ IsFiniteSet(Pcb) /\ Cardinality(Pcb) = N_PCBS
  /\ \A S \in SUBSET Pcb : IsFiniteSet(S) /\ Cardinality(S) \in 0 .. N_PCBS
<1>1. N_PCBS \in Nat /\ N_PCBS >= 1
  BY KernelConstants DEF N_PCBS
<1>2. IsFiniteSet(Pcb) /\ Cardinality(Pcb) = N_PCBS
  BY <1>1, FS_Interval DEF Pcb
<1>3. ASSUME NEW S \in SUBSET Pcb
      PROVE  IsFiniteSet(S) /\ Cardinality(S) \in 0 .. N_PCBS
  BY <1>1, <1>2, FS_Subset, FS_CardinalityType
<1> QED
  BY <1>2, <1>3

(* There is always a qnode to spare: each holds a PCB or a free stack, and *)
(* there are five more than PCBs and stacks.                               *)
LEMMA Room ==
  ASSUME NEW k \in KernelState, NEW out \in SUBSET Pcb, Stacked(k), Balanced(k, out)
  PROVE  k.qnodes >= 5
<1>1. N_PCBS \in Nat /\ N_STACKS \in Nat /\ N_QNODES = N_PCBS + N_STACKS + 5
  BY KernelConstants DEF N_PCBS, N_STACKS, N_QNODES
<1>2. Cardinality(Pcb \ out) \in 0 .. N_PCBS
  BY PcbFinite
<1>3. Len(k.free_stacks) \in 0 .. N_STACKS
  <2>1. k.free_stacks \in Seq(Stack) /\ Lists(k.free_stacks, Stack \ Owned(k))
    BY KernelFields DEF Stacked
  <2>2. Len(k.free_stacks) = Cardinality(Stack \ Owned(k)) /\ Len(k.free_stacks) \in Nat
    BY <2>1, ListsLen
  <2>3. IsFiniteSet(Stack) /\ Cardinality(Stack) = N_STACKS
    BY <1>1, FS_Interval DEF Stack
  <2>4. Cardinality(Stack \ Owned(k)) <= Cardinality(Stack)
    BY <2>3, FS_Subset
  <2> QED
    BY <1>1, <2>2, <2>3, <2>4
<1>4. k.qnodes \in Int
  BY KernelFields
<1> QED
  BY <1>1, <1>2, <1>3, <1>4 DEF Balanced

(* Two sets with nothing in common.                                        *)
LEMMA CardDisjoint ==
  ASSUME NEW S, NEW T, IsFiniteSet(S), IsFiniteSet(T), S \cap T = {}
  PROVE  IsFiniteSet(S \cup T) /\ Cardinality(S \cup T) = Cardinality(S) + Cardinality(T)
<1>1. Cardinality(S \cap T) = 0
  BY FS_EmptySet
<1>2. Cardinality(S) \in Nat /\ Cardinality(T) \in Nat
  BY FS_CardinalityType
<1>3. /\ IsFiniteSet(S \cup T)
      /\ Cardinality(S \cup T) = Cardinality(S) + Cardinality(T) - Cardinality(S \cap T)
  BY FS_Union, Zenon
<1> QED
  BY <1>1, <1>2, <1>3

(* The queues together hold each PCB that is not in hand.                  *)
LEMMA QueuedCount ==
  ASSUME NEW k \in KernelState, NEW out \in SUBSET Pcb, Placed(k, out)
  PROVE    Len(k.queue["free_pcbs"]) + Len(k.queue["sleeping"]) + Len(k.queue["waiting"])
         + Len(k.queue["reading"]) + Len(k.queue["zombie"])
         + Len(k.queue["ready[0]"]) + Len(k.queue["ready[1]"])
         + Len(k.queue["ready[2]"]) + Len(k.queue["ready[3]"]) = Cardinality(Pcb \ out)
<1> DEFINE At(q) == QueuedAt(k, out, q)
<1>1. ASSUME NEW q \in QueueId
      PROVE  IsFiniteSet(At(q)) /\ Cardinality(At(q)) = Len(k.queue[q])
             /\ Cardinality(At(q)) \in Nat
  <2>1. k.queue[q] \in Seq(Pcb) /\ Lists(k.queue[q], At(q))
    BY KernelFields DEF Placed
  <2> QED
    BY <2>1, ListsLen, FS_CardinalityType
<1>2. \A q1, q2 : q1 # q2 => At(q1) \cap At(q2) = {}
  BY DEF QueuedAt
<1> DEFINE U1 == At("free_pcbs") \cup At("sleeping")
           U2 == U1 \cup At("waiting")
           U3 == U2 \cup At("reading")
           U4 == U3 \cup At("zombie")
           U5 == U4 \cup At("ready[0]")
           U6 == U5 \cup At("ready[1]")
           U7 == U6 \cup At("ready[2]")
           U8 == U7 \cup At("ready[3]")
<1>3. U8 = Pcb \ out
  <2>1. \A p \in Pcb : QueueOf(k, p) \in QueueId
    BY QueueOfState
  <2> QED
    BY <2>1 DEF QueuedAt, QueueId, ReadyId
<1>4. /\ U1 \cap At("waiting") = {} /\ U2 \cap At("reading") = {}
      /\ U3 \cap At("zombie") = {} /\ U4 \cap At("ready[0]") = {}
      /\ U5 \cap At("ready[1]") = {} /\ U6 \cap At("ready[2]") = {}
      /\ U7 \cap At("ready[3]") = {} /\ At("free_pcbs") \cap At("sleeping") = {}
  BY DEF QueuedAt
<1> HIDE DEF At
<1>5. IsFiniteSet(U1) /\ Cardinality(U1) = Len(k.queue["free_pcbs"]) + Len(k.queue["sleeping"])
  BY <1>1, <1>4, CardDisjoint DEF QueueId
<1> HIDE DEF U1
<1>6. IsFiniteSet(U2) /\ Cardinality(U2) = Cardinality(U1) + Len(k.queue["waiting"])
  BY <1>1, <1>4, <1>5, CardDisjoint, ZenonT(60) DEF QueueId
<1> HIDE DEF U2
<1>7. IsFiniteSet(U3) /\ Cardinality(U3) = Cardinality(U2) + Len(k.queue["reading"])
  BY <1>1, <1>4, <1>6, CardDisjoint, ZenonT(60) DEF QueueId
<1> HIDE DEF U3
<1>8. IsFiniteSet(U4) /\ Cardinality(U4) = Cardinality(U3) + Len(k.queue["zombie"])
  BY <1>1, <1>4, <1>7, CardDisjoint, ZenonT(60) DEF QueueId
<1> HIDE DEF U4
<1>9. IsFiniteSet(U5) /\ Cardinality(U5) = Cardinality(U4) + Len(k.queue["ready[0]"])
  BY <1>1, <1>4, <1>8, CardDisjoint, ZenonT(60) DEF QueueId, ReadyId
<1> HIDE DEF U5
<1>10. IsFiniteSet(U6) /\ Cardinality(U6) = Cardinality(U5) + Len(k.queue["ready[1]"])
  BY <1>1, <1>4, <1>9, CardDisjoint, ZenonT(60) DEF QueueId, ReadyId
<1> HIDE DEF U6
<1>11. IsFiniteSet(U7) /\ Cardinality(U7) = Cardinality(U6) + Len(k.queue["ready[2]"])
  BY <1>1, <1>4, <1>10, CardDisjoint, ZenonT(60) DEF QueueId, ReadyId
<1> HIDE DEF U7
<1>12. Cardinality(U8) = Cardinality(U7) + Len(k.queue["ready[3]"])
  BY <1>1, <1>4, <1>11, CardDisjoint, ZenonT(60) DEF QueueId, ReadyId
<1> QED
  BY <1>3, <1>5, <1>6, <1>7, <1>8, <1>9, <1>10, <1>11, <1>12

-----------------------------------------------------------------------------
(* Updates of PCBs.                                                        *)

(* The order of the queues is in the state, the priority and the wakeup    *)
(* time of the PCBs on them.                                               *)
LEMMA QueuesFrame ==
  ASSUME NEW k \in KernelState, NEW out \in SUBSET Pcb, Placed(k, out), Sorted(k),
         NEW k2, k2.queue = k.queue,
         \A p \in Pcb \ out : /\ k2.pcb[p].state = k.pcb[p].state
                              /\ k2.pcb[p].prio = k.pcb[p].prio
                              /\ k2.pcb[p].wakeup = k.pcb[p].wakeup
  PROVE  Placed(k2, out) /\ Sorted(k2)
<1>1. \A q : QueuedAt(k2, out, q) = QueuedAt(k, out, q)
  BY QueueOfSame DEF QueuedAt
<1>2. Placed(k2, out)
  BY <1>1 DEF Placed
<1>3. k.queue["sleeping"] \in Seq(Pcb) /\ "sleeping" \in QueueId
  BY KernelFields DEF QueueId
<1>4. \A i \in 1 .. Len(k.queue["sleeping"]) : k.queue["sleeping"][i] \in Pcb \ out
  <2>1. Lists(k.queue["sleeping"], QueuedAt(k, out, "sleeping"))
    BY <1>3 DEF Placed
  <2>2. \A i \in 1 .. Len(k.queue["sleeping"]) :
          k.queue["sleeping"][i] \in QueuedAt(k, out, "sleeping")
    BY <1>3, <2>1, ListsPlaces
  <2> QED
    BY <2>2 DEF QueuedAt
<1>5. Sorted(k2)
  BY <1>3, <1>4 DEF Sorted
<1> QED
  BY <1>2, <1>5

(* An update that leaves the pools alone, and every queued PCB with its    *)
(* queue and wakeup time and every process with its stack, keeps the order.*)
LEMMA SoundFrame ==
  ASSUME NEW k, NEW out, Sound(k, out), NEW k2 \in KernelState,
         k2.queue = k.queue, k2.free_stacks = k.free_stacks, k2.qnodes = k.qnodes,
         k2.panic = k.panic,
         \A p \in Pcb : /\ k2.pcb[p].state = PS_FREE <=> k.pcb[p].state = PS_FREE
                        /\ k.pcb[p].state # PS_FREE => k2.pcb[p].stack = k.pcb[p].stack,
         \A p \in Pcb \ out : /\ k2.pcb[p].state = k.pcb[p].state
                              /\ k2.pcb[p].prio = k.pcb[p].prio
                              /\ k2.pcb[p].wakeup = k.pcb[p].wakeup
  PROVE  Sound(k2, out)
<1>1. k \in KernelState /\ out \subseteq Pcb
  BY DEF Sound
<1>2. Placed(k2, out) /\ Sorted(k2)
  BY <1>1, QueuesFrame DEF Sound
<1>3. Stacked(k2)
  <2>1. Owners(k2) = Owners(k)
    BY DEF Owners
  <2>2. Owned(k2) = Owned(k)
    BY <2>1 DEF Owned, Owners
  <2> QED
    BY <2>1, <2>2 DEF Sound, Stacked, Owners
<1> QED
  BY <1>1, <1>2, <1>3 DEF Sound, Balanced, Halted

(* Changing who is current, what is returned, the PIDs handed out, the     *)
(* clock or the input waiting is nothing to the queues.                    *)
LEMMA SoundElse ==
  ASSUME NEW k, NEW out, Sound(k, out), NEW k2 \in KernelState,
         k2.pcb = k.pcb, k2.queue = k.queue, k2.free_stacks = k.free_stacks,
         k2.qnodes = k.qnodes, k2.panic = k.panic
  PROVE  Sound(k2, out)
<1>1. \A p : k2.pcb[p] = k.pcb[p]
  OBVIOUS
<1> QED
  BY <1>1, SoundFrame, Zenon

(* A PCB in hand may be given any state but PS_FREE, any priority and any  *)
(* other field but its stack.                                              *)
LEMMA SoundSet ==
  ASSUME NEW k, NEW out, Sound(k, out), NEW p \in out, k.pcb[p].state # PS_FREE,
         NEW r \in PcbRecord, r.stack = k.pcb[p].stack, r.state # PS_FREE
  PROVE  /\ Sound([k EXCEPT !.pcb[p] = r], out)
         /\ [k EXCEPT !.pcb[p] = r].pcb = [k.pcb EXCEPT ![p] = r]
         /\ [k EXCEPT !.pcb[p] = r].pcb[p] = r
<1> DEFINE k2 == [k EXCEPT !.pcb[p] = r]
<1>1. k \in KernelState /\ p \in Pcb /\ k.pcb \in [Pcb -> PcbRecord]
  BY KernelFields DEF Sound
<1>2. k2 \in KernelState
  BY <1>1, SetPcb
<1>3. /\ k2.pcb = [k.pcb EXCEPT ![p] = r] /\ k2.queue = k.queue /\ k2.qnodes = k.qnodes
      /\ k2.free_stacks = k.free_stacks /\ k2.panic = k.panic
  BY <1>1 DEF KernelState
<1> HIDE DEF k2
<1>4. k2.pcb[p] = r /\ \A c \in Pcb : c # p => k2.pcb[c] = k.pcb[c]
  BY <1>1, <1>3
<1>5. \A c \in Pcb : /\ k2.pcb[c].state = PS_FREE <=> k.pcb[c].state = PS_FREE
                     /\ k.pcb[c].state # PS_FREE => k2.pcb[c].stack = k.pcb[c].stack
  BY <1>4
<1>6. \A c \in Pcb \ out : /\ k2.pcb[c].state = k.pcb[c].state
                           /\ k2.pcb[c].prio = k.pcb[c].prio
                           /\ k2.pcb[c].wakeup = k.pcb[c].wakeup
  BY <1>4
<1>7. Sound(k2, out)
  BY <1>2, <1>3, <1>5, <1>6, SoundFrame, Zenon
<1> QED
  BY <1>3, <1>4, <1>7 DEF k2

-----------------------------------------------------------------------------
(* Queues.                                                                 *)

(* What is the same in two kernel states that differ in their queues and   *)
(* the number of free qnodes only.                                         *)
ButQueues(k, k2) ==
  /\ k2.pcb = k.pcb /\ k2.free_stacks = k.free_stacks /\ k2.current = k.current
  /\ k2.next_pid = k.next_pid /\ k2.now = k.now /\ k2.returned = k.returned
  /\ k2.incount = k.incount /\ k2.console = k.console /\ k2.panic = k.panic

(* Putting a PCB in hand on the queue of its state, with a qnode.          *)
LEMMA PutIn ==
  ASSUME NEW k, NEW out, Sound(k, out), NEW k2 \in KernelState, ButQueues(k, k2),
         NEW p \in out, k.pcb[p].state # PS_RUNNING, NEW q \in QueueId, QueueOf(k, p) = q,
         Lists(k2.queue[q], QueuedAt(k, out, q) \cup {p}),
         \A c \in QueueId \ {q} : k2.queue[c] = k.queue[c],
         k2.qnodes = k.qnodes - 1, Sorted(k2)
  PROVE  Sound(k2, out \ {p})
<1>1. k \in KernelState /\ out \subseteq Pcb /\ p \in Pcb
  BY DEF Sound
<1>2. k2.pcb = k.pcb /\ k2.free_stacks = k.free_stacks /\ k2.panic = k.panic
  BY DEF ButQueues
<1>3. \A c, b : QueueOf(k2, c) = QueueOf(k, c)
  BY <1>2 DEF QueueOf
<1>4. \A c \in QueueId \ {q} : QueuedAt(k2, out \ {p}, c) = QueuedAt(k, out, c)
  BY <1>1, <1>3 DEF QueuedAt
<1>5. QueuedAt(k2, out \ {p}, q) = QueuedAt(k, out, q) \cup {p}
  BY <1>1, <1>3 DEF QueuedAt
<1>6. Placed(k2, out \ {p})
  <2>1. ASSUME NEW c \in QueueId
        PROVE  Lists(k2.queue[c], QueuedAt(k2, out \ {p}, c))
    BY <1>4, <1>5 DEF Sound, Placed
  <2>2. \A c \in Pcb \ (out \ {p}) : k2.pcb[c].state # PS_RUNNING
    BY <1>2 DEF Sound, Placed
  <2> QED
    BY <2>1, <2>2 DEF Placed
<1>7. Stacked(k2)
  BY <1>2 DEF Sound, Stacked, Owners, Owned
<1>8. Balanced(k2, out \ {p})
  <2>1. Pcb \ (out \ {p}) = (Pcb \ out) \cup {p} /\ p \notin Pcb \ out
    BY <1>1
  <2>2. Cardinality(Pcb \ (out \ {p})) = Cardinality(Pcb \ out) + 1
    <3>1. IsFiniteSet(Pcb \ out)
      BY PcbFinite
    <3> QED
      BY <2>1, <3>1, FS_AddElement
  <2>3. Cardinality(Pcb \ out) \in Int /\ k.qnodes \in Int /\ Len(k.free_stacks) \in Int
    BY <1>1, PcbFinite, KernelFields
  <2> QED
    BY <1>2, <2>2, <2>3 DEF Sound, Balanced
<1> QED
  BY <1>1, <1>2, <1>6, <1>7, <1>8 DEF Sound, Halted

(* Taking a PCB off its queue, which gives a qnode.                        *)
LEMMA TakeOut ==
  ASSUME NEW k, NEW out, Sound(k, out), NEW k2 \in KernelState, ButQueues(k, k2),
         NEW p \in Pcb \ out, NEW q \in QueueId, QueueOf(k, p) = q,
         Lists(k2.queue[q], QueuedAt(k, out, q) \ {p}),
         \A c \in QueueId \ {q} : k2.queue[c] = k.queue[c],
         k2.qnodes = k.qnodes + 1, Sorted(k2)
  PROVE  Sound(k2, out \cup {p})
<1>1. k \in KernelState /\ out \subseteq Pcb
  BY DEF Sound
<1>2. k2.pcb = k.pcb /\ k2.free_stacks = k.free_stacks /\ k2.panic = k.panic
  BY DEF ButQueues
<1>3. \A c, b : QueueOf(k2, c) = QueueOf(k, c)
  BY <1>2 DEF QueueOf
<1>4. \A c \in QueueId \ {q} : QueuedAt(k2, out \cup {p}, c) = QueuedAt(k, out, c)
  BY <1>1, <1>3 DEF QueuedAt
<1>5. QueuedAt(k2, out \cup {p}, q) = QueuedAt(k, out, q) \ {p}
  BY <1>1, <1>3 DEF QueuedAt
<1>6. Placed(k2, out \cup {p})
  <2>1. ASSUME NEW c \in QueueId
        PROVE  Lists(k2.queue[c], QueuedAt(k2, out \cup {p}, c))
    BY <1>4, <1>5 DEF Sound, Placed
  <2>2. \A c \in Pcb \ (out \cup {p}) : k2.pcb[c].state # PS_RUNNING
    BY <1>2 DEF Sound, Placed
  <2> QED
    BY <2>1, <2>2 DEF Placed
<1>7. Stacked(k2)
  BY <1>2 DEF Sound, Stacked, Owners, Owned
<1>8. Balanced(k2, out \cup {p})
  <2>1. Pcb \ (out \cup {p}) = (Pcb \ out) \ {p} /\ p \in Pcb \ out
    OBVIOUS
  <2>2. Cardinality(Pcb \ (out \cup {p})) = Cardinality(Pcb \ out) - 1
    <3>1. IsFiniteSet(Pcb \ out)
      BY PcbFinite
    <3> QED
      BY <2>1, <3>1, FS_RemoveElement
  <2>3. Cardinality(Pcb \ out) \in Int /\ k.qnodes \in Int /\ Len(k.free_stacks) \in Int
    BY <1>1, PcbFinite, KernelFields
  <2> QED
    BY <1>2, <2>2, <2>3 DEF Sound, Balanced
<1> QED
  BY <1>1, <1>2, <1>6, <1>7, <1>8 DEF Sound, Halted

(* _q_enque.                                                               *)
LEMMA EnqueFields ==
  ASSUME NEW k \in KernelState, NEW q \in QueueId, NEW p \in Pcb
  PROVE  LET k2 == Enque(k, q, p) IN
         /\ k2 \in KernelState /\ ButQueues(k, k2) /\ k2.qnodes = k.qnodes - 1
         /\ k2.queue[q] = IF q = "sleeping" /\ Behind(k, p) # {}
                          THEN InsertAt(k.queue[q], Min(Behind(k, p)), p)
                          ELSE Append(k.queue[q], p)
         /\ \A c \in QueueId \ {q} : k2.queue[c] = k.queue[c]
<1> DEFINE s == IF q = "sleeping" /\ Behind(k, p) # {}
                THEN InsertAt(k.queue[q], Min(Behind(k, p)), p)
                ELSE Append(k.queue[q], p)
<1>1. Enque(k, q, p) = [k EXCEPT !.queue[q] = s, !.qnodes = k.qnodes - 1]
  BY DEF Enque
<1> HIDE DEF s
<1>2. LET k2 == [k EXCEPT !.queue[q] = s, !.qnodes = k.qnodes - 1] IN
      /\ ButQueues(k, k2) /\ k2.qnodes = k.qnodes - 1 /\ k2.queue[q] = s
      /\ \A c \in QueueId \ {q} : k2.queue[c] = k.queue[c]
  BY DEF ButQueues, KernelState
<1> QED
  BY <1>1, <1>2, EnqueType DEF s

(* Its place keeps the sleep queue in order: after the sleepers that are   *)
(* not due later, and before those that are.                               *)
LEMMA EnqueSorted ==
  ASSUME NEW k \in KernelState, Sorted(k), NEW q \in QueueId, NEW p \in Pcb
  PROVE  Sorted(Enque(k, q, p))
<1> DEFINE k2 == Enque(k, q, p)
           s  == k.queue["sleeping"]
           t  == k2.queue["sleeping"]
           W(c) == k.pcb[c].wakeup
           m  == Min(Behind(k, p))
<1>1. s \in Seq(Pcb) /\ Len(s) \in Nat /\ \A i \in 1 .. Len(s) : s[i] \in Pcb
  BY KernelFields DEF QueueId
<1>2. \A c \in Pcb : W(c) \in Int
  BY KernelFields, PcbFields
<1>3. k2.pcb = k.pcb
  BY EnqueFields DEF ButQueues
<1>4. \A i, j \in 1 .. Len(s) : i < j => W(s[i]) <= W(s[j])
  BY DEF Sorted
<1>5. \A i \in 1 .. Len(s) : i \in Behind(k, p) <=> W(p) < W(s[i])
  BY DEF Behind
<1>6. Behind(k, p) \subseteq 1 .. Len(s) /\ Behind(k, p) \in SUBSET Nat
  BY <1>1 DEF Behind
<1> HIDE DEF W
<1>7. CASE q # "sleeping"
  <2>1. t = s
    BY <1>7, EnqueFields DEF QueueId
  <2> QED
    BY <1>3, <2>1 DEF Sorted
<1>8. CASE q = "sleeping" /\ Behind(k, p) = {}
  <2>1. t = Append(s, p)
    BY <1>8, EnqueFields
  <2> HIDE DEF s, t, k2
  <2>2. Len(t) = Len(s) + 1 /\ t[Len(s) + 1] = p /\ \A i \in 1 .. Len(s) : t[i] = s[i]
    BY <1>1, <2>1
  <2>3. \A i \in 1 .. Len(s) : W(s[i]) <= W(p)
    BY <1>1, <1>2, <1>5, <1>8
  <2>4. \A i, j \in 1 .. Len(t) : i < j => W(t[i]) <= W(t[j])
    <3> SUFFICES ASSUME NEW i \in 1 .. Len(t), NEW j \in 1 .. Len(t), i < j
                 PROVE  W(t[i]) <= W(t[j])
      OBVIOUS
    <3>1. i \in 1 .. Len(s) /\ (j \in 1 .. Len(s) \/ j = Len(s) + 1)
      BY <1>1, <2>2
    <3> QED
      BY <3>1, <2>2, <2>3, <1>4
  <2> QED
    BY <1>3, <2>4 DEF Sorted, W, t, k2
<1>9. CASE q = "sleeping" /\ Behind(k, p) # {}
  <2>1. m \in Behind(k, p) /\ \A i \in Behind(k, p) : m <= i
    BY <1>6, <1>9, MinNat
  <2>2. m \in 1 .. Len(s)
    BY <1>6, <2>1
  <2>3. t = InsertAt(s, m, p)
    BY <1>9, EnqueFields
  <2> HIDE DEF s, t, k2, m
  <2>4. /\ Len(t) = Len(s) + 1
        /\ \A j \in 1 .. Len(s) + 1 :
             t[j] = IF j < m THEN s[j] ELSE IF j = m THEN p ELSE s[j - 1]
    <3>1. /\ Len(InsertAt(s, m, p)) = Len(s) + 1
          /\ \A j \in 1 .. Len(s) + 1 :
               InsertAt(s, m, p)[j] = IF j < m THEN s[j] ELSE IF j = m THEN p ELSE s[j - 1]
      <4>1. s \in Seq(Pcb) /\ m \in 1 .. Len(s) /\ p \in Pcb
        BY <1>1, <2>2
      <4> QED
        BY <4>1, InsertAtSeq
    <3> QED
      BY <2>3, <3>1, Zenon
  <2>5. \A i \in 1 .. Len(s) : i < m => W(s[i]) <= W(p)
    <3> SUFFICES ASSUME NEW i \in 1 .. Len(s), i < m PROVE W(s[i]) <= W(p)
      OBVIOUS
    <3>1. i \notin Behind(k, p)
      BY <2>1, <2>2
    <3> QED
      BY <3>1, <1>1, <1>2, <1>5
  <2>6. \A i \in 1 .. Len(s) : m <= i => W(p) <= W(s[i])
    <3>1. W(p) < W(s[m])
      BY <1>5, <2>1, <2>2
    <3> SUFFICES ASSUME NEW i \in 1 .. Len(s), m <= i PROVE W(p) <= W(s[i])
      OBVIOUS
    <3>2. W(s[m]) <= W(s[i])
      BY <1>1, <1>2, <1>4, <2>2
    <3> QED
      BY <3>1, <3>2, <1>1, <1>2, <2>2
  <2>7. \A i, j \in 1 .. Len(t) : i < j => W(t[i]) <= W(t[j])
    <3> SUFFICES ASSUME NEW i \in 1 .. Len(t), NEW j \in 1 .. Len(t), i < j
                 PROVE  W(t[i]) <= W(t[j])
      OBVIOUS
    <3>1. CASE j < m
      BY <3>1, <1>1, <1>4, <2>2, <2>4
    <3>2. CASE j = m
      <4>1. i \in 1 .. Len(s) /\ t[i] = s[i] /\ t[j] = p
        BY <3>2, <1>1, <2>2, <2>4
      <4> QED
        BY <4>1, <2>5, <3>2
    <3>3. CASE m < j
      <4>1. j - 1 \in 1 .. Len(s) /\ m <= j - 1 /\ t[j] = s[j - 1]
        BY <3>3, <1>1, <2>2, <2>4
      <4>2. CASE i < m
        <5>1. i \in 1 .. Len(s) /\ t[i] = s[i] /\ i < j - 1
          BY <4>1, <4>2, <1>1, <2>2, <2>4
        <5> QED
          BY <4>1, <5>1, <1>4
      <4>3. CASE i = m
        <5>1. t[i] = p
          BY <4>3, <1>1, <2>2, <2>4
        <5> QED
          BY <4>1, <5>1, <2>6
      <4>4. CASE m < i
        <5>1. i - 1 \in 1 .. Len(s) /\ t[i] = s[i - 1] /\ i - 1 < j - 1
          BY <4>1, <4>4, <1>1, <2>2, <2>4
        <5> QED
          BY <4>1, <5>1, <1>4
      <4> QED
        BY <4>2, <4>3, <4>4, <2>2
    <3> QED
      BY <3>1, <3>2, <3>3, <2>2
  <2> QED
    BY <1>3, <2>7 DEF Sorted, W, t, k2
<1> QED
  BY <1>7, <1>8, <1>9

(* A PCB in hand is put on the queue of its state.  A qnode is free.       *)
LEMMA EnqueSound ==
  ASSUME NEW k, NEW out, Sound(k, out), NEW p \in out, k.pcb[p].state # PS_RUNNING,
         NEW q \in QueueId, QueueOf(k, p) = q
  PROVE  LET k2 == Enque(k, q, p) IN
         Sound(k2, out \ {p}) /\ ButQueues(k, k2) /\ k.qnodes # 0
<1> DEFINE k2 == Enque(k, q, p)
           S  == QueuedAt(k, out, q)
           s  == k.queue[q]
<1>1. k \in KernelState /\ p \in Pcb /\ s \in Seq(Pcb) /\ Sorted(k) /\ out \in SUBSET Pcb
  BY KernelFields DEF Sound
<1>2. /\ k2 \in KernelState /\ ButQueues(k, k2) /\ k2.qnodes = k.qnodes - 1
      /\ k2.queue[q] = IF q = "sleeping" /\ Behind(k, p) # {}
                       THEN InsertAt(s, Min(Behind(k, p)), p) ELSE Append(s, p)
      /\ \A c \in QueueId \ {q} : k2.queue[c] = k.queue[c]
  BY <1>1, EnqueFields
<1>3. Lists(s, S) /\ p \notin S
  BY DEF Sound, Placed, QueuedAt
<1>4. q = "sleeping" /\ Behind(k, p) # {} => Min(Behind(k, p)) \in 1 .. Len(s)
  <2>1. Behind(k, p) \subseteq 1 .. Len(k.queue["sleeping"]) /\ Behind(k, p) \in SUBSET Nat
    BY <1>1, KernelFields DEF Behind, QueueId
  <2> QED
    BY <2>1, MinNat
<1>5. Sorted(k2)
  BY <1>1, EnqueSorted
<1> HIDE DEF k2, S, s
<1>6. Lists(k2.queue[q], S \cup {p})
  BY <1>1, <1>2, <1>3, <1>4, ListsAppend, ListsInsert
<1>7. Sound(k2, out \ {p})
  BY <1>2, <1>5, <1>6, PutIn DEF S
<1>8. k.qnodes >= 5
  BY <1>1, Room DEF Sound
<1> QED
  BY <1>1, <1>2, <1>7, <1>8, KernelFields DEF k2

(* _q_deque takes the first PCB off a queue, which is then in hand.        *)
LEMMA DequeSound ==
  ASSUME NEW k, NEW out, Sound(k, out), NEW q \in QueueId, k.queue[q] # << >>
  PROVE  LET k2 == Deque(k, q)
             p  == Head(k.queue[q])
         IN /\ Sound(k2, out \cup {p}) /\ ButQueues(k, k2)
            /\ p \in Pcb \ out /\ QueueOf(k, p) = q
<1> DEFINE k2 == Deque(k, q)
           p  == Head(k.queue[q])
           S  == QueuedAt(k, out, q)
<1>1. k \in KernelState /\ k.queue[q] \in Seq(Pcb) /\ Sorted(k) /\ out \subseteq Pcb
  BY KernelFields DEF Sound
<1>2. /\ k2 \in KernelState /\ ButQueues(k, k2) /\ k2.qnodes = k.qnodes + 1
      /\ k2.queue[q] = Tail(k.queue[q])
      /\ \A c \in QueueId \ {q} : k2.queue[c] = k.queue[c]
  <2>1. k2 \in KernelState
    BY <1>1, DequeType
  <2> QED
    BY <1>1, <2>1 DEF Deque, ButQueues, KernelState
<1>3. Lists(k.queue[q], S)
  BY DEF Sound, Placed
<1>4. p \in S /\ Lists(Tail(k.queue[q]), S \ {p})
  BY <1>1, <1>3, ListsTail
<1>5. p \in Pcb \ out /\ QueueOf(k, p) = q
  BY <1>4 DEF QueuedAt
<1>6. Sorted(k2)
  <2>1. CASE q # "sleeping"
    <3>1. k2.queue["sleeping"] = k.queue["sleeping"] /\ k2.pcb = k.pcb
      BY <1>2, <2>1 DEF ButQueues, QueueId
    <3> HIDE DEF k2
    <3> QED
      BY <1>1, <3>1 DEF Sorted
  <2>2. CASE q = "sleeping"
    <3> DEFINE s == k.queue["sleeping"]
    <3>1. s \in Seq(Pcb) /\ k2.queue["sleeping"] = Tail(s) /\ k2.pcb = k.pcb /\ s # << >>
      BY <1>1, <1>2, <2>2 DEF ButQueues
    <3>2. /\ Len(Tail(s)) = Len(s) - 1 /\ Len(s) \in Nat
          /\ \A i \in 1 .. Len(Tail(s)) : Tail(s)[i] = s[i + 1]
      BY <3>1
    <3>3. \A i, j \in 1 .. Len(s) : i < j => k.pcb[s[i]].wakeup <= k.pcb[s[j]].wakeup
      BY <1>1 DEF Sorted
    <3> DEFINE t == Tail(s)
    <3> HIDE DEF s, t
    <3>4. \A i, j \in 1 .. Len(t) : i < j => k.pcb[t[i]].wakeup <= k.pcb[t[j]].wakeup
      <4> SUFFICES ASSUME NEW i \in 1 .. Len(t), NEW j \in 1 .. Len(t), i < j
                   PROVE  k.pcb[t[i]].wakeup <= k.pcb[t[j]].wakeup
        OBVIOUS
      <4>1. /\ i + 1 \in 1 .. Len(s) /\ j + 1 \in 1 .. Len(s) /\ i + 1 < j + 1
            /\ t[i] = s[i + 1] /\ t[j] = s[j + 1]
        BY <3>2 DEF t
      <4> QED
        BY <4>1, <3>3
    <3> QED
      BY <3>1, <3>4 DEF Sorted, t
  <2> QED
    BY <2>1, <2>2
<1> HIDE DEF k2, p, S
<1>7. Sound(k2, out \cup {p})
  <2>1. Lists(k2.queue[q], QueuedAt(k, out, q) \ {p})
    BY <1>2, <1>4 DEF S
  <2> QED
    BY <1>2, <1>5, <1>6, <2>1, TakeOut, Zenon
<1> QED
  BY <1>2, <1>5, <1>7 DEF k2, p

(* _q_remove of a PCB from the queue of its state finds it.                *)
LEMMA RemoveSound ==
  ASSUME NEW k, NEW out, Sound(k, out), NEW p \in Pcb \ out,
         NEW q \in QueueId, QueueOf(k, p) = q, NEW site \in PanicSite
  PROVE  LET k2 == RemoveOrPanic(k, q, p, site) IN
         Sound(k2, out \cup {p}) /\ ButQueues(k, k2)
<1> DEFINE s    == k.queue[q]
           here == {i \in 1 .. Len(s) : s[i] = p}
           m    == Min(here)
           k2   == RemoveOrPanic(k, q, p, site)
           S    == QueuedAt(k, out, q)
<1>1. k \in KernelState /\ s \in Seq(Pcb) /\ Sorted(k) /\ out \subseteq Pcb
  BY KernelFields DEF Sound
<1>2. Lists(s, S) /\ p \in S
  BY DEF Sound, Placed, QueuedAt
<1>3. here # {} /\ here \in SUBSET Nat
  BY <1>1, <1>2, ListsPlaces
<1>4. m \in 1 .. Len(s) /\ s[m] = p
  BY <1>3, MinNat
<1>5. /\ k2 \in KernelState /\ ButQueues(k, k2) /\ k2.qnodes = k.qnodes + 1
      /\ k2.queue[q] = RemoveAt(s, m)
      /\ \A c \in QueueId \ {q} : k2.queue[c] = k.queue[c]
  <2>1. k2 \in KernelState
    BY <1>1, RemoveOrPanicType
  <2>2. k2 = [k EXCEPT !.queue[q] = RemoveAt(s, m), !.qnodes = k.qnodes + 1]
    BY <1>3 DEF RemoveOrPanic
  <2> HIDE DEF m, k2
  <2> QED
    BY <1>1, <2>1, <2>2 DEF ButQueues, KernelState
<1>6. Sorted(k2)
  <2>1. CASE q # "sleeping"
    <3> HIDE DEF m, k2
    <3>1. k2.queue["sleeping"] = k.queue["sleeping"] /\ k2.pcb = k.pcb
      BY <1>5, <2>1 DEF ButQueues, QueueId
    <3> QED
      BY <1>1, <3>1 DEF Sorted
  <2>2. CASE q = "sleeping"
    <3> DEFINE t == RemoveAt(s, m)
    <3> HIDE DEF m, s, k2
    <3>1. /\ Len(t) = Len(s) - 1 /\ Len(s) \in Nat
          /\ \A j \in 1 .. Len(s) - 1 : t[j] = IF j < m THEN s[j] ELSE s[j + 1]
      <4>1. Len(s) \in Nat
        BY <1>1
      <4> QED
        BY <1>1, <1>4, <4>1, RemoveAtSeq, Zenon
    <3>2. \A i, j \in 1 .. Len(s) : i < j => k.pcb[s[i]].wakeup <= k.pcb[s[j]].wakeup
      BY <1>1, <2>2 DEF Sorted, s
    <3> HIDE DEF t
    <3>3. \A i, j \in 1 .. Len(t) : i < j => k.pcb[t[i]].wakeup <= k.pcb[t[j]].wakeup
      <4> SUFFICES ASSUME NEW i \in 1 .. Len(t), NEW j \in 1 .. Len(t), i < j
                   PROVE  k.pcb[t[i]].wakeup <= k.pcb[t[j]].wakeup
        OBVIOUS
      <4> DEFINE Old(x) == IF x < m THEN x ELSE x + 1
      <4>1. /\ Old(i) \in 1 .. Len(s) /\ Old(j) \in 1 .. Len(s) /\ Old(i) < Old(j)
            /\ t[i] = s[Old(i)] /\ t[j] = s[Old(j)]
        BY <3>1, <1>4
      <4> HIDE DEF Old
      <4> QED
        BY <4>1, <3>2
    <3> QED
      BY <1>5, <2>2, <3>3 DEF Sorted, t, ButQueues
  <2> QED
    BY <2>1, <2>2
<1>7. Lists(RemoveAt(s, m), S \ {p})
  BY <1>1, <1>2, <1>4, ListsRemove
<1> HIDE DEF k2, s, here, m, S
<1>8. Sound(k2, out \cup {p})
  BY <1>5, <1>6, <1>7, TakeOut DEF S
<1> QED
  BY <1>5, <1>8 DEF k2

-----------------------------------------------------------------------------
(* The scheduler.                                                          *)

(* What is the same in two kernel states that differ in the table, the     *)
(* queues and the pools only.                                              *)
Steady(k, k2) ==
  /\ k2.current = k.current /\ k2.next_pid = k.next_pid /\ k2.now = k.now
  /\ k2.returned = k.returned /\ k2.panic = k.panic

(* There is a qnode for each PCB that is put on the queue of its state.    *)
LEMMA EnqueOrPanicSound ==
  ASSUME NEW k, NEW out, Sound(k, out), NEW p \in out, k.pcb[p].state # PS_RUNNING,
         NEW q \in QueueId, QueueOf(k, p) = q, NEW site
  PROVE  LET k2 == EnqueOrPanic(k, q, p, site) IN
         k2 = Enque(k, q, p) /\ Sound(k2, out \ {p}) /\ ButQueues(k, k2)
<1>1. Sound(Enque(k, q, p), out \ {p}) /\ ButQueues(k, Enque(k, q, p)) /\ k.qnodes # 0
  BY EnqueSound
<1> QED
  BY <1>1 DEF EnqueOrPanic

(* _schedule puts a PCB in hand, with a legal priority, on the ready queue *)
(* of that priority.                                                       *)
Scheduled(k, k2, p) ==
  /\ Steady(k, k2) /\ k2.pcb \in [Pcb -> PcbRecord]
  /\ \A c \in Pcb \ {p} : k2.pcb[c] = k.pcb[c]
  /\ LET x == k.pcb[p]
         y == k2.pcb[p]
     IN /\ y.state = PS_READY /\ y.prio = LegalPrio(x.prio)
        /\ y.pid = x.pid /\ y.ppid = x.ppid /\ y.children = x.children
        /\ y.wakeup = x.wakeup /\ y.exitstatus = x.exitstatus
  /\ k2.queue = [k.queue EXCEPT ![Ready(LegalPrio(k.pcb[p].prio))] = Append(@, p)]

LEMMA ScheduleSound ==
  ASSUME NEW k, NEW out, Sound(k, out), NEW p \in out, k.pcb[p].state # PS_FREE
  PROVE  Sound(Schedule(k, p), out \ {p}) /\ Scheduled(k, Schedule(k, p), p)
<1> DEFINE prio == LegalPrio(k.pcb[p].prio)
           r    == [k.pcb[p] EXCEPT !.prio = prio, !.state = PS_READY]
           q    == Ready(prio)
           set  == [k EXCEPT !.pcb[p] = r]
           site == "_schedule: can't enque ready PCB"
           k2   == Schedule(k, p)
<1>1. k \in KernelState /\ p \in Pcb /\ out \subseteq Pcb /\ ~ Halted(k)
  BY DEF Sound
<1>2. prio \in Prio /\ prio \in Nat
  BY DEF LegalPrio, Prio, P_SYSTEM, P_LOW, P_MIN
<1>3. k.pcb[p] \in PcbRecord
  BY <1>1, KernelFields
<1>4. r \in PcbRecord
  BY <1>2, <1>3, States, SetPrioState
<1>5. r.stack = k.pcb[p].stack /\ r.state = PS_READY /\ r.prio = prio
  BY <1>3 DEF PcbRecord
<1>6. q \in ReadyId /\ q \in QueueId
  BY <1>2, ReadyType
<1>7. k2 = EnqueOrPanic(set, q, p, site)
  BY <1>1 DEF Schedule
<1> HIDE DEF r, k2, q, prio, site
<1>8. Sound(set, out) /\ set.pcb = [k.pcb EXCEPT ![p] = r] /\ set.pcb[p] = r
  BY <1>4, <1>5, SoundSet DEF PS_READY, PS_FREE
<1>9. Steady(k, set) /\ set.queue = k.queue
  BY <1>1 DEF Steady, KernelState
<1> HIDE DEF set
<1>10. QueueOf(set, p) = q /\ set.pcb[p].state # PS_RUNNING
  <2>1. set \in KernelState
    BY <1>8 DEF Sound
  <2>2. set.pcb[p].state = PS_READY /\ set.pcb[p].prio = prio
    BY <1>5, <1>8
  <2>3. QueueOf(set, p) = Ready(set.pcb[p].prio)
    BY <1>1, <2>1, <2>2, QueueOfState, Zenon
  <2> QED
    BY <2>2, <2>3 DEF q, PS_READY, PS_RUNNING
<1>11. k2 = Enque(set, q, p) /\ Sound(k2, out \ {p}) /\ ButQueues(set, k2)
  <2>1. Sound(set, out) /\ p \in out /\ set.pcb[p].state # PS_RUNNING
        /\ q \in QueueId /\ QueueOf(set, p) = q
    BY <1>6, <1>8, <1>10
  <2>2. /\ EnqueOrPanic(set, q, p, site) = Enque(set, q, p)
        /\ Sound(EnqueOrPanic(set, q, p, site), out \ {p})
        /\ ButQueues(set, EnqueOrPanic(set, q, p, site))
    BY <2>1, EnqueOrPanicSound
  <2> QED
    BY <1>7, <2>2
<1>12. Steady(k, k2) /\ k2.pcb = [k.pcb EXCEPT ![p] = r]
  BY <1>8, <1>9, <1>11 DEF Steady, ButQueues
<1>13. k2.queue = [k.queue EXCEPT ![q] = Append(@, p)]
  <2>1. q # "sleeping"
    BY <1>6 DEF ReadyId
  <2>2. set \in KernelState
    BY <1>8 DEF Sound
  <2>3. Enque(set, q, p).queue = [set.queue EXCEPT ![q] = Append(@, p)]
    BY <2>1, <2>2 DEF Enque, KernelState
  <2> QED
    BY <1>9, <1>11, <2>3
<1>14. Scheduled(k, k2, p)
  <2>1. k.pcb \in [Pcb -> PcbRecord] /\ k2.pcb \in [Pcb -> PcbRecord]
    BY <1>1, <1>11, KernelFields DEF Sound
  <2>2. k2.pcb[p] = r /\ \A c \in Pcb \ {p} : k2.pcb[c] = k.pcb[c]
    BY <1>1, <1>12, <2>1
  <2>3. /\ r.pid = k.pcb[p].pid /\ r.ppid = k.pcb[p].ppid /\ r.children = k.pcb[p].children
        /\ r.wakeup = k.pcb[p].wakeup /\ r.exitstatus = k.pcb[p].exitstatus
    BY <1>3 DEF r, PcbRecord
  <2>4. k2.queue = [k.queue EXCEPT ![Ready(LegalPrio(k.pcb[p].prio))] = Append(@, p)]
    BY <1>13 DEF q, prio
  <2> QED
    BY <1>5, <1>12, <2>1, <2>2, <2>3, <2>4 DEF Scheduled, prio
<1> QED
  BY <1>11, <1>14 DEF k2

(* _dispatch takes the first PCB of a ready queue, which then runs and is  *)
(* the only one in hand, or gives up when they are all empty.              *)
Dispatched(k, k2) ==
  \E q \in ReadyId :
    LET next == Head(k.queue[q])
        r    == [k.pcb[next] EXCEPT !.state = PS_RUNNING, !.q_ticks = QUANT_STD]
    IN /\ k.queue[q] # << >> /\ next \in Pcb /\ k.pcb[next].state = PS_READY
       /\ Sound(k2, {next}) /\ k2.current = next /\ r \in PcbRecord
       /\ k2.pcb = [k.pcb EXCEPT ![next] = r]
       /\ k2.queue = [k.queue EXCEPT ![q] = Tail(@)]
       /\ k2.next_pid = k.next_pid /\ k2.now = k.now /\ k2.returned = k.returned

LEMMA DispatchSound ==
  ASSUME NEW k, Sound(k, {})
  PROVE  \/ Dispatch(k) = Panic(k, "_dispatch: no ready processes")
         \/ Dispatched(k, Dispatch(k))
<1> DEFINE ready == {prio \in Prio : k.queue[Ready(prio)] # << >>}
           q     == Ready(Min(ready))
           d     == Deque(k, q)
           next  == Head(k.queue[q])
           r     == [k.pcb[next] EXCEPT !.state = PS_RUNNING, !.q_ticks = QUANT_STD]
           k2    == Dispatch(k)
<1>1. k \in KernelState /\ ~ Halted(k)
  BY DEF Sound
<1>2. CASE ready = {}
  BY <1>1, <1>2 DEF Dispatch
<1>3. CASE ready # {}
  <2>1. ready \in SUBSET Nat
    BY DEF Prio, P_SYSTEM, P_MIN
  <2>2. Min(ready) \in ready
    BY <2>1, <1>3, MinNat
  <2>3. q \in ReadyId /\ q \in QueueId /\ k.queue[q] # << >>
    BY <2>2, ReadyType
  <2>4. k2 = [d EXCEPT !.current = next,
                       !.pcb[next] = [d.pcb[next] EXCEPT !.state = PS_RUNNING,
                                                         !.q_ticks = QUANT_STD]]
    BY <1>1, <1>3 DEF Dispatch
  <2> HIDE DEF k2, q
  <2>5. /\ Sound(d, {} \cup {next}) /\ ButQueues(k, d)
        /\ next \in Pcb \ {} /\ QueueOf(k, next) = q
    BY <2>3, DequeSound
  <2>6. d.queue = [k.queue EXCEPT ![q] = Tail(@)] /\ d.pcb = k.pcb
    BY <1>1, <2>5 DEF Deque, KernelState, ButQueues
  <2>7. k.pcb[next].state = PS_READY
    BY <1>1, <2>3, <2>5, QueueOfState
  <2>8. k.pcb[next] \in PcbRecord
    BY <1>1, <2>5, KernelFields
  <2>9. r \in PcbRecord /\ r.stack = k.pcb[next].stack /\ r.state = PS_RUNNING
    <3>1. QUANT_STD \in 0 .. 255
      BY KernelConstants
    <3> QED
      BY <2>8, <3>1, States, SetStateTicks, ZenonT(60) DEF PcbRecord
  <2>10. k2 = [d EXCEPT !.current = next, !.pcb[next] = r]
    BY <2>4, <2>6
  <2> HIDE DEF d, next, r
  <2>11. Sound(d, {next}) /\ next \in {next} /\ d.pcb[next].state # PS_FREE
         /\ r.stack = d.pcb[next].stack /\ r.state # PS_FREE
    BY <2>5, <2>6, <2>7, <2>9 DEF PS_FREE, PS_READY, PS_RUNNING
  <2> DEFINE d2 == [d EXCEPT !.pcb[next] = r]
  <2>12. Sound(d2, {next}) /\ d2.pcb = [d.pcb EXCEPT ![next] = r]
    BY <2>9, <2>11, SoundSet
  <2>13. k2 = [d2 EXCEPT !.current = next]
    BY <2>10
  <2>14. d \in KernelState /\ d2 \in KernelState
    BY <2>11, <2>12 DEF Sound
  <2>15. /\ d2.queue = d.queue /\ d2.next_pid = d.next_pid /\ d2.now = d.now
         /\ d2.returned = d.returned
    BY <2>14 DEF KernelState
  <2> HIDE DEF d2
  <2>16. /\ k2 \in KernelState /\ k2.current = next /\ k2.pcb = d2.pcb /\ k2.queue = d2.queue
         /\ k2.next_pid = d2.next_pid /\ k2.now = d2.now /\ k2.returned = d2.returned
         /\ k2.free_stacks = d2.free_stacks /\ k2.qnodes = d2.qnodes /\ k2.panic = d2.panic
    BY <2>5, <2>13, <2>14 DEF KernelState
  <2>17. Sound(k2, {next})
    BY <2>12, <2>16, SoundElse, Zenon
  <2>18. /\ k2.pcb = [k.pcb EXCEPT ![next] = r] /\ k2.queue = [k.queue EXCEPT ![q] = Tail(@)]
         /\ k2.next_pid = k.next_pid /\ k2.now = k.now /\ k2.returned = k.returned
    BY <2>5, <2>6, <2>12, <2>15, <2>16 DEF ButQueues
  <2>19. Dispatched(k, k2)
    BY <2>3, <2>5, <2>7, <2>9, <2>16, <2>17, <2>18 DEF Dispatched, next, r
  <2> QED
    BY <2>19 DEF k2
<1> QED
  BY <1>2, <1>3

-----------------------------------------------------------------------------
(* Birth and death.                                                        *)

(* A free PCB in hand becomes a process, with the first free stack.        *)
LEMMA BirthSound ==
  ASSUME NEW k, NEW out, Sound(k, out), NEW p \in out, k.pcb[p].state = PS_FREE,
         k.free_stacks # << >>, NEW k2 \in KernelState, NEW r \in PcbRecord,
         r.state # PS_FREE, r.stack = Head(k.free_stacks),
         k2.pcb = [k.pcb EXCEPT ![p] = r], k2.queue = k.queue, k2.panic = k.panic,
         k2.free_stacks = Tail(k.free_stacks), k2.qnodes = k.qnodes + 1
  PROVE  Sound(k2, out)
<1> DEFINE st == Head(k.free_stacks)
<1>1. k \in KernelState /\ p \in Pcb /\ out \in SUBSET Pcb
  BY DEF Sound
<1>2. k2.pcb[p] = r /\ \A c \in Pcb : c # p => k2.pcb[c] = k.pcb[c]
  BY <1>1, KernelFields
<1>3. \A c \in Pcb \ out : k2.pcb[c] = k.pcb[c]
  BY <1>2
<1>4. Placed(k2, out) /\ Sorted(k2)
  BY <1>1, <1>3, QueuesFrame, ZenonT(60) DEF Sound
<1>5. k.free_stacks \in Seq(Stack) /\ Lists(k.free_stacks, Stack \ Owned(k))
  BY <1>1, KernelFields DEF Sound, Stacked
<1>6. st \in Stack \ Owned(k) /\ Lists(Tail(k.free_stacks), (Stack \ Owned(k)) \ {st})
  BY <1>5, ListsTail
<1>7. Owners(k2) = Owners(k) \cup {p} /\ p \notin Owners(k)
  BY <1>1, <1>2 DEF Owners
<1>8. \A c \in Owners(k) : k2.pcb[c].stack = k.pcb[c].stack /\ k.pcb[c].stack \in Owned(k)
  BY <1>2, <1>7 DEF Owners, Owned
<1> HIDE DEF st
<1>9. r.stack = st
  BY DEF st
<1>10. Owned(k2) = Owned(k) \cup {st}
  BY <1>2, <1>7, <1>8, <1>9 DEF Owned
<1>11. Stacked(k2)
  <2>1. \A c \in Owners(k2) : k2.pcb[c].stack \in Stack
    BY <1>2, <1>6, <1>7, <1>8, <1>9 DEF Sound, Stacked
  <2>2. \A c, d \in Owners(k2) : k2.pcb[c].stack = k2.pcb[d].stack => c = d
    BY <1>2, <1>6, <1>7, <1>8, <1>9 DEF Sound, Stacked
  <2>3. Lists(k2.free_stacks, Stack \ Owned(k2))
    <3>1. Stack \ Owned(k2) = (Stack \ Owned(k)) \ {st}
      BY <1>10
    <3> QED
      BY <1>6, <3>1
  <2> QED
    BY <2>1, <2>2, <2>3 DEF Stacked
<1>12. Balanced(k2, out)
  <2>1. Len(Tail(k.free_stacks)) = Len(k.free_stacks) - 1 /\ Len(k.free_stacks) \in Int
    BY <1>5
  <2>2. Cardinality(Pcb \ out) \in Int /\ k.qnodes \in Int
    BY <1>1, PcbFinite, KernelFields
  <2> QED
    BY <2>1, <2>2 DEF Sound, Balanced
<1> QED
  BY <1>1, <1>4, <1>11, <1>12 DEF Sound, Halted

(* _pcb_cleanup frees a process in hand, and its stack.                    *)
LEMMA CleanupSound ==
  ASSUME NEW k, NEW out, Sound(k, out), NEW p \in out, k.pcb[p].state # PS_FREE
  PROVE  LET k2 == PcbCleanup(k, p) IN
         /\ Sound(k2, out \ {p}) /\ Steady(k, k2)
         /\ k2.pcb = [k.pcb EXCEPT ![p] = FreePcb]
<1> DEFINE st    == k.pcb[p].stack
           k1    == StkDealloc(k, st)
           freed == [k1 EXCEPT !.pcb[p] = FreePcb]
           k2    == PcbCleanup(k, p)
<1>1. k \in KernelState /\ p \in Pcb /\ out \in SUBSET Pcb
  BY DEF Sound
<1>2. p \in Owners(k) /\ st \in Stack /\ k.pcb[p] \in PcbRecord
  BY <1>1, KernelFields DEF Sound, Stacked, Owners
<1>3. k.qnodes >= 5 /\ k.qnodes \in Int
  BY <1>1, Room, KernelFields DEF Sound
<1>4. k1 = [k EXCEPT !.free_stacks = Append(k.free_stacks, st), !.qnodes = k.qnodes - 1]
  <2>1. st # NoStack
    BY <1>2 DEF Stack, NoStack
  <2> QED
    BY <1>3, <2>1 DEF StkDealloc
<1>5. k1 \in KernelState
  BY <1>2, <1>1, StkDeallocType
<1>6. k2 = PcbDealloc(k1, p)
  BY DEF PcbCleanup
<1>7. k.free_stacks \in Seq(Stack) /\ Lists(k.free_stacks, Stack \ Owned(k))
  BY <1>1, KernelFields DEF Sound, Stacked
<1> HIDE DEF k1, k2, st
<1>8. /\ k1.pcb = k.pcb /\ k1.queue = k.queue /\ k1.qnodes = k.qnodes - 1
      /\ k1.free_stacks = Append(k.free_stacks, st) /\ Steady(k, k1)
  BY <1>1, <1>4 DEF KernelState, Steady
<1>9. freed \in KernelState
  BY <1>1, <1>5, FreePcbType, SetPcb
<1>10. /\ freed.pcb = [k.pcb EXCEPT ![p] = FreePcb] /\ freed.queue = k.queue
       /\ freed.qnodes = k.qnodes - 1 /\ freed.free_stacks = Append(k.free_stacks, st)
       /\ Steady(k, freed)
  BY <1>5, <1>8 DEF KernelState, Steady
<1>11. k2 = EnqueOrPanic(freed, "free_pcbs", p, NoPanic)
  <2>1. k1.qnodes # 0 /\ freed.qnodes # 0
    BY <1>3, <1>8, <1>10
  <2> HIDE DEF freed
  <2> QED
    BY <1>6, <2>1 DEF PcbDealloc, EnqueOrPanic, freed
<1> HIDE DEF freed
<1>12. freed.pcb[p] = FreePcb /\ \A c \in Pcb : c # p => freed.pcb[c] = k.pcb[c]
  BY <1>1, <1>10, KernelFields
<1>13. Placed(freed, out) /\ Sorted(freed)
  <2>1. \A c \in Pcb \ out : freed.pcb[c] = k.pcb[c]
    BY <1>12
  <2> QED
    BY <1>1, <1>10, <2>1, QueuesFrame DEF Sound
<1>14. Stacked(freed)
  <2>1. freed.pcb[p].state = PS_FREE
    BY <1>12 DEF FreePcb
  <2>2. Owners(freed) = Owners(k) \ {p}
    BY <1>12, <2>1 DEF Owners
  <2>3. \A c \in Owners(k) \ {p} : freed.pcb[c].stack = k.pcb[c].stack
    BY <1>12 DEF Owners
  <2>4. \A c, d \in Owners(k) : k.pcb[c].stack = k.pcb[d].stack => c = d
    BY DEF Sound, Stacked
  <2>5. Owned(freed) = {k.pcb[c].stack : c \in Owners(k) \ {p}}
    BY <2>2, <2>3 DEF Owned
  <2>6. Owned(freed) = Owned(k) \ {st}
    BY <1>2, <2>4, <2>5 DEF Owned, st
  <2>7. st \in Owned(k)
    BY <1>2 DEF Owned, st
  <2>8. Stack \ Owned(freed) = (Stack \ Owned(k)) \cup {st} /\ st \notin Stack \ Owned(k)
    BY <1>2, <2>6, <2>7
  <2>9. Lists(freed.free_stacks, Stack \ Owned(freed))
    BY <1>2, <1>7, <1>10, <2>8, ListsAppend
  <2> QED
    BY <2>2, <2>3, <2>4, <2>9 DEF Sound, Stacked
<1>15. Balanced(freed, out)
  <2>1. Len(Append(k.free_stacks, st)) = Len(k.free_stacks) + 1 /\ Len(k.free_stacks) \in Int
    BY <1>2, <1>7
  <2>2. Cardinality(Pcb \ out) \in Int
    BY <1>1, PcbFinite
  <2>3. k.qnodes + Cardinality(Pcb \ out) + Len(k.free_stacks) = N_QNODES
    BY DEF Sound, Balanced
  <2> QED
    BY <1>3, <1>10, <2>1, <2>2, <2>3 DEF Balanced
<1>16. Sound(freed, out)
  BY <1>1, <1>9, <1>10, <1>13, <1>14, <1>15 DEF Sound, Halted, Steady
<1>17. freed.pcb[p].state # PS_RUNNING /\ QueueOf(freed, p) = "free_pcbs"
       /\ "free_pcbs" \in QueueId
  <2>1. freed.pcb[p].state = PS_FREE
    BY <1>12 DEF FreePcb
  <2> QED
    BY <1>1, <1>9, <2>1, QueueOfState DEF PS_FREE, PS_RUNNING, QueueId
<1>18. Sound(k2, out \ {p}) /\ ButQueues(freed, k2)
  <2>1. /\ Sound(EnqueOrPanic(freed, "free_pcbs", p, NoPanic), out \ {p})
        /\ ButQueues(freed, EnqueOrPanic(freed, "free_pcbs", p, NoPanic))
    BY <1>16, <1>17, EnqueOrPanicSound
  <2> QED
    BY <1>11, <2>1
<1>19. Steady(k, k2) /\ k2.pcb = [k.pcb EXCEPT ![p] = FreePcb]
  BY <1>10, <1>18 DEF Steady, ButQueues
<1> QED
  BY <1>18, <1>19 DEF k2

-----------------------------------------------------------------------------
(* The sleepers that are due.                                              *)

(* What Only takes from a list.                                            *)
LEMMA ListsOnly ==
  ASSUME NEW A, NEW s \in Seq(A), NEW S, Lists(s, S), NEW T
  PROVE  Only(s, T) \in Seq(A) /\ Lists(Only(s, T), S \cap T)
<1>1. PICK only :
        /\ Only(s, T) = only[Len(s)]
        /\ \A i \in 0 .. Len(s) :
             only[i] = IF i = 0 THEN << >>
                       ELSE IF s[i] \in T THEN Append(only[i - 1], s[i]) ELSE only[i - 1]
  BY OnlySteps
<1> DEFINE Taken(m) == {s[j] : j \in 1 .. m} \cap T
           Bad == {m \in 0 .. Len(s) : ~ (only[m] \in Seq(A) /\ Lists(only[m], Taken(m)))}
<1>2. Len(s) \in Nat /\ \A i \in 1 .. Len(s) : s[i] \in A
  OBVIOUS
<1>3. \A i, j \in 1 .. Len(s) : s[i] = s[j] => i = j
  BY ListsPlaces
<1>4. Bad = {}
  <2> SUFFICES ASSUME Bad # {} PROVE FALSE
    OBVIOUS
  <2>1. Bad \in SUBSET Nat
    BY <1>2
  <2>2. PICK m \in Bad : \A x \in Bad : m <= x
    BY <2>1, LeastNat
  <2>3. m # 0
    <3>1. only[0] = << >> /\ << >> \in Seq(A)
      BY <1>1, <1>2
    <3>2. Taken(0) = {}
      OBVIOUS
    <3>3. Lists(<< >>, {})
      BY DEF Lists, IsInjective, ToSet
    <3>4. 0 \notin Bad
      BY <3>1, <3>2, <3>3
    <3> QED
      BY <2>2, <3>4
  <2>4. m - 1 \in 0 .. Len(s) /\ m \in 1 .. Len(s) /\ m - 1 \notin Bad
    <3> HIDE DEF Bad
    <3>1. m \in 0 .. Len(s)
      BY <2>2 DEF Bad
    <3>2. m - 1 \in 0 .. Len(s) /\ m \in 1 .. Len(s)
      BY <3>1, <2>3, <1>2
    <3>3. m - 1 \notin Bad
      BY <3>2, <2>2
    <3> QED
      BY <3>2, <3>3
  <2>5. only[m - 1] \in Seq(A) /\ Lists(only[m - 1], Taken(m - 1))
    BY <2>4
  <2>6. only[m] = IF s[m] \in T THEN Append(only[m - 1], s[m]) ELSE only[m - 1]
    BY <1>1, <2>4
  <2>7. Taken(m) = IF s[m] \in T THEN Taken(m - 1) \cup {s[m]} ELSE Taken(m - 1)
    <3>1. 1 .. m = (1 .. m - 1) \cup {m}
      BY <2>4
    <3> QED
      BY <3>1
  <2>8. s[m] \notin Taken(m - 1) /\ s[m] \in A
    BY <1>2, <1>3, <2>4
  <2> HIDE DEF Taken
  <2>9. only[m] \in Seq(A) /\ Lists(only[m], Taken(m))
    <3>1. CASE s[m] \in T
      BY <3>1, <2>5, <2>6, <2>7, <2>8, ListsAppend
    <3>2. CASE s[m] \notin T
      BY <3>2, <2>5, <2>6, <2>7
    <3> QED
      BY <3>1, <3>2
  <2> QED
    BY <2>2, <2>9
<1>5. only[Len(s)] \in Seq(A) /\ Lists(only[Len(s)], Taken(Len(s)))
  <2> HIDE DEF Taken
  <2>1. Len(s) \in 0 .. Len(s)
    BY <1>2
  <2>2. Len(s) \notin Bad
    <3> HIDE DEF Bad
    <3> QED
      BY <1>4
  <2> QED
    BY <2>1, <2>2
<1>6. Taken(Len(s)) = S \cap T
  BY ListsPlaces
<1> QED
  BY <1>1, <1>5, <1>6

(* The sleepers from the head of the queue up to the first that is due     *)
(* later than now are the ones that are due.                               *)
LEMMA DueFirst ==
  ASSUME NEW k \in KernelState, Sorted(k)
  PROVE  LET s      == k.queue["sleeping"]
             asleep == {i \in 1 .. Len(s) : k.pcb[s[i]].wakeup > k.now}
             n      == IF asleep = {} THEN Len(s) ELSE Min(asleep) - 1
         IN /\ s \in Seq(Pcb) /\ n \in 0 .. Len(s)
            /\ \A i \in 1 .. Len(s) : i <= n <=> k.pcb[s[i]].wakeup <= k.now
<1> DEFINE s      == k.queue["sleeping"]
           W(i)   == k.pcb[s[i]].wakeup
           asleep == {i \in 1 .. Len(s) : W(i) > k.now}
           n      == IF asleep = {} THEN Len(s) ELSE Min(asleep) - 1
<1>1. s \in Seq(Pcb) /\ Len(s) \in Nat /\ \A i \in 1 .. Len(s) : s[i] \in Pcb
  BY KernelFields DEF QueueId
<1>2. k.now \in Int /\ \A i \in 1 .. Len(s) : W(i) \in Int
  BY <1>1, KernelFields, PcbFields
<1>3. \A i, j \in 1 .. Len(s) : i < j => W(i) <= W(j)
  BY DEF Sorted
<1> HIDE DEF s, W
<1>4. CASE asleep = {}
  BY <1>1, <1>2, <1>4 DEF s, W
<1>5. CASE asleep # {}
  <2> DEFINE m == Min(asleep)
  <2>1. asleep \in SUBSET Nat
    BY <1>1
  <2>2. m \in asleep /\ \A i \in asleep : m <= i
    BY <1>5, <2>1, MinNat
  <2>3. n = m - 1
    BY <1>5
  <2> HIDE DEF m, n
  <2>4. m \in 1 .. Len(s) /\ W(m) > k.now
    BY <2>2
  <2>5. n \in 0 .. Len(s)
    BY <1>1, <2>3, <2>4
  <2>6. ASSUME NEW i \in 1 .. Len(s)
        PROVE  i <= n <=> W(i) <= k.now
    <3>1. CASE i <= n
      <4>1. i \notin asleep
        BY <1>1, <2>2, <2>3, <2>4, <3>1
      <4> QED
        BY <1>2, <3>1, <4>1
    <3>2. CASE ~ (i <= n)
      <4>1. m = i \/ m < i
        BY <1>1, <2>3, <2>4, <3>2
      <4>2. W(m) <= W(i)
        BY <1>2, <1>3, <2>4, <4>1
      <4> QED
        BY <1>2, <2>4, <3>2, <4>2
    <3> QED
      BY <3>1, <3>2
  <2> QED
    BY <1>1, <2>5, <2>6 DEF s, W, n
<1> QED
  BY <1>4, <1>5

(* The loop of _clk_isr makes every sleeper ready that is due, and leaves  *)
(* the others where they are.                                              *)
Woken(k, k2, out, due) ==
  /\ due = {p \in Pcb \ out : k.pcb[p].state = PS_SLEEPING /\ k.pcb[p].wakeup <= k.now}
  /\ k2.pcb = [p \in Pcb |->
                 IF p \in due
                 THEN [k.pcb[p] EXCEPT !.state = PS_READY, !.wakeup = 0,
                                       !.prio = LegalPrio(k.pcb[p].prio)]
                 ELSE k.pcb[p]]

LEMMA WakeSleepersSound ==
  ASSUME NEW k, NEW out, Sound(k, out)
  PROVE  LET k2 == WakeSleepers(k) IN
         Sound(k2, out) /\ Steady(k, k2) /\ \E due : Woken(k, k2, out, due)
<1> DEFINE s      == k.queue["sleeping"]
           asleep == {i \in 1 .. Len(s) : k.pcb[s[i]].wakeup > k.now}
           n      == IF asleep = {} THEN Len(s) ELSE Min(asleep) - 1
           due    == {s[i] : i \in 1 .. n}
           OfPrio(prio) == {p \in due : LegalPrio(k.pcb[p].prio) = prio}
           woken(prio)  == Only(SubSeq(s, 1, n), OfPrio(prio))
           rest   == SubSeq(s, n + 1, Len(s))
           awake(p) == [k.pcb[p] EXCEPT !.state = PS_READY, !.wakeup = 0,
                                        !.prio = LegalPrio(k.pcb[p].prio)]
           pcbs == [p \in Pcb |-> IF p \in due THEN awake(p) ELSE k.pcb[p]]
           queues == [q \in QueueId |->
                        CASE q = "sleeping" -> rest
                          [] q = "ready[0]" -> k.queue[q] \o woken(P_SYSTEM)
                          [] q = "ready[1]" -> k.queue[q] \o woken(P_HIGH)
                          [] q = "ready[2]" -> k.queue[q] \o woken(P_LOW)
                          [] q = "ready[3]" -> k.queue[q] \o woken(P_MIN)
                          [] OTHER          -> k.queue[q]]
           k2   == WakeSleepers(k)
           At(q) == QueuedAt(k, out, q)
<1>1. k \in KernelState /\ out \in SUBSET Pcb /\ Sorted(k)
  BY DEF Sound
<1>2. k2 \in KernelState
  BY <1>1, WakeSleepersType
<1>3. k2 = [k EXCEPT !.pcb = pcbs, !.queue = queues]
  BY DEF WakeSleepers
<1>4. /\ s \in Seq(Pcb) /\ n \in 0 .. Len(s)
      /\ \A i \in 1 .. Len(s) : i <= n <=> k.pcb[s[i]].wakeup <= k.now
  BY <1>1, DueFirst
<1>5. "sleeping" \in QueueId /\ Lists(s, At("sleeping"))
      /\ \A q \in QueueId : k.queue[q] \in Seq(Pcb) /\ Lists(k.queue[q], At(q))
  BY <1>1, KernelFields DEF Sound, Placed, QueueId
<1> HIDE DEF k2, pcbs, queues, n, At
<1>6. /\ due \subseteq At("sleeping")
      /\ SubSeq(s, 1, n) \in Seq(Pcb) /\ Lists(SubSeq(s, 1, n), due)
      /\ rest \in Seq(Pcb) /\ Lists(rest, At("sleeping") \ due)
  <2>1. s \in Seq(Pcb) /\ n \in 0 .. Len(s) /\ Lists(s, At("sleeping"))
    BY <1>4, <1>5
  <2> HIDE DEF s
  <2> QED
    BY <2>1, ListsSplit
<1>7. due = {p \in Pcb \ out : k.pcb[p].state = PS_SLEEPING /\ k.pcb[p].wakeup <= k.now}
  <2>1. \A p : p \in At("sleeping") <=> p \in Pcb \ out /\ k.pcb[p].state = PS_SLEEPING
    BY <1>1, QueueOfState DEF At, QueuedAt
  <2>2. \A p \in At("sleeping") : \E i \in 1 .. Len(s) : s[i] = p
    BY <1>4, <1>5, ListsPlaces
  <2>3. \A i \in 1 .. Len(s) : s[i] \in At("sleeping")
    BY <1>4, <1>5, ListsPlaces
  <2>4. \A i : i \in 1 .. n <=> i \in 1 .. Len(s) /\ i <= n
    BY <1>4
  <2>5. \A p : p \in due <=> p \in At("sleeping") /\ k.pcb[p].wakeup <= k.now
    BY <1>4, <2>2, <2>3, <2>4
  <2> HIDE DEF due
  <2> QED
    BY <2>1, <2>5
<1>8. /\ k2.pcb = pcbs /\ k2.queue = queues /\ k2.qnodes = k.qnodes
      /\ k2.free_stacks = k.free_stacks /\ Steady(k, k2)
  BY <1>1, <1>3 DEF KernelState, Steady
<1>9. Woken(k, k2, out, due)
  BY <1>7, <1>8 DEF Woken, pcbs
<1>10. due \in SUBSET Pcb /\ due \cap out = {}
  BY <1>7
<1> HIDE DEF s, due, awake
<1>11. \A p \in Pcb : k2.pcb[p] = IF p \in due THEN awake(p) ELSE k.pcb[p]
  BY <1>8 DEF pcbs
<1>12. ASSUME NEW p \in Pcb
       PROVE  /\ awake(p).state = PS_READY /\ awake(p).prio = LegalPrio(k.pcb[p].prio)
              /\ awake(p).stack = k.pcb[p].stack
  <2>1. k.pcb[p] \in PcbRecord
    BY <1>1, KernelFields
  <2> QED
    BY <2>1 DEF PcbRecord, awake
<1>13. \A p \in due : QueueOf(k2, p) = Ready(LegalPrio(k.pcb[p].prio))
  <2> SUFFICES ASSUME NEW p \in due PROVE QueueOf(k2, p) = Ready(LegalPrio(k.pcb[p].prio))
    OBVIOUS
  <2>1. k2.pcb[p].state = PS_READY /\ k2.pcb[p].prio = LegalPrio(k.pcb[p].prio) /\ p \in Pcb
    BY <1>10, <1>11, <1>12
  <2> QED
    BY <1>2, <2>1, QueueOfState
<1>14. \A p \in Pcb \ due : QueueOf(k2, p) = QueueOf(k, p)
  BY <1>11, QueueOfSame
<1>15. \A p \in due : QueueOf(k, p) = "sleeping"
  BY <1>6 DEF At, QueuedAt
<1>16. \A p \in Pcb : LegalPrio(k.pcb[p].prio) \in {0, 1, 2, 3}
  BY DEF LegalPrio, Prio, P_SYSTEM, P_LOW, P_MIN
<1>17. /\ Ready(0) = "ready[0]" /\ Ready(1) = "ready[1]"
       /\ Ready(2) = "ready[2]" /\ Ready(3) = "ready[3]"
  BY DEF Ready, P_SYSTEM, P_HIGH, P_LOW
<1>18. /\ QueuedAt(k2, out, "sleeping") = At("sleeping") \ due
       /\ QueuedAt(k2, out, "ready[0]") = At("ready[0]") \cup OfPrio(0)
       /\ QueuedAt(k2, out, "ready[1]") = At("ready[1]") \cup OfPrio(1)
       /\ QueuedAt(k2, out, "ready[2]") = At("ready[2]") \cup OfPrio(2)
       /\ QueuedAt(k2, out, "ready[3]") = At("ready[3]") \cup OfPrio(3)
  BY <1>10, <1>13, <1>14, <1>15, <1>16, <1>17 DEF At, QueuedAt
<1>19. \A q \in QueueId \ (ReadyId \cup {"sleeping"}) : QueuedAt(k2, out, q) = At(q)
  BY <1>10, <1>13, <1>14, <1>15, <1>16, <1>17 DEF At, QueuedAt, ReadyId
<1>20. /\ k2.queue["sleeping"] = rest
       /\ k2.queue["ready[0]"] = k.queue["ready[0]"] \o woken(0)
       /\ k2.queue["ready[1]"] = k.queue["ready[1]"] \o woken(1)
       /\ k2.queue["ready[2]"] = k.queue["ready[2]"] \o woken(2)
       /\ k2.queue["ready[3]"] = k.queue["ready[3]"] \o woken(3)
       /\ \A q \in QueueId \ (ReadyId \cup {"sleeping"}) : k2.queue[q] = k.queue[q]
  <2> HIDE DEF rest, woken
  <2> QED
    BY <1>8 DEF queues, QueueId, ReadyId, P_SYSTEM, P_HIGH, P_LOW, P_MIN
<1>21. ASSUME NEW q \in ReadyId, NEW prio
       PROVE  Lists(k.queue[q] \o woken(prio), At(q) \cup OfPrio(prio))
  <2>1. woken(prio) \in Seq(Pcb) /\ Lists(woken(prio), due \cap OfPrio(prio))
    BY <1>6, ListsOnly
  <2>2. due \cap OfPrio(prio) = OfPrio(prio)
    OBVIOUS
  <2>3. At(q) \cap OfPrio(prio) = {}
    BY <1>15 DEF At, QueuedAt, ReadyId
  <2>4. q \in QueueId /\ k.queue[q] \in Seq(Pcb) /\ Lists(k.queue[q], At(q))
    BY <1>5 DEF QueueId
  <2> HIDE DEF woken, OfPrio
  <2> QED
    BY <2>1, <2>2, <2>3, <2>4, ListsConcat
<1>22. Placed(k2, out)
  <2>1. ASSUME NEW q \in QueueId
        PROVE  Lists(k2.queue[q], QueuedAt(k2, out, q))
    <3>1. CASE q \in ReadyId
      <4> HIDE DEF woken, OfPrio
      <4> DEFINE Joined(c, prio) == Lists(k.queue[c] \o woken(prio), At(c) \cup OfPrio(prio))
      <4>1. /\ Joined("ready[0]", 0) /\ Joined("ready[1]", 1)
            /\ Joined("ready[2]", 2) /\ Joined("ready[3]", 3)
        BY <1>21 DEF ReadyId
      <4>2. CASE q = "ready[0]"
        BY <4>1, <4>2, <1>18, <1>20
      <4>3. CASE q = "ready[1]"
        BY <4>1, <4>3, <1>18, <1>20
      <4>4. CASE q = "ready[2]"
        BY <4>1, <4>4, <1>18, <1>20
      <4>5. CASE q = "ready[3]"
        BY <4>1, <4>5, <1>18, <1>20
      <4> QED
        BY <3>1, <4>2, <4>3, <4>4, <4>5 DEF ReadyId
    <3>2. CASE q = "sleeping"
      BY <3>2, <1>6, <1>18, <1>20
    <3>3. CASE q \in QueueId \ (ReadyId \cup {"sleeping"})
      BY <3>3, <1>5, <1>19, <1>20
    <3> QED
      BY <3>1, <3>2, <3>3
  <2>2. \A p \in Pcb \ out : k2.pcb[p].state # PS_RUNNING
    BY <1>11, <1>12 DEF Sound, Placed, PS_READY, PS_RUNNING
  <2> QED
    BY <2>1, <2>2 DEF Placed
<1>23. Stacked(k2)
  <2>1. \A p \in due : k.pcb[p].state = PS_SLEEPING
    BY <1>7
  <2>2. Owners(k2) = Owners(k)
    BY <1>11, <1>12, <2>1 DEF Owners, PS_SLEEPING, PS_READY, PS_FREE
  <2>3. \A p \in Pcb : k2.pcb[p].stack = k.pcb[p].stack
    BY <1>11, <1>12
  <2>4. Owned(k2) = Owned(k)
    BY <2>2, <2>3 DEF Owned, Owners
  <2> QED
    BY <1>8, <2>2, <2>3, <2>4 DEF Sound, Stacked, Owners
<1>24. Sorted(k2)
  <2>1. /\ Len(rest) = Len(s) - n /\ Len(s) \in Nat /\ n \in Nat
        /\ \A i \in 1 .. Len(rest) : rest[i] = s[i + n]
    BY <1>4
  <2>2. \A i, j \in 1 .. Len(s) : i < j => k.pcb[s[i]].wakeup <= k.pcb[s[j]].wakeup
    BY <1>1 DEF Sorted, s
  <2>3. \A i \in 1 .. Len(rest) : rest[i] \in At("sleeping") \ due
    BY <1>6, ListsPlaces
  <2>4. \A i \in 1 .. Len(rest) : k2.pcb[rest[i]] = k.pcb[rest[i]]
    BY <1>11, <2>3 DEF At, QueuedAt
  <2> HIDE DEF rest
  <2>5. ASSUME NEW i \in 1 .. Len(rest), NEW j \in 1 .. Len(rest), i < j
        PROVE  k2.pcb[rest[i]].wakeup <= k2.pcb[rest[j]].wakeup
    <3>1. /\ i + n \in 1 .. Len(s) /\ j + n \in 1 .. Len(s) /\ i + n < j + n
          /\ rest[i] = s[i + n] /\ rest[j] = s[j + n]
      BY <2>1, <2>5
    <3>2. k.pcb[rest[i]].wakeup <= k.pcb[rest[j]].wakeup
      BY <2>2, <3>1
    <3> QED
      BY <2>4, <3>2
  <2> QED
    BY <1>20, <2>5 DEF Sorted
<1>25. Balanced(k2, out)
  BY <1>8 DEF Sound, Balanced
<1>26. Sound(k2, out)
  BY <1>1, <1>2, <1>8, <1>22, <1>23, <1>24, <1>25 DEF Sound, Halted, Steady
<1> QED
  BY <1>8, <1>9, <1>26 DEF k2

(* _pcb_dealloc of a PCB that _pcb_alloc has just returned puts it back    *)
(* (_sys_fork without a stack for the child).                              *)
LEMMA UnallocSound ==
  ASSUME NEW k, NEW out, Sound(k, out), k.queue["free_pcbs"] # << >>
  PROVE  LET p  == Head(k.queue["free_pcbs"])
             k2 == PcbDealloc(PcbAlloc(k), p)
         IN /\ Sound(k2, out) /\ Steady(k, k2) /\ k2.pcb = [k.pcb EXCEPT ![p] = FreePcb]
            /\ p \in Pcb \ out /\ k.pcb[p].state = PS_FREE
<1> DEFINE p  == Head(k.queue["free_pcbs"])
           d  == Deque(k, "free_pcbs")
           a  == PcbAlloc(k)
           freed == [a EXCEPT !.pcb[p] = FreePcb]
           k2 == PcbDealloc(a, p)
           in == out \cup {p}
<1>1. "free_pcbs" \in QueueId
  BY DEF QueueId
<1>2. /\ Sound(d, in) /\ ButQueues(k, d)
      /\ p \in Pcb \ out /\ QueueOf(k, p) = "free_pcbs"
  BY <1>1, DequeSound
<1>3. k \in KernelState /\ out \in SUBSET Pcb /\ d \in KernelState
  BY <1>2 DEF Sound
<1>4. k.pcb[p].state = PS_FREE
  BY <1>2, <1>3, QueueOfState
<1>5. a = [d EXCEPT !.pcb[p] = [d.pcb[p] EXCEPT !.state = PS_NEW]] /\ a \in KernelState
  BY <1>3, PcbAllocType DEF PcbAlloc
<1>6. k2 = EnqueOrPanic(freed, "free_pcbs", p, NoPanic) \/ freed.qnodes = 0
  <2>1. freed.qnodes = a.qnodes
    BY <1>5 DEF KernelState
  <2> HIDE DEF freed, a
  <2> QED
    BY <2>1 DEF PcbDealloc, EnqueOrPanic, freed
<1> HIDE DEF p, d, a, k2, in
<1>7. freed \in KernelState
  BY <1>2, <1>5, FreePcbType, SetPcb
<1>8. /\ freed.pcb = [d.pcb EXCEPT ![p] = FreePcb] /\ freed.queue = d.queue
      /\ freed.free_stacks = d.free_stacks /\ freed.qnodes = d.qnodes
      /\ freed.panic = d.panic /\ Steady(d, freed)
  BY <1>3, <1>5 DEF KernelState, Steady
<1>9. d.pcb = k.pcb /\ Steady(k, d)
  BY <1>2 DEF ButQueues, Steady
<1> HIDE DEF freed
<1>10. freed.pcb[p] = FreePcb /\ \A c \in Pcb : c # p => freed.pcb[c] = d.pcb[c]
  BY <1>2, <1>3, <1>8, KernelFields
<1>11. Sound(freed, in)
  <2>1. freed.pcb[p].state = PS_FREE /\ d.pcb[p].state = PS_FREE
    BY <1>4, <1>9, <1>10 DEF FreePcb
  <2>2. \A c \in Pcb : /\ freed.pcb[c].state = PS_FREE <=> d.pcb[c].state = PS_FREE
                       /\ d.pcb[c].state # PS_FREE => freed.pcb[c].stack = d.pcb[c].stack
    BY <1>10, <2>1
  <2>3. \A c \in Pcb \ in : /\ freed.pcb[c].state = d.pcb[c].state
                            /\ freed.pcb[c].prio = d.pcb[c].prio
                            /\ freed.pcb[c].wakeup = d.pcb[c].wakeup
    BY <1>10 DEF in
  <2>4. /\ Sound(d, in) /\ freed.queue = d.queue /\ freed.free_stacks = d.free_stacks
        /\ freed.qnodes = d.qnodes /\ freed.panic = d.panic
    BY <1>2, <1>8
  <2> QED
    BY <1>7, <2>2, <2>3, <2>4, SoundFrame
<1>12. freed.qnodes # 0
  <2>1. freed \in KernelState /\ in \in SUBSET Pcb /\ Stacked(freed) /\ Balanced(freed, in)
    BY <1>11 DEF Sound
  <2>2. freed.qnodes >= 5 /\ freed.qnodes \in Int
    BY <2>1, Room, KernelFields
  <2> QED
    BY <2>2
<1>13. freed.pcb[p].state # PS_RUNNING /\ QueueOf(freed, p) = "free_pcbs" /\ p \in in
  <2>1. freed.pcb[p].state = PS_FREE
    BY <1>10 DEF FreePcb
  <2> QED
    BY <1>2, <1>7, <2>1, QueueOfState DEF PS_FREE, PS_RUNNING, in
<1>14. Sound(k2, in \ {p}) /\ ButQueues(freed, k2)
  <2>1. /\ Sound(EnqueOrPanic(freed, "free_pcbs", p, NoPanic), in \ {p})
        /\ ButQueues(freed, EnqueOrPanic(freed, "free_pcbs", p, NoPanic))
    BY <1>1, <1>11, <1>13, EnqueOrPanicSound
  <2> QED
    BY <1>6, <1>12, <2>1
<1>15. in \ {p} = out
  BY <1>2 DEF in
<1>16. Steady(k, k2) /\ k2.pcb = [k.pcb EXCEPT ![p] = FreePcb]
  BY <1>8, <1>9, <1>14 DEF Steady, ButQueues
<1> QED
  BY <1>2, <1>4, <1>14, <1>15, <1>16 DEF k2, p, a

-----------------------------------------------------------------------------
(* Every qnode is accounted for, whoever is in hand.                       *)
LEMMA Counted ==
  ASSUME NEW k, NEW out, Sound(k, out)
  PROVE  /\ k.qnodes >= 5
         /\ k.qnodes + (Len(k.queue["free_pcbs"]) + Len(k.queue["sleeping"])
              + Len(k.queue["waiting"]) + Len(k.queue["reading"]) + Len(k.queue["zombie"])
              + Len(k.queue["ready[0]"]) + Len(k.queue["ready[1]"])
              + Len(k.queue["ready[2]"]) + Len(k.queue["ready[3]"]))
            + Len(k.free_stacks) = N_QNODES
<1>1. k \in KernelState /\ out \in SUBSET Pcb /\ Placed(k, out) /\ Stacked(k)
      /\ Balanced(k, out)
  BY DEF Sound
<1>2. k.qnodes >= 5
  BY <1>1, Room
<1> QED
  BY <1>1, <1>2, QueuedCount DEF Balanced
=============================================================================
