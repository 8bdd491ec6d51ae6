-------------------------- MODULE KernelSafetyProofs --------------------------
(***************************************************************************)
(* What the kernel keeps in order between any two of its steps, for every  *)
(* value of the constants: where each PCB and each stack is, who is whose  *)
(* parent, and that it gives up for two reasons only.                      *)
(*                                                                         *)
(* The inductive invariant is Kept: the kernel is at rest, or it has given *)
(* up.  At rest the queues and pools are in order but for the running      *)
(* process (Sound, of KernelProofs), which is RUNNING, and the table is a  *)
(* family tree (Tree).                                                     *)
(***************************************************************************)
EXTENDS KernelProofs

-----------------------------------------------------------------------------
(* The process tree, of a PCB table t, where n is the next PID and D are   *)
(* the dead whose parent has not been told yet.                            *)

Used(t, p)  == t[p].state # PS_FREE
Alive(t, p) == t[p].state \notin {PS_FREE, PS_KILLED, PS_ZOMBIE}
Kids(t, p)  == {c \in Pcb \ {InitPcb} : t[c].ppid = t[p].pid}

Rooted(t) ==
  Used(t, InitPcb) /\ t[InitPcb].pid = PID_INIT /\ t[InitPcb].ppid = PID_INIT

Numbered(t, n) ==
  /\ n \in PID_FIRST_USER .. PID_LIMIT
  /\ \A p \in Pcb : ~ Used(t, p) => t[p].pid = PID_NONE /\ t[p].ppid = PID_NONE
  /\ \A p \in Pcb \ {InitPcb} :
       Used(t, p) => t[p].pid \in PID_FIRST_USER .. n - 1 /\ t[p].ppid < t[p].pid
  /\ \A p, c \in Pcb : Used(t, p) /\ Used(t, c) /\ t[p].pid = t[c].pid => p = c

Parented(t) ==
  \A p \in Pcb : Used(t, p) =>
    \E parent \in Pcb : /\ t[parent].pid = t[p].ppid
                        /\ parent = InitPcb \/ Alive(t, parent)

KidsCounted(t) == \A p \in Pcb : Alive(t, p) => t[p].children >= Cardinality(Kids(t, p))

NoneExited(t, p, D) ==
  \A c \in Pcb \ D : t[c].ppid = t[p].pid => t[c].state # PS_ZOMBIE

Noticed(t, D) ==
  \A p \in Pcb \ {InitPcb} : t[p].state = PS_WAITING => NoneExited(t, p, D)

Tree(t, n, D) ==
  /\ t \in [Pcb -> PcbRecord]
  /\ Rooted(t) /\ Numbered(t, n) /\ Parented(t) /\ KidsCounted(t) /\ Noticed(t, D)

-----------------------------------------------------------------------------
(* The inductive invariant.                                                *)

AtRest(k) ==
  /\ Sound(k, {k.current}) /\ k.pcb[k.current].state = PS_RUNNING
  /\ Tree(k.pcb, k.next_pid, {})

(* Every qnode is accounted for: QnodeBalance, of a kernel state.          *)
Counts(k) ==
  /\ k.qnodes >= 0
  /\ k.qnodes + (Len(k.queue["free_pcbs"]) + Len(k.queue["sleeping"])
       + Len(k.queue["waiting"]) + Len(k.queue["reading"]) + Len(k.queue["zombie"])
       + Len(k.queue["ready[0]"]) + Len(k.queue["ready[1]"])
       + Len(k.queue["ready[2]"]) + Len(k.queue["ready[3]"]))
     + Len(k.free_stacks) = N_QNODES

GaveUp(k) ==
  /\ k \in KernelState /\ Counts(k)
  /\ k.panic \in {"_dispatch: no ready processes", "_sys_kill: bad victim state"}

Kept == AtRest(K) \/ GaveUp(K)

(* What the kernel state k, in which a handler ends, tells of the processes*)
(* that it has made disappear: of nobody, as nobody has; or of the one PCB *)
(* that was freed, to its parent.                                          *)
Reports(k) ==
  \/ /\ \A w \in Pcb : Len(k.returned[w]) # 3
     /\ \A p \in Pcb : Used(pcb, p) => Used(k.pcb, p)
  \/ \E p, w \in Pcb :
       /\ Used(pcb, p) /\ pcb[w].pid = pcb[p].ppid
       /\ \E status \in FinalStatus(p) :
            k.returned[w] = <<E_SUCCESS, pcb[p].pid, status>>
       /\ \A c \in Pcb \ {w} : Len(k.returned[c]) # 3
       /\ ~ Used(k.pcb, p) /\ \A c \in Pcb \ {p} : Used(pcb, c) => Used(k.pcb, c)

Ended(k) == (AtRest(k) \/ GaveUp(k)) /\ Reports(k)

(* The time has not advanced to k and nobody's sleep has ended.            *)
Quiet(k) ==
  k.now = now /\ \A c \in Pcb : pcb[c].state = PS_SLEEPING => k.pcb[c].state # PS_READY

(* A step of a handler other than the clock's.                             *)
Ends == \E k \in KernelState : Becomes(k) /\ Ended(k) /\ Quiet(k)

-----------------------------------------------------------------------------
(* The tree under the updates that the handlers make.                      *)

(* The numbers of the constants that the lemmas compare.                   *)
LEMMA Numbers ==
  /\ InitPcb \in Pcb /\ PID_INIT = 1 /\ PID_NONE = 65535
  /\ PID_FIRST_USER \in Nat /\ PID_INIT < PID_FIRST_USER
  /\ PID_LIMIT \in Nat /\ PID_FIRST_USER <= PID_LIMIT /\ PID_LIMIT < PID_NONE
BY KernelConstants DEF InitPcb, Pcb, N_PCBS, PID_INIT, PID_NONE

(* The children of a PCB are a finite set.                                 *)
LEMMA KidsFinite ==
  ASSUME NEW t, NEW p
  PROVE  /\ Kids(t, p) \in SUBSET Pcb /\ IsFiniteSet(Kids(t, p))
         /\ Cardinality(Kids(t, p)) \in Nat
BY PcbFinite, FS_CardinalityType DEF Kids

(* A part of the children is no more than the children.                    *)
LEMMA FewerKids ==
  ASSUME NEW t, NEW p, NEW t2, NEW p2, Kids(t2, p2) \subseteq Kids(t, p)
  PROVE  Cardinality(Kids(t2, p2)) <= Cardinality(Kids(t, p))
BY KidsFinite, FS_Subset

(* A table in which the same PCBs are free and the same alive, under the   *)
(* same PIDs and parents, with as many children counted, is a tree: nobody *)
(* may begin to wait whose child has exited, and nobody has exited of whom *)
(* the parent has not been told.                                           *)
LEMMA TreeSame ==
  ASSUME NEW t, NEW n, NEW D, Tree(t, n, D), NEW t2 \in [Pcb -> PcbRecord], NEW D2,
         \A p \in Pcb : /\ t2[p].pid = t[p].pid /\ t2[p].ppid = t[p].ppid
                        /\ Used(t2, p) <=> Used(t, p)
                        /\ Alive(t2, p) <=> Alive(t, p)
                        /\ Alive(t, p) => t2[p].children >= t[p].children,
         \A p \in Pcb : t2[p].state = PS_WAITING =>
                          t[p].state = PS_WAITING \/ NoneExited(t, p, D),
         \A c \in Pcb \ D2 : t2[c].state = PS_ZOMBIE => t[c].state = PS_ZOMBIE /\ c \notin D
  PROVE  Tree(t2, n, D2)
<1>1. InitPcb \in Pcb
  BY Numbers
<1>2. Rooted(t2)
  BY <1>1 DEF Tree, Rooted
<1>3. Numbered(t2, n)
  BY DEF Tree, Numbered
<1>4. Parented(t2)
  BY <1>1 DEF Tree, Parented
<1>5. KidsCounted(t2)
  <2> SUFFICES ASSUME NEW p \in Pcb, Alive(t2, p)
               PROVE  t2[p].children >= Cardinality(Kids(t2, p))
    BY DEF KidsCounted
  <2>1. Kids(t2, p) = Kids(t, p)
    BY DEF Kids
  <2>2. t[p].children >= Cardinality(Kids(t, p))
    BY DEF Tree, KidsCounted
  <2>3. t[p].children \in Int /\ t2[p].children \in Int /\ Cardinality(Kids(t, p)) \in Int
    <3>1. t[p] \in PcbRecord /\ t2[p] \in PcbRecord
      BY DEF Tree
    <3> QED
      BY <3>1, PcbFields, KidsFinite
  <2>4. t2[p].children >= t[p].children
    OBVIOUS
  <2> QED
    BY <2>1, <2>2, <2>3, <2>4
<1>6. Noticed(t2, D2)
  <2> SUFFICES ASSUME NEW p \in Pcb \ {InitPcb}, t2[p].state = PS_WAITING,
                      NEW c \in Pcb \ D2, t2[c].ppid = t2[p].pid, t2[c].state = PS_ZOMBIE
               PROVE  FALSE
    BY DEF Noticed, NoneExited
  <2>1. NoneExited(t, p, D)
    BY DEF Tree, Noticed
  <2>2. c \in Pcb \ D /\ t[c].ppid = t[p].pid /\ t[c].state = PS_ZOMBIE
    OBVIOUS
  <2> QED
    BY <2>1, <2>2 DEF NoneExited
<1> QED
  BY <1>2, <1>3, <1>4, <1>5, <1>6 DEF Tree

(* One live PCB given another state of a live process, or other fields     *)
(* than its PID, its parent and its count of children.                     *)
LEMMA TreeSet ==
  ASSUME NEW t, NEW n, NEW D, Tree(t, n, D), NEW p \in Pcb, Alive(t, p), NEW r \in PcbRecord,
         r.pid = t[p].pid, r.ppid = t[p].ppid, r.children >= t[p].children,
         r.state \notin {PS_FREE, PS_KILLED, PS_ZOMBIE},
         r.state = PS_WAITING => NoneExited(t, p, D)
  PROVE  Tree([t EXCEPT ![p] = r], n, D) /\ Alive([t EXCEPT ![p] = r], p)
<1> DEFINE t2 == [t EXCEPT ![p] = r]
<1>1. t \in [Pcb -> PcbRecord]
  BY DEF Tree
<1>2. t2 \in [Pcb -> PcbRecord] /\ t2[p] = r /\ \A c \in Pcb : c # p => t2[c] = t[c]
  BY <1>1
<1> HIDE DEF t2
<1>3. ASSUME NEW c \in Pcb
      PROVE  /\ t2[c].pid = t[c].pid /\ t2[c].ppid = t[c].ppid
             /\ Used(t2, c) <=> Used(t, c)
             /\ Alive(t2, c) <=> Alive(t, c)
             /\ t2[c].children >= t[c].children
  <2>1. CASE c = p
    BY <2>1, <1>2 DEF Used, Alive
  <2>2. CASE c # p
    <3>1. t2[c] = t[c] /\ t[c].children \in Nat
      BY <2>2, <1>1, <1>2, PcbFields
    <3> QED
      BY <3>1 DEF Used, Alive
  <2> QED
    BY <2>1, <2>2
<1>4. \A c \in Pcb : t2[c].state = PS_WAITING =>
                       t[c].state = PS_WAITING \/ NoneExited(t, c, D)
  BY <1>2
<1>5. \A c \in Pcb \ D : t2[c].state = PS_ZOMBIE => t[c].state = PS_ZOMBIE /\ c \notin D
  BY <1>2
<1>6. Tree(t2, n, D)
  BY <1>2, <1>3, <1>4, <1>5, TreeSame
<1>7. Alive(t2, p)
  BY <1>2 DEF Alive
<1> QED
  BY <1>6, <1>7 DEF t2

(* The parent that a process names is the only PCB of that PID, so it is   *)
(* the one that _pcb_find returns.                                         *)
LEMMA FindsParent ==
  ASSUME NEW k, NEW n, NEW D, Tree(k.pcb, n, D), NEW p \in Pcb, Used(k.pcb, p)
  PROVE  LET parent == PcbFind(k, k.pcb[p].ppid) IN
         /\ parent \in Pcb /\ parent # NoPcb /\ k.pcb[parent].pid = k.pcb[p].ppid
         /\ parent = InitPcb \/ Alive(k.pcb, parent)
         /\ \A c \in Pcb : k.pcb[c].pid = k.pcb[p].ppid => c = parent
<1> DEFINE t    == k.pcb
           hits == {c \in Pcb : k.pcb[c].pid = k.pcb[p].ppid}
<1>1. PICK q \in Pcb : t[q].pid = t[p].ppid /\ (q = InitPcb \/ Alive(t, q))
  BY DEF Tree, Parented
<1>2. Used(t, q)
  BY <1>1 DEF Tree, Rooted, Alive, Used
<1>3. t[q].pid # PID_NONE
  <2>1. CASE q = InitPcb
    BY <2>1, Numbers DEF Tree, Rooted
  <2>2. CASE q # InitPcb
    <3>1. t[q].pid \in PID_FIRST_USER .. n - 1 /\ n \in PID_FIRST_USER .. PID_LIMIT
      BY <1>2, <2>2 DEF Tree, Numbered
    <3> QED
      BY <3>1, Numbers
  <2> QED
    BY <2>1, <2>2
<1>4. \A c \in Pcb : t[c].pid = t[p].ppid => c = q
  <2> SUFFICES ASSUME NEW c \in Pcb, t[c].pid = t[p].ppid PROVE c = q
    OBVIOUS
  <2>1. Used(t, c)
    BY <1>1, <1>3 DEF Tree, Numbered
  <2> QED
    BY <1>1, <1>2, <2>1 DEF Tree, Numbered
<1>5. hits = {q}
  BY <1>1, <1>4
<1>6. Min(hits) = q
  <2>1. hits \in SUBSET Nat /\ hits # {}
    BY <1>5 DEF Pcb
  <2> HIDE DEF hits
  <2> QED
    BY <1>5, <2>1, MinNat
<1>7. PcbFind(k, k.pcb[p].ppid) = q
  BY <1>5, <1>6 DEF PcbFind
<1>8. q # NoPcb
  BY DEF Pcb, NoPcb
<1> QED
  BY <1>1, <1>4, <1>7, <1>8

(* Nobody names a dead process, but init, as the parent.                   *)
LEMMA DeadHaveNoKids ==
  ASSUME NEW t, NEW n, NEW D, Tree(t, n, D), NEW p \in Pcb \ {InitPcb}, Used(t, p),
         ~ Alive(t, p)
  PROVE  \A c \in Pcb : t[c].ppid # t[p].pid
<1> SUFFICES ASSUME NEW c \in Pcb, t[c].ppid = t[p].pid PROVE FALSE
  OBVIOUS
<1>1. t[p].pid \in PID_FIRST_USER .. n - 1 /\ n \in PID_FIRST_USER .. PID_LIMIT
  BY DEF Tree, Numbered
<1>2. t[p].pid # PID_NONE /\ t[p].pid # PID_INIT
  BY <1>1, Numbers
<1>3. Used(t, c)
  BY <1>2 DEF Tree, Numbered
<1>4. PICK q \in Pcb : t[q].pid = t[p].pid /\ (q = InitPcb \/ Alive(t, q))
  BY <1>3 DEF Tree, Parented
<1>5. Used(t, q)
  BY <1>4 DEF Tree, Rooted, Alive, Used
<1>6. q = p
  BY <1>4, <1>5 DEF Tree, Numbered
<1> QED
  BY <1>4, <1>6

(* A dead process, but init, may be freed; its parent may then count one   *)
(* child fewer.                                                            *)
LEMMA TreeFree ==
  ASSUME NEW t, NEW n, NEW D, Tree(t, n, D), NEW p \in Pcb \ {InitPcb}, Used(t, p),
         ~ Alive(t, p), NEW t2 \in [Pcb -> PcbRecord], t2[p] = FreePcb,
         \A c \in Pcb \ {p} :
           /\ t2[c].pid = t[c].pid /\ t2[c].ppid = t[c].ppid /\ t2[c].state = t[c].state
           /\ \/ t2[c].children >= t[c].children
              \/ t[p].ppid = t[c].pid /\ t2[c].children = t[c].children - 1
  PROVE  Tree(t2, n, D \ {p})
<1>1. InitPcb \in Pcb /\ t \in [Pcb -> PcbRecord]
  BY Numbers DEF Tree
<1>2. \A c \in Pcb : t[c].ppid # t[p].pid
  BY DeadHaveNoKids
<1>3. t2[p].state = PS_FREE /\ t2[p].pid = PID_NONE /\ t2[p].ppid = PID_NONE
  BY DEF FreePcb
<1>4. \A c \in Pcb \ {p} : (Used(t2, c) <=> Used(t, c)) /\ (Alive(t2, c) <=> Alive(t, c))
  BY DEF Used, Alive
<1>5. ~ Used(t2, p) /\ ~ Alive(t2, p)
  BY <1>3 DEF Used, Alive
<1>6. Rooted(t2)
  BY <1>1, <1>4 DEF Tree, Rooted
<1>7. Numbered(t2, n)
  BY <1>3, <1>4, <1>5 DEF Tree, Numbered
<1>8. Parented(t2)
  <2> SUFFICES ASSUME NEW c \in Pcb, Used(t2, c)
               PROVE  \E parent \in Pcb : /\ t2[parent].pid = t2[c].ppid
                                          /\ parent = InitPcb \/ Alive(t2, parent)
    BY DEF Parented
  <2>1. c \in Pcb \ {p} /\ Used(t, c)
    BY <1>4, <1>5
  <2>2. PICK q \in Pcb : t[q].pid = t[c].ppid /\ (q = InitPcb \/ Alive(t, q))
    BY <2>1 DEF Tree, Parented
  <2>3. q # p
    BY <1>2, <2>2
  <2> QED
    BY <1>4, <2>1, <2>2, <2>3
<1>9. KidsCounted(t2)
  <2> SUFFICES ASSUME NEW c \in Pcb, Alive(t2, c)
               PROVE  t2[c].children >= Cardinality(Kids(t2, c))
    BY DEF KidsCounted
  <2>1. c \in Pcb \ {p} /\ Alive(t, c)
    BY <1>4, <1>5
  <2>2. t[c].children >= Cardinality(Kids(t, c))
    BY <2>1 DEF Tree, KidsCounted
  <2>3. Kids(t2, c) = Kids(t, c) \ {p}
    <3>1. t[c].pid # PID_NONE
      <4>1. Used(t, c)
        BY <2>1 DEF Alive, Used
      <4>2. c # InitPcb => t[c].pid \in PID_FIRST_USER .. n - 1
        BY <4>1 DEF Tree, Numbered
      <4>3. n \in PID_FIRST_USER .. PID_LIMIT
        BY DEF Tree, Numbered
      <4> QED
        BY <4>2, <4>3, Numbers DEF Tree, Rooted
    <3> QED
      BY <1>3, <2>1, <3>1 DEF Kids
  <2>4. p \in Kids(t, c) => Cardinality(Kids(t2, c)) = Cardinality(Kids(t, c)) - 1
    BY <2>3, KidsFinite, FS_RemoveElement
  <2>5. p \notin Kids(t, c) => Kids(t2, c) = Kids(t, c)
    BY <2>3
  <2>6. t[p].ppid = t[c].pid => p \in Kids(t, c)
    BY DEF Kids
  <2>7. Cardinality(Kids(t2, c)) <= Cardinality(Kids(t, c))
    BY <2>3, FewerKids
  <2>8. t[c].children \in Int /\ t2[c].children \in Int
    <3>1. t[c] \in PcbRecord /\ t2[c] \in PcbRecord
      BY <1>1
    <3> QED
      BY <3>1, PcbFields
  <2>9. Cardinality(Kids(t, c)) \in Int /\ Cardinality(Kids(t2, c)) \in Int
    BY KidsFinite
  <2>10. \/ t2[c].children >= t[c].children
         \/ t[p].ppid = t[c].pid /\ t2[c].children = t[c].children - 1
    BY <2>1
  <2> QED
    BY <2>2, <2>4, <2>6, <2>7, <2>8, <2>9, <2>10
<1>10. Noticed(t2, D \ {p})
  <2> SUFFICES ASSUME NEW w \in Pcb \ {InitPcb}, t2[w].state = PS_WAITING,
                      NEW c \in Pcb \ (D \ {p}), t2[c].ppid = t2[w].pid,
                      t2[c].state = PS_ZOMBIE
               PROVE  FALSE
    BY DEF Noticed, NoneExited
  <2>1. w # p /\ c # p
    BY <1>3 DEF PS_FREE, PS_WAITING, PS_ZOMBIE
  <2>2. t[w].state = PS_WAITING /\ c \in Pcb \ D /\ t[c].ppid = t[w].pid
        /\ t[c].state = PS_ZOMBIE
    BY <2>1
  <2> QED
    BY <2>2 DEF Tree, Noticed, NoneExited
<1> QED
  BY <1>6, <1>7, <1>8, <1>9, <1>10 DEF Tree

(* When the parent of the one process that is dead and not yet reported is *)
(* not waiting, there is nobody to tell.                                   *)
LEMMA TreeTold ==
  ASSUME NEW k, NEW n, NEW p \in Pcb, Used(k.pcb, p), Tree(k.pcb, n, {p}),
         k.pcb[PcbFind(k, k.pcb[p].ppid)].state # PS_WAITING
  PROVE  Tree(k.pcb, n, {})
<1> DEFINE t == k.pcb
<1>1. \A c \in Pcb : t[c].pid = t[p].ppid => t[c].state # PS_WAITING
  BY FindsParent
<1>2. Noticed(t, {})
  <2> SUFFICES ASSUME NEW w \in Pcb \ {InitPcb}, t[w].state = PS_WAITING,
                      NEW c \in Pcb, t[c].ppid = t[w].pid, t[c].state = PS_ZOMBIE
               PROVE  FALSE
    BY DEF Noticed, NoneExited
  <2>1. c # p
    BY <1>1
  <2> QED
    BY <2>1 DEF Tree, Noticed, NoneExited
<1> QED
  BY <1>2 DEF Tree

(* A live process p dies: init becomes the parent of its children, and the *)
(* only thing left to do is to tell its own parent.  (r is what the PCB of *)
(* p holds by then.)                                                       *)
LEMMA TreeDies ==
  ASSUME NEW t, NEW n, Tree(t, n, {}), NEW p \in Pcb, Alive(t, p), NEW k \in KernelState,
         \A c \in Pcb : /\ k.pcb[c].pid = t[c].pid /\ k.pcb[c].ppid = t[c].ppid
                        /\ k.pcb[c].children = t[c].children
                        /\ c # p => k.pcb[c].state = t[c].state,
         k.pcb[p].state \in {PS_KILLED, PS_ZOMBIE}
  PROVE  LET t2 == Reparent(k, p).pcb IN
         /\ Tree(t2, n, {p}) /\ Used(t2, p) /\ ~ Alive(t2, p)
         /\ \A c \in Pcb : /\ t2[c].state = k.pcb[c].state /\ t2[c].pid = k.pcb[c].pid
                           /\ t2[c].prio = k.pcb[c].prio /\ t2[c].wakeup = k.pcb[c].wakeup
                           /\ t2[c].stack = k.pcb[c].stack
                           /\ t2[c].exitstatus = k.pcb[c].exitstatus
         /\ t2[p].ppid = k.pcb[p].ppid
<1> DEFINE t1 == k.pcb
           orphans == IF t1[p].children > 0 THEN ChildrenOf(k, t1[p].pid) ELSE {}
           ppid(c) == IF c \in orphans THEN PID_INIT ELSE t1[c].ppid
           children(c) == IF c = p THEN 0
                          ELSE IF c = InitPcb THEN t1[c].children + Cardinality(orphans)
                          ELSE t1[c].children
           t2 == Reparent(k, p).pcb
<1>1. t \in [Pcb -> PcbRecord] /\ InitPcb \in Pcb
  BY Numbers DEF Tree
<1>2. t1 \in [Pcb -> PcbRecord]
  BY KernelFields
<1>3. t2 = [c \in Pcb |-> [t1[c] EXCEPT !.ppid = ppid(c), !.children = children(c)]]
  BY DEF Reparent, KernelState
<1>4. Reparent(k, p) \in KernelState
  BY ReparentType
<1>5. t2 \in [Pcb -> PcbRecord]
  BY <1>4, KernelFields
<1> HIDE DEF t1, t2, ppid, children, orphans
<1>6. \A c \in Pcb : /\ t2[c].state = t1[c].state /\ t2[c].pid = t1[c].pid
                     /\ t2[c].prio = t1[c].prio /\ t2[c].wakeup = t1[c].wakeup
                     /\ t2[c].stack = t1[c].stack /\ t2[c].exitstatus = t1[c].exitstatus
                     /\ t2[c].ppid = ppid(c) /\ t2[c].children = children(c)
  <2> SUFFICES ASSUME NEW c \in Pcb
               PROVE  /\ t2[c].state = t1[c].state /\ t2[c].pid = t1[c].pid
                      /\ t2[c].prio = t1[c].prio /\ t2[c].wakeup = t1[c].wakeup
                      /\ t2[c].stack = t1[c].stack /\ t2[c].exitstatus = t1[c].exitstatus
                      /\ t2[c].ppid = ppid(c) /\ t2[c].children = children(c)
    OBVIOUS
  <2>1. t1[c] \in PcbRecord
    BY <1>2
  <2>2. t2[c] = [t1[c] EXCEPT !.ppid = ppid(c), !.children = children(c)]
    BY <1>3, Zenon
  <2> QED
    BY <2>1, <2>2 DEF PcbRecord
<1>7. \A c \in Pcb : /\ t1[c].pid = t[c].pid /\ t1[c].ppid = t[c].ppid
                     /\ t1[c].children = t[c].children
                     /\ c # p => t1[c].state = t[c].state
  BY DEF t1
<1>8. /\ t1[p].state \in {PS_KILLED, PS_ZOMBIE}
      /\ t1[p].state # PS_FREE /\ t1[p].state # PS_WAITING
  BY DEF t1, PS_FREE, PS_KILLED, PS_ZOMBIE, PS_WAITING
<1>9. \A c \in Pcb : /\ Used(t2, c) <=> Used(t, c)
                     /\ Alive(t2, c) <=> c # p /\ Alive(t, c)
  BY <1>6, <1>7, <1>8 DEF Used, Alive
<1>10. /\ t[InitPcb].ppid = PID_INIT /\ t[InitPcb].pid = PID_INIT
       /\ n \in PID_FIRST_USER .. PID_LIMIT
       /\ \A c \in Pcb \ {InitPcb} : Used(t, c) => t[c].pid \in PID_FIRST_USER .. n - 1
  BY DEF Tree, Rooted, Numbered
<1>11. Used(t, p)
  BY DEF Used, Alive
<1>12. t[p].children \in Nat /\ t[p].children >= Cardinality(Kids(t, p))
  BY <1>1, PcbFields DEF Tree, KidsCounted
<1>13. /\ orphans \subseteq {c \in Pcb : t[c].ppid = t[p].pid}
       /\ Kids(t, p) \subseteq orphans
  <2>1. CASE t[p].children > 0
    BY <1>7, <2>1 DEF orphans, ChildrenOf, t1, Kids
  <2>2. CASE ~ (t[p].children > 0)
    <3>1. Cardinality(Kids(t, p)) = 0
      BY <1>12, <2>2, KidsFinite
    <3>2. Kids(t, p) = {}
      BY <3>1, KidsFinite, FS_EmptySet
    <3> QED
      BY <2>2, <3>2, <1>7 DEF orphans
  <2> QED
    BY <2>1, <2>2
<1>14. \A c \in Pcb : t2[c].ppid = IF t[c].ppid = t[p].pid THEN PID_INIT ELSE t[c].ppid
  <2> SUFFICES ASSUME NEW c \in Pcb
               PROVE  t2[c].ppid = IF t[c].ppid = t[p].pid THEN PID_INIT ELSE t[c].ppid
    OBVIOUS
  <2>1. t2[c].ppid = IF c \in orphans THEN PID_INIT ELSE t[c].ppid
    BY <1>6, <1>7 DEF ppid
  <2>2. CASE c # InitPcb
    BY <2>1, <2>2, <1>13 DEF Kids
  <2>3. CASE c = InitPcb
    BY <2>1, <2>3, <1>10
  <2> QED
    BY <2>2, <2>3
<1>15. Rooted(t2)
  BY <1>1, <1>6, <1>7, <1>9, <1>10, <1>14 DEF Tree, Rooted
<1>16. Numbered(t2, n)
  <2>1. \A c \in Pcb : t2[c].pid = t[c].pid
    BY <1>6, <1>7
  <2>2. t[p].pid # PID_NONE
    BY <1>10, <1>11, Numbers
  <2>3. \A c \in Pcb : ~ Used(t2, c) => t2[c].ppid = PID_NONE
    BY <1>9, <1>14, <2>2 DEF Tree, Numbered
  <2>4. ASSUME NEW c \in Pcb \ {InitPcb}, Used(t2, c)
        PROVE  t2[c].ppid < t2[c].pid
    <3>1. t[c].ppid < t[c].pid /\ PID_INIT < t[c].pid
      BY <1>9, <1>10, <2>4, Numbers DEF Tree, Numbered
    <3> QED
      BY <1>14, <2>1, <3>1
  <2> QED
    BY <1>9, <2>1, <2>3, <2>4 DEF Tree, Numbered
<1>17. Parented(t2)
  <2> SUFFICES ASSUME NEW c \in Pcb, Used(t2, c)
               PROVE  \E parent \in Pcb : /\ t2[parent].pid = t2[c].ppid
                                          /\ parent = InitPcb \/ Alive(t2, parent)
    BY DEF Parented
  <2>1. CASE t[c].ppid = t[p].pid
    BY <2>1, <1>1, <1>6, <1>7, <1>10, <1>14
  <2>2. CASE t[c].ppid # t[p].pid
    <3>1. PICK q \in Pcb : t[q].pid = t[c].ppid /\ (q = InitPcb \/ Alive(t, q))
      BY <1>9 DEF Tree, Parented
    <3>2. q # p
      BY <2>2, <3>1
    <3> QED
      BY <2>2, <3>1, <3>2, <1>6, <1>7, <1>9, <1>14
  <2> QED
    BY <2>1, <2>2
<1>18. KidsCounted(t2)
  <2> SUFFICES ASSUME NEW c \in Pcb, Alive(t2, c)
               PROVE  t2[c].children >= Cardinality(Kids(t2, c))
    BY DEF KidsCounted
  <2>1. c # p /\ Alive(t, c) /\ Used(t, c)
    BY <1>9 DEF Alive, Used
  <2>2. t[c].children >= Cardinality(Kids(t, c)) /\ t[c].children \in Nat
    BY <1>1, <2>1, PcbFields DEF Tree, KidsCounted
  <2>3. CASE c # InitPcb
    <3>1. t[c].pid # PID_INIT
      BY <1>10, <2>1, <2>3, Numbers
    <3>2. Kids(t2, c) \subseteq Kids(t, c)
      BY <1>6, <1>7, <1>14, <3>1 DEF Kids
    <3>3. Cardinality(Kids(t2, c)) <= Cardinality(Kids(t, c))
      BY <3>2, FewerKids
    <3>4. t2[c].children = t[c].children
      BY <1>6, <1>7, <2>1, <2>3 DEF children
    <3> QED
      BY <2>2, <3>3, <3>4, KidsFinite
  <2>4. CASE c = InitPcb
    <3>1. Kids(t2, c) \subseteq Kids(t, c) \cup Kids(t, p)
      BY <1>6, <1>7, <1>10, <1>14, <2>4 DEF Kids
    <3>2. IsFiniteSet(orphans) /\ Cardinality(orphans) \in Nat
      <4>1. orphans \in SUBSET Pcb
        BY <1>13
      <4> QED
        BY <4>1, PcbFinite, FS_CardinalityType
    <3>3. Kids(t2, c) \subseteq Kids(t, c) \cup orphans
      BY <1>13, <3>1
    <3>4. Kids(t, c) \cap orphans = {}
      <4>1. t[c].pid # t[p].pid
        BY <1>11, <2>1 DEF Tree, Numbered
      <4> QED
        BY <1>13, <4>1 DEF Kids
    <3>5. /\ IsFiniteSet(Kids(t, c) \cup orphans)
          /\ Cardinality(Kids(t, c) \cup orphans) = Cardinality(Kids(t, c)) + Cardinality(orphans)
      BY <3>2, <3>4, KidsFinite, CardDisjoint
    <3>6. Cardinality(Kids(t2, c)) <= Cardinality(Kids(t, c) \cup orphans)
      BY <3>3, <3>5, FS_Subset
    <3>7. t2[c].children = t[c].children + Cardinality(orphans)
      BY <1>6, <1>7, <2>1, <2>4 DEF children
    <3> QED
      BY <2>2, <3>2, <3>5, <3>6, <3>7, KidsFinite
  <2> QED
    BY <2>3, <2>4
<1>19. Noticed(t2, {p})
  <2> SUFFICES ASSUME NEW w \in Pcb \ {InitPcb}, t2[w].state = PS_WAITING,
                      NEW c \in Pcb \ {p}, t2[c].ppid = t2[w].pid, t2[c].state = PS_ZOMBIE
               PROVE  FALSE
    BY DEF Noticed, NoneExited
  <2>1. w # p /\ t[w].state = PS_WAITING
    BY <1>6, <1>7, <1>8
  <2>2. t[w].pid # PID_INIT
    <3>1. Used(t, w)
      BY <2>1 DEF Used, PS_WAITING, PS_FREE
    <3> QED
      BY <1>10, <3>1, Numbers
  <2>3. t[c].ppid = t[w].pid /\ t[c].state = PS_ZOMBIE
    BY <1>6, <1>7, <1>14, <2>2
  <2> QED
    BY <2>1, <2>3 DEF Tree, Noticed, NoneExited
<1>20. Tree(t2, n, {p})
  BY <1>5, <1>15, <1>16, <1>17, <1>18, <1>19 DEF Tree
<1>21. t2[p].ppid = t1[p].ppid
  <2>1. CASE p = InitPcb
    BY <2>1, <1>7, <1>10, <1>14
  <2>2. CASE p # InitPcb
    <3>1. t[p].ppid < t[p].pid /\ t[p].pid \in Int
      BY <1>1, <1>11, <2>2, PcbFields DEF Tree, Numbered
    <3>2. t[p].ppid \in Int
      BY <1>1, PcbFields
    <3> QED
      BY <3>1, <3>2, <1>7, <1>14
  <2> QED
    BY <2>1, <2>2
<1> QED
  BY <1>6, <1>9, <1>11, <1>20, <1>21 DEF t2, t1

(* A free PCB becomes a child, under the next PID, of a live process,      *)
(* which counts it.                                                        *)
LEMMA TreeFork ==
  ASSUME NEW t, NEW n, NEW D, Tree(t, n, D), n < PID_LIMIT,
         NEW me1 \in Pcb, Alive(t, me1), NEW child \in Pcb, ~ Used(t, child),
         NEW r \in PcbRecord, r.pid = n, r.ppid = t[me1].pid,
         r.state \notin {PS_FREE, PS_KILLED, PS_ZOMBIE, PS_WAITING},
         NEW m \in PcbRecord, m.pid = t[me1].pid, m.ppid = t[me1].ppid,
         m.state = t[me1].state, m.children = t[me1].children + 1,
         NEW t2 \in [Pcb -> PcbRecord], t2[child] = r, t2[me1] = m,
         \A c \in Pcb \ {child, me1} : t2[c] = t[c]
  PROVE  Tree(t2, n + 1, D) /\ Alive(t2, me1) /\ Alive(t2, child)
<1>1. InitPcb \in Pcb /\ t \in [Pcb -> PcbRecord]
  BY Numbers DEF Tree
<1>2. child # me1
  BY DEF Used, Alive
<1>3. t2 \in [Pcb -> PcbRecord]
  OBVIOUS
<1>4. t2[child] = r /\ t2[me1] = m /\ \A c \in Pcb \ {child, me1} : t2[c] = t[c]
  OBVIOUS
<1>5. /\ t[InitPcb].ppid = PID_INIT /\ t[InitPcb].pid = PID_INIT /\ Used(t, InitPcb)
      /\ n \in PID_FIRST_USER .. PID_LIMIT
      /\ \A c \in Pcb \ {InitPcb} : Used(t, c) => t[c].pid \in PID_FIRST_USER .. n - 1
      /\ \A c \in Pcb : ~ Used(t, c) => t[c].pid = PID_NONE /\ t[c].ppid = PID_NONE
  BY DEF Tree, Rooted, Numbered
<1>6. Alive(t2, child) /\ Used(t2, child) /\ Alive(t2, me1) /\ Used(t2, me1) /\ Used(t, me1)
  BY <1>4 DEF Alive, Used
<1>7. \A c \in Pcb \ {child} : /\ Used(t2, c) <=> Used(t, c)
                               /\ Alive(t2, c) <=> Alive(t, c)
                               /\ t2[c].pid = t[c].pid /\ t2[c].ppid = t[c].ppid
                               /\ t2[c].state = t[c].state
  BY <1>4 DEF Used, Alive
<1>8. child # InitPcb
  BY <1>5
<1>9. Rooted(t2)
  BY <1>1, <1>5, <1>7, <1>8 DEF Rooted
<1>10. \A c \in Pcb : Used(t, c) => t[c].pid # n
  BY <1>5, Numbers
<1>11. Numbered(t2, n + 1)
  <2>1. n + 1 \in PID_FIRST_USER .. PID_LIMIT
    BY <1>5, Numbers
  <2>2. \A c \in Pcb : ~ Used(t2, c) => t2[c].pid = PID_NONE /\ t2[c].ppid = PID_NONE
    BY <1>5, <1>6, <1>7
  <2>3. ASSUME NEW c \in Pcb \ {InitPcb}, Used(t2, c)
        PROVE  t2[c].pid \in PID_FIRST_USER .. (n + 1) - 1 /\ t2[c].ppid < t2[c].pid
    <3>1. CASE c = child
      <4>1. t[me1].pid < n
        BY <1>5, <1>6, Numbers
      <4> QED
        BY <3>1, <4>1, <1>4, <1>5, Numbers
    <3>2. CASE c # child
      <4>1. t2[c].pid \in PID_FIRST_USER .. n - 1 /\ t2[c].ppid < t2[c].pid
        BY <2>3, <3>2, <1>5, <1>7 DEF Tree, Numbered
      <4>2. n \in Nat
        BY <1>5, Numbers
      <4> QED
        BY <4>1, <4>2, Numbers
    <3> QED
      BY <3>1, <3>2
  <2>4. \A c, d \in Pcb : Used(t2, c) /\ Used(t2, d) /\ t2[c].pid = t2[d].pid => c = d
    BY <1>4, <1>7, <1>10 DEF Tree, Numbered
  <2> QED
    BY <2>1, <2>2, <2>3, <2>4 DEF Numbered
<1>12. Parented(t2)
  <2> SUFFICES ASSUME NEW c \in Pcb, Used(t2, c)
               PROVE  \E parent \in Pcb : /\ t2[parent].pid = t2[c].ppid
                                          /\ parent = InitPcb \/ Alive(t2, parent)
    BY DEF Parented
  <2>1. CASE c = child
    <3>1. t2[me1].pid = t2[c].ppid /\ Alive(t2, me1)
      BY <2>1, <1>4, <1>6
    <3> QED
      BY <3>1
  <2>2. CASE c # child
    <3>1. PICK q \in Pcb : t[q].pid = t[c].ppid /\ (q = InitPcb \/ Alive(t, q))
      BY <2>2, <1>7 DEF Tree, Parented
    <3>2. q # child
      BY <3>1, <1>8 DEF Alive, Used
    <3> QED
      BY <2>2, <3>1, <3>2, <1>7
  <2> QED
    BY <2>1, <2>2
<1>13. KidsCounted(t2)
  <2> SUFFICES ASSUME NEW c \in Pcb, Alive(t2, c)
               PROVE  t2[c].children >= Cardinality(Kids(t2, c))
    BY DEF KidsCounted
  <2>1. t2[c].children \in Nat
    BY <1>3, PcbFields
  <2>2. CASE c = child
    <3>1. \A x \in Pcb : t2[x].ppid # n
      <4> SUFFICES ASSUME NEW x \in Pcb, t2[x].ppid = n PROVE FALSE
        OBVIOUS
      <4>1. x # child
        BY <1>4, <1>6, <1>10
      <4>2. t[x].ppid = n
        BY <1>7, <4>1
      <4>3. Used(t, x)
        BY <1>5, <4>2, Numbers
      <4>4. PICK q \in Pcb : t[q].pid = n /\ (q = InitPcb \/ Alive(t, q))
        BY <4>2, <4>3 DEF Tree, Parented
      <4>5. Used(t, q)
        BY <1>5, <4>4 DEF Alive, Used
      <4> QED
        BY <4>4, <4>5, <1>10
    <3>2. Kids(t2, c) = {}
      BY <2>2, <3>1, <1>4 DEF Kids
    <3>3. Cardinality(Kids(t2, c)) = 0
      BY <3>2, FS_EmptySet
    <3> QED
      BY <2>1, <3>3
  <2>3. CASE c # child
    <3>1. t[c].children >= Cardinality(Kids(t, c)) /\ t[c].children \in Nat
      BY <2>3, <1>1, <1>7, PcbFields DEF Tree, KidsCounted
    <3>2. CASE c # me1
      <4>1. t[c].pid # t[me1].pid
        <5>1. Used(t, c)
          BY <2>3, <1>7 DEF Alive, Used
        <5> QED
          BY <3>2, <5>1, <1>6 DEF Tree, Numbered
      <4>2. Kids(t2, c) \subseteq Kids(t, c)
        BY <4>1, <2>3, <1>4, <1>7 DEF Kids
      <4>3. t2[c].children = t[c].children
        BY <2>3, <3>2, <1>4
      <4>4. Cardinality(Kids(t2, c)) <= Cardinality(Kids(t, c))
        BY <4>2, FewerKids
      <4>5. Cardinality(Kids(t2, c)) \in Nat /\ Cardinality(Kids(t, c)) \in Nat
        BY KidsFinite
      <4> QED
        BY <3>1, <4>3, <4>4, <4>5
    <3>3. CASE c = me1
      <4>1. Kids(t2, c) \subseteq Kids(t, c) \cup {child}
        BY <2>3, <1>7 DEF Kids
      <4>2. /\ IsFiniteSet(Kids(t, c) \cup {child})
            /\ Cardinality(Kids(t, c) \cup {child}) <= Cardinality(Kids(t, c)) + 1
        <5>1. IsFiniteSet(Kids(t, c)) /\ Cardinality(Kids(t, c)) \in Nat
          BY KidsFinite
        <5>2. CASE child \in Kids(t, c)
          <6> DEFINE more == Kids(t, c) \cup {child}
          <6>1. more = Kids(t, c)
            BY <5>2
          <6> HIDE DEF more
          <6>2. IsFiniteSet(more) /\ Cardinality(more) <= Cardinality(Kids(t, c)) + 1
            BY <5>1, <6>1
          <6> QED
            BY <6>2 DEF more
        <5>3. CASE child \notin Kids(t, c)
          <6>1. /\ IsFiniteSet(Kids(t, c) \cup {child})
                /\ Cardinality(Kids(t, c) \cup {child}) = Cardinality(Kids(t, c)) + 1
            BY <5>1, <5>3, FS_AddElement
          <6> QED
            BY <5>1, <6>1
        <5> QED
          BY <5>2, <5>3
      <4>3. Cardinality(Kids(t2, c)) <= Cardinality(Kids(t, c) \cup {child})
        BY <4>1, <4>2, FS_Subset
      <4>4. t2[c].children = t[c].children + 1
        BY <3>3, <1>4
      <4>5. Cardinality(Kids(t, c) \cup {child}) \in Nat
        BY <4>2, FS_CardinalityType
      <4> QED
        BY <3>1, <4>2, <4>3, <4>4, <4>5, KidsFinite
    <3> QED
      BY <3>2, <3>3
  <2> QED
    BY <2>2, <2>3
<1>14. Noticed(t2, D)
  <2> SUFFICES ASSUME NEW w \in Pcb \ {InitPcb}, t2[w].state = PS_WAITING,
                      NEW c \in Pcb \ D, t2[c].ppid = t2[w].pid, t2[c].state = PS_ZOMBIE
               PROVE  FALSE
    BY DEF Noticed, NoneExited
  <2>1. w # child /\ c # child
    BY <1>4
  <2>2. t[w].state = PS_WAITING /\ t[c].ppid = t[w].pid /\ t[c].state = PS_ZOMBIE
    BY <2>1, <1>7
  <2> QED
    BY <2>2 DEF Tree, Noticed, NoneExited
<1>15. Tree(t2, n + 1, D)
  BY <1>3, <1>9, <1>11, <1>12, <1>13, <1>14 DEF Tree
<1> QED
  BY <1>6, <1>15

-----------------------------------------------------------------------------
(* The subroutines of the handlers, with the tree.                         *)

(* What _zombify has told: nobody, and then every process is still there;  *)
(* or w, a parent of p, of the PID and exit status of p, which is gone.    *)
Told(k, k2, p) ==
  \/ /\ k2.returned = k.returned
     /\ \A c \in Pcb : Used(k2.pcb, c) <=> Used(k.pcb, c)
  \/ \E w \in Pcb \ {p} :
       /\ k.pcb[w].pid = k.pcb[p].ppid /\ k.pcb[w].state = PS_WAITING
       /\ k2.returned = [k.returned EXCEPT ![w] =
                           <<E_SUCCESS, k.pcb[p].pid, k.pcb[p].exitstatus>>]
       /\ \A c \in Pcb : Used(k2.pcb, c) <=> c # p /\ Used(k.pcb, c)

(* A live process that _schedule makes ready leaves the tree as it was.    *)
LEMMA TreeReady ==
  ASSUME NEW k, NEW n, NEW D, Tree(k.pcb, n, D), NEW p \in Pcb, Alive(k.pcb, p),
         NEW k2, Scheduled(k, k2, p)
  PROVE  Tree(k2.pcb, n, D) /\ Alive(k2.pcb, p)
<1>1. PS_READY \notin {PS_FREE, PS_KILLED, PS_ZOMBIE, PS_WAITING}
  BY DEF PS_READY, PS_FREE, PS_KILLED, PS_ZOMBIE, PS_WAITING
<1>2. k2.pcb \in [Pcb -> PcbRecord]
  BY DEF Scheduled
<1>3. \A c \in Pcb : k2.pcb[c].children \in Nat
  BY <1>2, PcbFields
<1>4. \A c \in Pcb : /\ k2.pcb[c].pid = k.pcb[c].pid /\ k2.pcb[c].ppid = k.pcb[c].ppid
                     /\ Used(k2.pcb, c) <=> Used(k.pcb, c)
                     /\ Alive(k2.pcb, c) <=> Alive(k.pcb, c)
                     /\ k2.pcb[c].children >= k.pcb[c].children
  BY <1>1, <1>3 DEF Scheduled, Used, Alive
<1>5. /\ \A c \in Pcb : k2.pcb[c].state = PS_WAITING => k.pcb[c].state = PS_WAITING
      /\ \A c \in Pcb : k2.pcb[c].state = PS_ZOMBIE => k.pcb[c].state = PS_ZOMBIE
  BY <1>1 DEF Scheduled
<1>6. Tree(k2.pcb, n, D)
  BY <1>2, <1>4, <1>5, TreeSame
<1> QED
  BY <1>4, <1>6

(* _zombify puts a process that has just died away, in a queue or for good.*)
(* Nobody else in hand is waiting, and they keep their states.             *)
LEMMA ZombifySound ==
  ASSUME NEW k, NEW out, Sound(k, out), NEW p \in out, NEW t, NEW n, Tree(t, n, {}),
         Alive(t, p), k.next_pid = n,
         \A c \in Pcb : /\ k.pcb[c].pid = t[c].pid /\ k.pcb[c].ppid = t[c].ppid
                        /\ k.pcb[c].children = t[c].children
                        /\ c # p => k.pcb[c].state = t[c].state,
         k.pcb[p].state \in {PS_KILLED, PS_ZOMBIE},
         \A c \in out \ {p} : k.pcb[c].state # PS_WAITING
  PROVE  LET k2 == Zombify(k, p) IN
         /\ Sound(k2, out \ {p}) /\ Tree(k2.pcb, n, {})
         /\ k2.current = k.current /\ k2.next_pid = n /\ k2.now = k.now
         /\ \A c \in out \ {p} : k2.pcb[c].state = k.pcb[c].state
         /\ \A c \in Pcb : k2.pcb[c].state = PS_READY =>
                           k.pcb[c].state \in {PS_READY, PS_WAITING}
         /\ Told(k, k2, p)
<1> DEFINE z      == Reparent(k, p)
           parent == PcbFind(z, z.pcb[p].ppid)
           k2     == Zombify(k, p)
<1>1. k \in KernelState /\ out \in SUBSET Pcb /\ p \in Pcb /\ ~ Halted(k)
  BY DEF Sound
<1>2. /\ Tree(z.pcb, n, {p}) /\ Used(z.pcb, p) /\ ~ Alive(z.pcb, p)
      /\ \A c \in Pcb : /\ z.pcb[c].state = k.pcb[c].state /\ z.pcb[c].pid = k.pcb[c].pid
                        /\ z.pcb[c].prio = k.pcb[c].prio /\ z.pcb[c].wakeup = k.pcb[c].wakeup
                        /\ z.pcb[c].stack = k.pcb[c].stack
                        /\ z.pcb[c].exitstatus = k.pcb[c].exitstatus
      /\ z.pcb[p].ppid = k.pcb[p].ppid
  <2> DEFINE t2 == Reparent(k, p).pcb
  <2>1. /\ Tree(t2, n, {p}) /\ Used(t2, p) /\ ~ Alive(t2, p)
        /\ \A c \in Pcb : /\ t2[c].state = k.pcb[c].state /\ t2[c].pid = k.pcb[c].pid
                          /\ t2[c].prio = k.pcb[c].prio /\ t2[c].wakeup = k.pcb[c].wakeup
                          /\ t2[c].stack = k.pcb[c].stack
                          /\ t2[c].exitstatus = k.pcb[c].exitstatus
        /\ t2[p].ppid = k.pcb[p].ppid
    <3>1. k \in KernelState /\ p \in Pcb
      BY <1>1
    <3> QED
      BY <3>1, TreeDies, SMTT(60)
  <2> QED
    BY <2>1
<1>3. z \in KernelState
  BY <1>1, ReparentType
<1>4. /\ z.queue = k.queue /\ z.free_stacks = k.free_stacks /\ z.qnodes = k.qnodes
      /\ Steady(k, z)
  BY <1>1 DEF Reparent, KernelState, Steady
<1>5. k2 = IF parent = NoPcb THEN Panic(z, "_zombify: parent process doesn't exist")
           ELSE IF z.pcb[parent].state = PS_WAITING THEN WakeParent(z, parent, p)
           ELSE EnqueOrPanic(z, "zombie", p, "_zombify: enque zombie failed")
  BY DEF Zombify
<1> HIDE DEF z, k2
<1>6. Sound(z, out)
  <2>1. z.panic = k.panic
    BY <1>4 DEF Steady
  <2>2. \A c \in Pcb : /\ z.pcb[c].state = PS_FREE <=> k.pcb[c].state = PS_FREE
                       /\ k.pcb[c].state # PS_FREE => z.pcb[c].stack = k.pcb[c].stack
    BY <1>2
  <2>3. \A c \in Pcb \ out : /\ z.pcb[c].state = k.pcb[c].state
                             /\ z.pcb[c].prio = k.pcb[c].prio
                             /\ z.pcb[c].wakeup = k.pcb[c].wakeup
    BY <1>2
  <2> QED
    BY <1>3, <1>4, <2>1, <2>2, <2>3, SoundFrame
<1>7. /\ parent \in Pcb /\ parent # NoPcb /\ z.pcb[parent].pid = z.pcb[p].ppid
      /\ parent = InitPcb \/ Alive(z.pcb, parent)
      /\ \A c \in Pcb : z.pcb[c].pid = z.pcb[p].ppid => c = parent
  <2>1. parent = PcbFind(z, z.pcb[p].ppid)
    OBVIOUS
  <2> HIDE DEF parent
  <2> QED
    BY <1>1, <1>2, <2>1, FindsParent, Zenon
<1>8. z.pcb[p].state \in {PS_KILLED, PS_ZOMBIE}
  BY <1>1, <1>2
<1> HIDE DEF parent
<1>9. CASE z.pcb[parent].state # PS_WAITING
  <2>1. k2 = EnqueOrPanic(z, "zombie", p, "_zombify: enque zombie failed")
    BY <1>5, <1>7, <1>9
  <2>2. z.pcb[p].state # PS_RUNNING /\ "zombie" \in QueueId
    BY <1>8 DEF PS_KILLED, PS_ZOMBIE, PS_RUNNING, QueueId
  <2>3. QueueOf(z, p) = "zombie"
    BY <1>1, <1>3, <1>8, QueueOfState
  <2>4. /\ Sound(EnqueOrPanic(z, "zombie", p, "_zombify: enque zombie failed"), out \ {p})
        /\ ButQueues(z, EnqueOrPanic(z, "zombie", p, "_zombify: enque zombie failed"))
    BY <1>6, <2>2, <2>3, EnqueOrPanicSound
  <2>5. Sound(k2, out \ {p}) /\ ButQueues(z, k2)
    BY <2>1, <2>4
  <2>6. Tree(z.pcb, n, {})
    BY <1>1, <1>2, <1>9, TreeTold DEF parent
  <2>7. k2.pcb = z.pcb /\ Steady(k, k2)
    BY <1>4, <2>5 DEF ButQueues, Steady
  <2>8. Told(k, k2, p)
    BY <1>2, <2>7 DEF Told, Steady, Used
  <2>9. /\ \A c \in Pcb : k2.pcb[c].state = k.pcb[c].state
        /\ \A c \in out \ {p} : k2.pcb[c].state = k.pcb[c].state
    BY <1>1, <1>2, <2>7
  <2> QED
    BY <2>5, <2>6, <2>7, <2>8, <2>9 DEF k2, Steady
<1>10. CASE z.pcb[parent].state = PS_WAITING
  <2> DEFINE site == "_zombify: waiting parent isn't"
             o    == RemoveOrPanic(z, "waiting", parent, site)
             v    == <<E_SUCCESS, z.pcb[p].pid, z.pcb[p].exitstatus>>
             told == [o EXCEPT !.returned[parent] = v]
             gone == PcbCleanup(told, p)
  <2>1. k2 = IF Halted(o) THEN o ELSE Schedule(gone, parent)
    BY <1>5, <1>7, <1>10 DEF WakeParent
  <2>2. parent # p /\ parent \notin out /\ p # InitPcb
    <3>1. parent # p
      BY <1>8, <1>10 DEF PS_KILLED, PS_ZOMBIE, PS_WAITING
    <3>2. parent \notin out
      BY <1>1, <1>2, <1>7, <1>10, <3>1
    <3>3. p # InitPcb
      <4>1. z.pcb[InitPcb].pid = z.pcb[InitPcb].ppid /\ InitPcb \in Pcb
        BY <1>2, Numbers DEF Tree, Rooted
      <4> QED
        BY <1>7, <3>1, <4>1
    <3> QED
      BY <3>1, <3>2, <3>3
  <2>3. QueueOf(z, parent) = "waiting" /\ "waiting" \in QueueId /\ site \in PanicSite
    BY <1>3, <1>7, <1>10, QueueOfState DEF QueueId, PanicSite
  <2> HIDE DEF site
  <2>4. Sound(o, out \cup {parent}) /\ ButQueues(z, o)
    BY <1>6, <1>7, <2>2, <2>3, RemoveSound
  <2>5. k2 = Schedule(gone, parent) /\ o \in KernelState /\ o.pcb = z.pcb
    BY <2>1, <2>4 DEF Sound, ButQueues
  <2>6. v \in Seq(Int)
    <3>1. z.pcb[p] \in PcbRecord
      BY <1>1, <1>3, KernelFields
    <3>2. z.pcb[p].pid \in Int /\ z.pcb[p].exitstatus \in Int
      BY <3>1, PcbFields
    <3> QED
      BY <3>2 DEF E_SUCCESS
  <2> HIDE DEF o, v
  <2>7. told \in KernelState
    BY <1>7, <2>5, <2>6, SetReturned
  <2>8. /\ told.pcb = z.pcb /\ told.queue = o.queue /\ told.free_stacks = o.free_stacks
        /\ told.qnodes = o.qnodes /\ told.panic = o.panic
        /\ told.current = o.current /\ told.next_pid = o.next_pid /\ told.now = o.now
        /\ told.returned = [o.returned EXCEPT ![parent] = v]
    BY <2>5 DEF KernelState
  <2> HIDE DEF told
  <2>9. Sound(told, out \cup {parent})
    BY <2>4, <2>5, <2>7, <2>8, SoundElse
  <2>10. /\ Sound(gone, (out \cup {parent}) \ {p}) /\ Steady(told, gone)
         /\ gone.pcb = [told.pcb EXCEPT ![p] = FreePcb]
    <3>1. told.pcb[p].state # PS_FREE
      BY <1>2, <2>8 DEF Used
    <3> QED
      BY <2>9, <3>1, CleanupSound
  <2> HIDE DEF gone
  <2>11. z.pcb \in [Pcb -> PcbRecord] /\ gone.pcb \in [Pcb -> PcbRecord]
    BY <1>3, <2>10, KernelFields DEF Sound
  <2>12. gone.pcb[p] = FreePcb /\ \A c \in Pcb \ {p} : gone.pcb[c] = z.pcb[c]
    BY <1>1, <2>8, <2>10, <2>11
  <2>13. Tree(gone.pcb, n, {})
    <3>1. \A c \in Pcb \ {p} :
            /\ gone.pcb[c].pid = z.pcb[c].pid /\ gone.pcb[c].ppid = z.pcb[c].ppid
            /\ gone.pcb[c].state = z.pcb[c].state
            /\ \/ gone.pcb[c].children >= z.pcb[c].children
               \/ z.pcb[p].ppid = z.pcb[c].pid /\ gone.pcb[c].children = z.pcb[c].children - 1
      <4>1. \A c \in Pcb : z.pcb[c].children >= z.pcb[c].children
        BY <2>11, PcbFields
      <4> QED
        BY <2>12, <4>1
    <3>2. Tree(gone.pcb, n, {p} \ {p})
      BY <1>1, <1>2, <2>2, <2>11, <2>12, <3>1, TreeFree
    <3> QED
      BY <3>2
  <2>14. gone.pcb[parent].state = PS_WAITING /\ gone.pcb[parent] \in PcbRecord
    BY <1>7, <1>10, <2>2, <2>11, <2>12
  <2>15. /\ Sound(k2, ((out \cup {parent}) \ {p}) \ {parent})
         /\ Scheduled(gone, k2, parent)
    <3>1. parent \in (out \cup {parent}) \ {p} /\ gone.pcb[parent].state # PS_FREE
      BY <2>2, <2>14 DEF PS_WAITING, PS_FREE
    <3>2. Sound(gone, (out \cup {parent}) \ {p})
      BY <2>10
    <3> QED
      BY <2>5, <3>1, <3>2, ScheduleSound DEF gone
  <2>16. ((out \cup {parent}) \ {p}) \ {parent} = out \ {p}
    BY <2>2
  <2>18. Alive(gone.pcb, parent)
    BY <2>14 DEF Alive, PS_WAITING, PS_FREE, PS_KILLED, PS_ZOMBIE
  <2>19. Tree(k2.pcb, n, {})
    BY <1>7, <2>13, <2>15, <2>18, TreeReady
  <2>20. k2.pcb[parent].state = PS_READY /\ \A c \in Pcb \ {parent} : k2.pcb[c] = gone.pcb[c]
    BY <2>15 DEF Scheduled
  <2>21. \A c \in out \ {p} : k2.pcb[c].state = k.pcb[c].state
    BY <1>1, <1>2, <2>2, <2>12, <2>20
  <2>17. \A c \in Pcb : k2.pcb[c].state = PS_READY =>
                         k.pcb[c].state \in {PS_READY, PS_WAITING}
    <3>1. FreePcb.state # PS_READY
      BY DEF FreePcb, PS_FREE, PS_READY
    <3> QED
      BY <1>2, <1>7, <1>10, <2>12, <2>20, <3>1
  <2>22. Told(k, k2, p)
    <3>1. z.pcb[p].pid = k.pcb[p].pid /\ z.pcb[p].exitstatus = k.pcb[p].exitstatus
      BY <1>1, <1>2
    <3>2. k2.returned = [k.returned EXCEPT ![parent] =
                           <<E_SUCCESS, k.pcb[p].pid, k.pcb[p].exitstatus>>]
      BY <1>4, <2>4, <2>8, <2>10, <2>15, <3>1 DEF Steady, Scheduled, ButQueues, v
    <3>3. \A c \in Pcb : Used(k2.pcb, c) <=> c # p /\ Used(k.pcb, c)
      <4>1. k2.pcb[p].state = PS_FREE /\ k2.pcb[parent].state # PS_FREE
        BY <1>1, <2>2, <2>12, <2>20 DEF FreePcb, PS_READY, PS_FREE
      <4>2. k.pcb[parent].state # PS_FREE
        BY <1>2, <1>7, <1>10 DEF PS_WAITING, PS_FREE
      <4> QED
        BY <1>2, <2>2, <2>12, <2>20, <4>1, <4>2 DEF Used
    <3>4. k.pcb[parent].pid = k.pcb[p].ppid /\ k.pcb[parent].state = PS_WAITING
      BY <1>1, <1>2, <1>7, <1>10
    <3> QED
      BY <1>7, <2>2, <3>2, <3>3, <3>4 DEF Told
  <2>23. k2.current = k.current /\ k2.next_pid = n /\ k2.now = k.now
    BY <1>4, <2>4, <2>8, <2>10, <2>15 DEF Steady, Scheduled, ButQueues
  <2> QED
    BY <2>15, <2>16, <2>17, <2>19, <2>21, <2>22, <2>23 DEF k2
<1> QED
  BY <1>9, <1>10

-----------------------------------------------------------------------------
(* Where the handlers begin and end.                                       *)

(* A handler that starts at rest.                                          *)
LEMMA EntryRest ==
  ASSUME AtRest(K)
  PROVE  /\ TypeOK /\ panic = NoPanic /\ current \in Pcb
         /\ Sound(Entry, {current}) /\ Tree(pcb, next_pid, {})
         /\ pcb[current].state = PS_RUNNING /\ Alive(pcb, current)
         /\ Entry.pcb = pcb /\ Entry.queue = queue /\ Entry.free_stacks = free_stacks
         /\ Entry.current = current /\ Entry.next_pid = next_pid /\ Entry.now = now
         /\ Entry.returned = Nothing /\ Quiet(Entry)
<1>1. TypeOK
  BY DEF AtRest, Sound, TypeOK
<1>2. /\ K.pcb = pcb /\ K.queue = queue /\ K.free_stacks = free_stacks /\ K.qnodes = qnodes
      /\ K.current = current /\ K.next_pid = next_pid /\ K.panic = panic /\ current \in Pcb
  BY <1>1, KType DEF K
<1>3. Sound(K, {current}) /\ Tree(pcb, next_pid, {}) /\ pcb[current].state = PS_RUNNING
  BY <1>2 DEF AtRest
<1>4. /\ Entry \in KernelState /\ Entry.pcb = pcb /\ Entry.queue = queue
      /\ Entry.free_stacks = free_stacks /\ Entry.next_pid = next_pid /\ Entry.now = now
  BY <1>1, EntryType
<1>5. /\ Entry.qnodes = qnodes /\ Entry.current = current /\ Entry.returned = Nothing
      /\ Entry.panic = panic
  BY DEF Entry, K
<1>6. Sound(Entry, {current})
  BY <1>2, <1>3, <1>4, <1>5, SoundElse
<1>7. panic = NoPanic
  BY <1>2, <1>3 DEF Sound, Halted
<1>8. Alive(pcb, current)
  BY <1>3 DEF Alive, PS_RUNNING, PS_FREE, PS_KILLED, PS_ZOMBIE
<1>9. Quiet(Entry)
  BY <1>4 DEF Quiet, PS_SLEEPING, PS_READY
<1> QED
  BY <1>1, <1>2, <1>3, <1>4, <1>5, <1>6, <1>7, <1>8, <1>9

(* A handler ends in the state that it becomes.                            *)
LEMMA Becoming ==
  ASSUME NEW k \in KernelState, Becomes(k)
  PROVE  K' = k
BY DEF Becomes, K, KernelState

LEMMA EndsIn ==
  ASSUME NEW k, Ended(k), Quiet(k), Becomes(k)
  PROVE  Ends
BY DEF Ends, Ended, AtRest, GaveUp, Sound

LEMMA EndedKeeps ==
  ASSUME NEW k, Ended(k), Becomes(k)
  PROVE  Kept'
<1>1. k \in KernelState
  BY DEF Ended, AtRest, GaveUp, Sound
<1>2. K' = k
  BY <1>1, Becoming
<1>3. AtRest(K') \/ GaveUp(K')
  BY <1>2 DEF Ended
<1> QED
  BY <1>3 DEF Kept

(* A kernel state in order is one in which every qnode is accounted for.   *)
LEMMA SoundCounts ==
  ASSUME NEW k, NEW out, Sound(k, out)
  PROVE  Counts(k) /\ k \in KernelState
<1>1. k \in KernelState /\ k.qnodes \in Int
  BY KernelFields DEF Sound
<1>2. k.qnodes >= 5
  BY Counted
<1>3. k.qnodes >= 0
  BY <1>1, <1>2
<1> QED
  BY <1>1, <1>3, Counted DEF Counts

(* What is reported is a matter of the values returned and of the PCBs in  *)
(* use.                                                                    *)
LEMMA ReportsSame ==
  ASSUME NEW k, NEW k2, Reports(k), k2.returned = k.returned,
         \A p \in Pcb : Used(k2.pcb, p) <=> Used(k.pcb, p)
  PROVE  Reports(k2)
BY DEF Reports

(* One returned value, or none, and nobody gone, is nothing to report.     *)
LEMMA ReportsNothing ==
  ASSUME NEW k, \A w \in Pcb : Len(k.returned[w]) # 3,
         \A p \in Pcb : Used(pcb, p) => Used(k.pcb, p)
  PROVE  Reports(k)
BY DEF Reports

LEMMA NothingReturned ==
  ASSUME NEW p
  PROVE  /\ Nothing \in [Pcb -> Seq(Int)] /\ \A w \in Pcb : Len(Nothing[w]) # 3
         /\ \A v \in Int : \A w \in Pcb : Len([Nothing EXCEPT ![p] = <<v>>][w]) # 3
<1>1. \A w \in Pcb : Nothing[w] = << >>
  BY DEF Nothing
<1>2. Nothing \in [Pcb -> Seq(Int)]
  BY DEF Nothing
<1> HIDE DEF Nothing
<1>3. \A w \in Pcb : Len(Nothing[w]) # 3
  BY <1>1
<1>4. ASSUME NEW v \in Int, NEW w \in Pcb
      PROVE  Len([Nothing EXCEPT ![p] = <<v>>][w]) # 3
  <2>1. [Nothing EXCEPT ![p] = <<v>>][w] = IF w = p THEN <<v>> ELSE Nothing[w]
    BY <1>2
  <2>2. Len(<<v>>) # 3
    OBVIOUS
  <2> QED
    BY <1>3, <2>1, <2>2
<1> QED
  BY <1>2, <1>3, <1>4

(* RET(_current) = v, in a kernel state at rest or one that is to be.      *)
LEMMA ReturnSound ==
  ASSUME NEW k, NEW out, Sound(k, out), current \in Pcb, NEW v \in Int
  PROVE  LET k2 == Return(k, v) IN
         /\ Sound(k2, out) /\ k2.pcb = k.pcb /\ k2.current = k.current
         /\ k2.next_pid = k.next_pid /\ k2.now = k.now /\ k2.queue = k.queue
         /\ k2.free_stacks = k.free_stacks
         /\ k2.returned = [k.returned EXCEPT ![current] = <<v>>]
<1> DEFINE k2 == Return(k, v)
<1>1. k \in KernelState /\ <<v>> \in Seq(Int)
  BY DEF Sound
<1>2. k2 \in KernelState
  BY <1>1, SetReturned DEF Return
<1>3. /\ k2.pcb = k.pcb /\ k2.current = k.current /\ k2.next_pid = k.next_pid
      /\ k2.now = k.now /\ k2.queue = k.queue /\ k2.free_stacks = k.free_stacks
      /\ k2.qnodes = k.qnodes /\ k2.panic = k.panic
      /\ k2.returned = [k.returned EXCEPT ![current] = <<v>>]
  BY <1>1 DEF Return, KernelState
<1> HIDE DEF k2
<1>4. Sound(k2, out)
  BY <1>2, <1>3, SoundElse
<1> QED
  BY <1>3, <1>4 DEF k2

(* A call that only returns a value.                                       *)
LEMMA ReplyEnds ==
  ASSUME AtRest(K), NEW v \in Int
  PROVE  Ended(Return(Entry, v)) /\ Quiet(Return(Entry, v))
<1> DEFINE k2 == Return(Entry, v)
<1>1. /\ Sound(k2, {current}) /\ k2.pcb = Entry.pcb /\ k2.current = Entry.current
      /\ k2.next_pid = Entry.next_pid /\ k2.now = Entry.now
      /\ k2.returned = [Entry.returned EXCEPT ![current] = <<v>>]
  BY EntryRest, ReturnSound
<1> HIDE DEF k2
<1>2. k2.pcb = pcb /\ k2.current = current /\ k2.next_pid = next_pid
  BY <1>1, EntryRest
<1>3. AtRest(k2)
  BY <1>1, <1>2, EntryRest DEF AtRest
<1>4. \A w \in Pcb : Len(k2.returned[w]) # 3
  <2>1. k2.returned = [Nothing EXCEPT ![current] = <<v>>]
    BY <1>1, EntryRest
  <2> QED
    BY <2>1, NothingReturned, Zenon
<1>5. Reports(k2)
  BY <1>2, <1>4, ReportsNothing
<1>6. Quiet(k2)
  <2>1. k2.now = Entry.now
    BY <1>1
  <2> QED
    BY <1>2, <2>1, EntryRest DEF Quiet
<1> QED
  BY <1>3, <1>5, <1>6 DEF Ended, k2

(* The handler hands the CPU over with no process in hand.                 *)
LEMMA DispatchEnds ==
  ASSUME NEW k, Sound(k, {}), Tree(k.pcb, k.next_pid, {}), Reports(k)
  PROVE  Ended(Dispatch(k)) /\ (Quiet(k) => Quiet(Dispatch(k)))
<1> DEFINE k2 == Dispatch(k)
<1>1. k \in KernelState
  BY DEF Sound
<1>2. CASE k2 = Panic(k, "_dispatch: no ready processes")
  <2>1. /\ k2 \in KernelState /\ k2.panic = "_dispatch: no ready processes"
        /\ k2.qnodes = k.qnodes /\ k2.queue = k.queue /\ k2.free_stacks = k.free_stacks
        /\ k2.pcb = k.pcb /\ k2.returned = k.returned /\ k2.now = k.now
    BY <1>1, <1>2 DEF Panic, KernelState, PanicSite
  <2> HIDE DEF k2
  <2>2. Counts(k)
    BY SoundCounts
  <2>3. Counts(k2)
    BY <2>1, <2>2 DEF Counts
  <2>4. Reports(k2)
    BY <2>1, ReportsSame
  <2>5. Quiet(k) => Quiet(k2)
    BY <2>1 DEF Quiet
  <2> QED
    BY <2>1, <2>3, <2>4, <2>5 DEF Ended, GaveUp, k2
<1>3. CASE Dispatched(k, k2)
  <2> HIDE DEF k2
  <2>1. PICK q \in ReadyId :
          LET next == Head(k.queue[q])
              r    == [k.pcb[next] EXCEPT !.state = PS_RUNNING, !.q_ticks = QUANT_STD]
          IN /\ k.queue[q] # << >> /\ next \in Pcb /\ k.pcb[next].state = PS_READY
             /\ Sound(k2, {next}) /\ k2.current = next /\ r \in PcbRecord
             /\ k2.pcb = [k.pcb EXCEPT ![next] = r]
             /\ k2.queue = [k.queue EXCEPT ![q] = Tail(@)]
             /\ k2.next_pid = k.next_pid /\ k2.now = k.now /\ k2.returned = k.returned
    BY <1>3 DEF Dispatched
  <2> DEFINE next == Head(k.queue[q])
             r    == [k.pcb[next] EXCEPT !.state = PS_RUNNING, !.q_ticks = QUANT_STD]
  <2>2. k.pcb \in [Pcb -> PcbRecord]
    BY <1>1, KernelFields
  <2>3. k.pcb[next] \in PcbRecord
    BY <2>1, <2>2
  <2>4. /\ r.state = PS_RUNNING /\ r.pid = k.pcb[next].pid /\ r.ppid = k.pcb[next].ppid
        /\ r.children = k.pcb[next].children
    BY <2>3 DEF PcbRecord
  <2>5. /\ next \in Pcb /\ k.pcb[next].state = PS_READY
        /\ Sound(k2, {next}) /\ k2.current = next /\ k2.pcb = [k.pcb EXCEPT ![next] = r]
        /\ k2.next_pid = k.next_pid /\ k2.now = k.now /\ k2.returned = k.returned
        /\ r \in PcbRecord
    BY <2>1
  <2> HIDE DEF next, r
  <2>6. k2.pcb[next] = r /\ \A c \in Pcb \ {next} : k2.pcb[c] = k.pcb[c]
    BY <2>2, <2>5
  <2>7. Alive(k.pcb, next)
    BY <2>5 DEF Alive, PS_READY, PS_FREE, PS_KILLED, PS_ZOMBIE
  <2>8. r.children >= k.pcb[next].children
    BY <2>3, <2>4, PcbFields
  <2>9. /\ r.state \notin {PS_FREE, PS_KILLED, PS_ZOMBIE}
        /\ r.state # PS_WAITING
    BY <2>4 DEF PS_RUNNING, PS_FREE, PS_KILLED, PS_ZOMBIE, PS_WAITING
  <2>10. Tree(k2.pcb, k2.next_pid, {})
    BY <2>4, <2>5, <2>7, <2>8, <2>9, TreeSet
  <2>11. \A c \in Pcb : Used(k2.pcb, c) <=> Used(k.pcb, c)
    BY <2>4, <2>5, <2>6 DEF Used, PS_RUNNING, PS_READY, PS_FREE
  <2>12. Reports(k2)
    BY <2>5, <2>11, ReportsSame
  <2>13. AtRest(k2)
    BY <2>4, <2>5, <2>6, <2>10 DEF AtRest
  <2>14. Quiet(k) => Quiet(k2)
    BY <2>4, <2>5, <2>6 DEF Quiet, PS_RUNNING, PS_READY
  <2> QED
    BY <2>12, <2>13, <2>14 DEF Ended, k2
<1> QED
  BY <1>2, <1>3, DispatchSound

(* What _zombify has told of p is what is to be reported.                  *)
LEMMA ToldReports ==
  ASSUME AtRest(K), NEW k, NEW k2, NEW p \in Pcb, Told(k, k2, p), Used(pcb, p),
         \A c \in Pcb : (Used(k.pcb, c) <=> Used(pcb, c)) /\ k.pcb[c].pid = pcb[c].pid,
         k.pcb[p].ppid = pcb[p].ppid, k.pcb[p].exitstatus \in FinalStatus(p),
         k.returned \in [Pcb -> Seq(Int)], \A w \in Pcb : Len(k.returned[w]) # 3
  PROVE  Reports(k2)
<1>1. CASE /\ k2.returned = k.returned
           /\ \A c \in Pcb : Used(k2.pcb, c) <=> Used(k.pcb, c)
  BY <1>1 DEF Reports
<1>2. CASE \E w \in Pcb \ {p} :
             /\ k.pcb[w].pid = k.pcb[p].ppid /\ k.pcb[w].state = PS_WAITING
             /\ k2.returned = [k.returned EXCEPT ![w] =
                                 <<E_SUCCESS, k.pcb[p].pid, k.pcb[p].exitstatus>>]
             /\ \A c \in Pcb : Used(k2.pcb, c) <=> c # p /\ Used(k.pcb, c)
  <2>1. PICK w \in Pcb \ {p} :
             /\ k.pcb[w].pid = k.pcb[p].ppid /\ k.pcb[w].state = PS_WAITING
             /\ k2.returned = [k.returned EXCEPT ![w] =
                                 <<E_SUCCESS, k.pcb[p].pid, k.pcb[p].exitstatus>>]
             /\ \A c \in Pcb : Used(k2.pcb, c) <=> c # p /\ Used(k.pcb, c)
    BY <1>2
  <2> DEFINE v == <<E_SUCCESS, k.pcb[p].pid, k.pcb[p].exitstatus>>
  <2>2. v = <<E_SUCCESS, pcb[p].pid, k.pcb[p].exitstatus>>
    OBVIOUS
  <2>3. k2.returned = [k.returned EXCEPT ![w] = v]
    BY <2>1
  <2> HIDE DEF v
  <2>4. k2.returned[w] = v /\ \A c \in Pcb \ {w} : Len(k2.returned[c]) # 3
    BY <2>3
  <2>5. \E status \in FinalStatus(p) : k2.returned[w] = <<E_SUCCESS, pcb[p].pid, status>>
    BY <2>2, <2>4
  <2>6. pcb[w].pid = pcb[p].ppid
    BY <2>1
  <2>7. ~ Used(k2.pcb, p) /\ \A c \in Pcb \ {p} : Used(pcb, c) => Used(k2.pcb, c)
    BY <2>1
  <2> QED
    BY <2>4, <2>5, <2>6, <2>7 DEF Reports
<1> QED
  BY <1>1, <1>2 DEF Told

-----------------------------------------------------------------------------
(* Each system call and interrupt, begun at rest, ends at rest or gives up,*)
(* and reports whom it has freed.                                          *)

(* A call that only returns a value, as a step.                            *)
LEMMA ReplyStep ==
  ASSUME AtRest(K), NEW v \in Int, Becomes(Return(Entry, v))
  PROVE  Ends
BY ReplyEnds, EndsIn

(* getpid, getppid, gettime, getstatus, write, and the reads that are      *)
(* refused.                                                                *)
LEMMA QueriesReply ==
  ASSUME AtRest(K), \/ GetPid \/ GetPpid \/ GetTime \/ GetStatus \/ Write \/ WriteBadChannel
                    \/ ReadConsoleEmpty \/ ReadBadChannel
  PROVE  \E v \in Int : Becomes(Return(Entry, v))
<1>1. TypeOK
  BY EntryRest
<1>2. me.pid \in Int /\ me.ppid \in Int /\ now \in Int
  BY <1>1, MeType, PcbFields, KType, KernelFields
<1>3. CASE GetPid
  BY <1>2, <1>3 DEF GetPid
<1>4. CASE GetPpid
  BY <1>2, <1>4 DEF GetPpid
<1>5. CASE GetTime
  BY <1>2, <1>5 DEF GetTime
<1>6. CASE GetStatus
  <2>1. PICK pid \in PidArgs :
          LET target == PcbFind(K, pid) IN
          Becomes(Return(Entry, IF target = NoPcb THEN PS_INVALID ELSE pcb[target].state))
    BY <1>6 DEF GetStatus
  <2> DEFINE target == PcbFind(K, pid)
             v == IF target = NoPcb THEN PS_INVALID ELSE pcb[target].state
  <2>2. target # NoPcb => target \in Pcb
    BY PcbFindType
  <2> HIDE DEF target
  <2>3. target # NoPcb => pcb[target].state \in PState
    BY <1>1, <2>2, MeType, PcbFields
  <2>4. v \in Int
    BY <2>3 DEF PState, PS_INVALID, PS_FREE, PS_ZOMBIE
  <2>5. Becomes(Return(Entry, v))
    BY <2>1 DEF target
  <2> HIDE DEF v
  <2> QED
    BY <2>4, <2>5
<1>7. CASE Write
  <2>1. PICK size \in Sizes : Becomes(Return(Entry, size))
    BY <1>7 DEF Write
  <2>2. size \in Int
    BY <2>1, EnvironmentConstants
  <2> QED
    BY <2>1, <2>2
<1>8. CASE WriteBadChannel
  BY <1>8 DEF WriteBadChannel, E_BAD_CHAN
<1>9. CASE ReadConsoleEmpty
  BY <1>9 DEF ReadConsoleEmpty, E_NO_CHAR
<1>10. CASE ReadBadChannel
  BY <1>10 DEF ReadBadChannel, E_BAD_CHAN
<1> QED
  BY <1>3, <1>4, <1>5, <1>6, <1>7, <1>8, <1>9, <1>10

LEMMA QueriesEnd ==
  ASSUME AtRest(K), \/ GetPid \/ GetPpid \/ GetTime \/ GetStatus \/ Write \/ WriteBadChannel
                    \/ ReadConsoleEmpty \/ ReadBadChannel
  PROVE  Ends
BY QueriesReply, ReplyStep

(* exit(status), also in place of a system call with a bad code.           *)
LEMMA ExitEnds ==
  ASSUME AtRest(K), NEW status \in ExitStatuses \cup {EXIT_BAD_CODE}, ExitWith(status)
  PROVE  Ends
<1> DEFINE r     == [pcb[current] EXCEPT !.exitstatus = status, !.state = PS_ZOMBIE]
           dying == [Entry EXCEPT !.pcb[current] = r]
           dead  == Zombify(dying, current)
<1>1. TypeOK /\ current \in Pcb /\ pcb[current] \in PcbRecord
  BY EntryRest, MeType
<1>2. /\ r \in PcbRecord /\ r.state = PS_ZOMBIE /\ r.exitstatus = status
      /\ r.stack = pcb[current].stack /\ r.pid = pcb[current].pid
      /\ r.ppid = pcb[current].ppid /\ r.children = pcb[current].children
  <2>1. status \in Int
    BY EnvironmentConstants DEF EXIT_BAD_CODE
  <2>2. r \in PcbRecord
    BY <1>1, <2>1, States, SetFate
  <2> QED
    BY <1>1, <2>1, <2>2 DEF PcbRecord
<1>3. Becomes(Dispatch(dead))
  BY EntryRest DEF ExitWith
<1> HIDE DEF r
<1>4. Sound(dying, {current}) /\ dying.pcb = [pcb EXCEPT ![current] = r]
  <2>1. /\ Sound(Entry, {current}) /\ current \in {current} /\ Entry.pcb[current].state # PS_FREE
        /\ r.stack = Entry.pcb[current].stack /\ r.state # PS_FREE /\ Entry.pcb = pcb
    BY <1>2, EntryRest DEF PS_RUNNING, PS_FREE, PS_ZOMBIE
  <2> QED
    BY <1>2, <2>1, SoundSet
<1>5. /\ dying.current = current /\ dying.next_pid = next_pid /\ dying.now = now
      /\ dying.returned = Nothing
  <2>1. Entry \in KernelState
    BY EntryRest DEF Sound
  <2> QED
    BY <2>1, EntryRest DEF KernelState
<1> HIDE DEF dying
<1>6. pcb \in [Pcb -> PcbRecord]
  BY <1>1, KType, KernelFields
<1>7. dying.pcb[current] = r /\ \A c \in Pcb \ {current} : dying.pcb[c] = pcb[c]
  BY <1>1, <1>4, <1>6
<1>8. /\ Sound(dead, {current} \ {current}) /\ Tree(dead.pcb, next_pid, {})
      /\ dead.next_pid = next_pid /\ dead.now = dying.now /\ Told(dying, dead, current)
      /\ \A c \in Pcb : dead.pcb[c].state = PS_READY =>
                        dying.pcb[c].state \in {PS_READY, PS_WAITING}
  <2>1. \A c \in Pcb : /\ dying.pcb[c].pid = pcb[c].pid /\ dying.pcb[c].ppid = pcb[c].ppid
                       /\ dying.pcb[c].children = pcb[c].children
                       /\ c # current => dying.pcb[c].state = pcb[c].state
    BY <1>2, <1>7
  <2>2. dying.pcb[current].state \in {PS_KILLED, PS_ZOMBIE}
    BY <1>2, <1>7
  <2>3. Tree(pcb, next_pid, {}) /\ Alive(pcb, current)
    BY EntryRest
  <2>4. \A c \in {current} \ {current} : dying.pcb[c].state # PS_WAITING
    OBVIOUS
  <2> DEFINE hand == {current}
             z    == Zombify(dying, current)
  <2>5. current \in hand /\ Sound(dying, hand) /\ dying.next_pid = next_pid
    BY <1>4, <1>5
  <2>6. \A c \in hand \ {current} : dying.pcb[c].state # PS_WAITING
    BY <2>4
  <2> HIDE DEF hand
  <2>7. /\ Sound(z, hand \ {current}) /\ Tree(z.pcb, next_pid, {})
        /\ z.next_pid = next_pid /\ z.now = dying.now
        /\ \A c \in Pcb : z.pcb[c].state = PS_READY =>
                          dying.pcb[c].state \in {PS_READY, PS_WAITING}
        /\ Told(dying, z, current)
    BY <2>1, <2>2, <2>3, <2>5, <2>6, ZombifySound
  <2> QED
    BY <2>7 DEF hand
<1> HIDE DEF dead
<1>9. Sound(dead, {}) /\ Tree(dead.pcb, dead.next_pid, {})
  BY <1>8
<1>10. Reports(dead)
  <2>1. Used(pcb, current)
    BY EntryRest DEF Used, PS_RUNNING, PS_FREE
  <2>2. \A c \in Pcb : (Used(dying.pcb, c) <=> Used(pcb, c)) /\ dying.pcb[c].pid = pcb[c].pid
    BY <1>2, <1>7, <2>1 DEF Used, PS_ZOMBIE, PS_FREE
  <2>3. dying.pcb[current].ppid = pcb[current].ppid
    BY <1>2, <1>7
  <2>4. dying.pcb[current].exitstatus \in FinalStatus(current)
    BY <1>2, <1>7, EntryRest DEF FinalStatus, Dead, PS_RUNNING, PS_KILLED, PS_ZOMBIE
  <2>5. dying.returned \in [Pcb -> Seq(Int)] /\ \A w \in Pcb : Len(dying.returned[w]) # 3
    BY <1>5, NothingReturned
  <2> QED
    BY <1>1, <1>8, <2>1, <2>2, <2>3, <2>4, <2>5, ToldReports
<1>11. Quiet(dead)
  <2>1. \A c \in Pcb : pcb[c].state = PS_SLEEPING => dead.pcb[c].state # PS_READY
    BY <1>2, <1>7, <1>8 DEF PS_SLEEPING, PS_READY, PS_WAITING, PS_ZOMBIE
  <2> QED
    BY <1>5, <1>8, <2>1 DEF Quiet
<1> QED
  BY <1>3, <1>9, <1>10, <1>11, DispatchEnds, EndsIn

(* kill() of a live process: it is taken from its queue, if it is on one,  *)
(* and zombified; nobody is in hand but the caller, or nobody at all if it *)
(* killed itself.                                                          *)
LEMMA KilledSound ==
  ASSUME AtRest(K), NEW victim \in Pcb, pcb[victim].state \in PS_READY .. PS_BLOCKED
  PROVE  LET k2 == Killed(Entry, victim) IN
         /\ Sound(k2, {current} \ {victim}) /\ Tree(k2.pcb, k2.next_pid, {})
         /\ k2.current = current /\ Reports(k2) /\ Quiet(k2)
         /\ victim # current => k2.pcb[current].state = PS_RUNNING
<1> DEFINE site == "_sys_kill: can't remove victim"
           out  == IF Entry.pcb[victim].state = PS_RUNNING THEN Entry
                   ELSE RemoveOrPanic(Entry, QueueOf(Entry, victim), victim, site)
           hand == {current} \cup {victim}
           r    == [pcb[victim] EXCEPT !.state = PS_KILLED, !.exitstatus = EXIT_KILLED]
           set  == [out EXCEPT !.pcb[victim] = r]
           dead == Return(set, E_SUCCESS)
           k2   == Killed(Entry, victim)
<1>1. TypeOK /\ current \in Pcb /\ pcb[victim] \in PcbRecord /\ pcb \in [Pcb -> PcbRecord]
  BY EntryRest, MeType, KType, KernelFields
<1>2. /\ pcb[victim].state \notin {PS_FREE, PS_NEW, PS_KILLED, PS_ZOMBIE}
      /\ Used(pcb, victim) /\ Alive(pcb, victim)
  BY DEF PS_READY, PS_BLOCKED, PS_FREE, PS_NEW, PS_KILLED, PS_ZOMBIE, Used, Alive
<1>3. /\ r \in PcbRecord /\ r.state = PS_KILLED /\ r.exitstatus = EXIT_KILLED
      /\ r.stack = pcb[victim].stack /\ r.pid = pcb[victim].pid
      /\ r.ppid = pcb[victim].ppid /\ r.children = pcb[victim].children
  <2>1. PS_KILLED \in PState /\ EXIT_KILLED \in Int
    BY States DEF EXIT_KILLED
  <2>2. r \in PcbRecord
    BY <1>1, <2>1, SetFate, Zenon
  <2> QED
    BY <1>1, <2>1, <2>2 DEF PcbRecord
<1> HIDE DEF r
<1>4. /\ Sound(out, hand) /\ out.pcb = pcb /\ out.current = current
      /\ out.next_pid = next_pid /\ out.now = now /\ out.returned = Nothing
  <2>1. CASE victim = current
    <3>1. out = Entry /\ hand = {current}
      BY <2>1, EntryRest
    <3> QED
      BY <3>1, EntryRest
  <2>2. CASE victim # current
    <3>1. victim \in Pcb \ {current} /\ site \in PanicSite /\ Entry \in KernelState
      BY <2>2, EntryRest DEF PanicSite, Sound
    <3>2. pcb[victim].state # PS_RUNNING
      BY <3>1, EntryRest DEF Sound, Placed
    <3>3. QueueOf(Entry, victim) \in QueueId
      BY <3>1, QueueOfType
    <3>4. out = RemoveOrPanic(Entry, QueueOf(Entry, victim), victim, site)
      BY <3>2, EntryRest
    <3> DEFINE q == QueueOf(Entry, victim)
    <3> HIDE DEF site, q
    <3>5. /\ Sound(RemoveOrPanic(Entry, q, victim, site), hand)
          /\ ButQueues(Entry, RemoveOrPanic(Entry, q, victim, site))
      BY <3>1, <3>3, EntryRest, RemoveSound DEF q
    <3>6. Sound(out, hand) /\ ButQueues(Entry, out)
      BY <3>4, <3>5 DEF q
    <3> QED
      BY <3>6, EntryRest DEF ButQueues
  <2> QED
    BY <2>1, <2>2
<1>5. k2 = Zombify(dead, victim)
  <2>1. ~ Halted(out)
    BY <1>4 DEF Sound
  <2>2. Killed(Entry, victim) =
          IF Halted(out) THEN out
          ELSE Zombify(Return([out EXCEPT !.pcb[victim] =
                 [@ EXCEPT !.state = PS_KILLED, !.exitstatus = EXIT_KILLED]], E_SUCCESS), victim)
    BY DEF Killed
  <2>3. set = [out EXCEPT !.pcb[victim] =
                 [@ EXCEPT !.state = PS_KILLED, !.exitstatus = EXIT_KILLED]]
    BY <1>4 DEF r
  <2> QED
    BY <2>1, <2>2, <2>3
<1> HIDE DEF out
<1>6. Sound(set, hand) /\ set.pcb = [pcb EXCEPT ![victim] = r]
  <2>1. /\ victim \in hand /\ out.pcb[victim].state # PS_FREE
        /\ r.stack = out.pcb[victim].stack /\ r.state # PS_FREE
    BY <1>2, <1>3, <1>4 DEF PS_KILLED, PS_FREE
  <2> QED
    BY <1>3, <1>4, <2>1, SoundSet
<1>7. /\ set.current = current /\ set.next_pid = next_pid /\ set.now = now
      /\ set.returned = Nothing
  <2>1. out \in KernelState
    BY <1>4 DEF Sound
  <2> QED
    BY <1>4, <2>1 DEF KernelState
<1> HIDE DEF set
<1>8. /\ Sound(dead, hand) /\ dead.pcb = [pcb EXCEPT ![victim] = r] /\ dead.current = current
      /\ dead.next_pid = next_pid /\ dead.now = now
      /\ dead.returned = [Nothing EXCEPT ![current] = <<E_SUCCESS>>]
  <2>1. E_SUCCESS \in Int
    BY DEF E_SUCCESS
  <2>2. Sound(set, hand) /\ current \in Pcb
    BY <1>1, <1>6
  <2>3. /\ Sound(dead, hand) /\ dead.pcb = set.pcb /\ dead.current = set.current
        /\ dead.next_pid = set.next_pid /\ dead.now = set.now
        /\ dead.returned = [set.returned EXCEPT ![current] = <<E_SUCCESS>>]
    BY <2>1, <2>2, ReturnSound
  <2> QED
    BY <1>6, <1>7, <2>3
<1> HIDE DEF dead, k2
<1>9. dead.pcb[victim] = r /\ \A c \in Pcb \ {victim} : dead.pcb[c] = pcb[c]
  BY <1>1, <1>8
<1>10. /\ Sound(k2, hand \ {victim}) /\ Tree(k2.pcb, next_pid, {}) /\ k2.current = current
       /\ k2.next_pid = next_pid /\ k2.now = now /\ Told(dead, k2, victim)
       /\ \A c \in hand \ {victim} : k2.pcb[c].state = dead.pcb[c].state
       /\ \A c \in Pcb : k2.pcb[c].state = PS_READY =>
                         dead.pcb[c].state \in {PS_READY, PS_WAITING}
  <2>1. \A c \in Pcb : /\ dead.pcb[c].pid = pcb[c].pid /\ dead.pcb[c].ppid = pcb[c].ppid
                       /\ dead.pcb[c].children = pcb[c].children
                       /\ c # victim => dead.pcb[c].state = pcb[c].state
    BY <1>3, <1>9
  <2>2. dead.pcb[victim].state \in {PS_KILLED, PS_ZOMBIE}
    BY <1>3, <1>9
  <2>3. Tree(pcb, next_pid, {}) /\ Alive(pcb, victim)
    BY <1>2, EntryRest
  <2>4. \A c \in hand \ {victim} : dead.pcb[c].state # PS_WAITING
    BY <1>1, <1>9, EntryRest DEF PS_RUNNING, PS_WAITING
  <2>5. victim \in hand /\ Sound(dead, hand) /\ dead.next_pid = next_pid
    BY <1>8
  <2> DEFINE z == Zombify(dead, victim)
  <2> HIDE DEF hand
  <2>6. /\ Sound(z, hand \ {victim}) /\ Tree(z.pcb, next_pid, {})
        /\ z.current = dead.current /\ z.next_pid = next_pid /\ z.now = dead.now
        /\ \A c \in hand \ {victim} : z.pcb[c].state = dead.pcb[c].state
        /\ \A c \in Pcb : z.pcb[c].state = PS_READY =>
                          dead.pcb[c].state \in {PS_READY, PS_WAITING}
        /\ Told(dead, z, victim)
    BY <2>1, <2>2, <2>3, <2>4, <2>5, ZombifySound
  <2> QED
    BY <1>5, <1>8, <2>6
<1>11. hand \ {victim} = {current} \ {victim}
  OBVIOUS
<1>12. victim # current => k2.pcb[current].state = PS_RUNNING
  BY <1>1, <1>9, <1>10, EntryRest
<1>13. Reports(k2)
  <2>1. \A c \in Pcb : (Used(dead.pcb, c) <=> Used(pcb, c)) /\ dead.pcb[c].pid = pcb[c].pid
    BY <1>2, <1>3, <1>9 DEF Used, PS_KILLED, PS_FREE
  <2>2. dead.pcb[victim].ppid = pcb[victim].ppid
    BY <1>3, <1>9
  <2>3. dead.pcb[victim].exitstatus \in FinalStatus(victim)
    BY <1>2, <1>3, <1>9 DEF FinalStatus, Dead
  <2>4. dead.returned \in [Pcb -> Seq(Int)]
    BY <1>8, KernelFields DEF Sound
  <2>5. \A w \in Pcb : Len(dead.returned[w]) # 3
    <3>1. E_SUCCESS \in Int
      BY DEF E_SUCCESS
    <3> QED
      BY <1>8, <3>1, NothingReturned
  <2> QED
    BY <1>2, <1>10, <2>1, <2>2, <2>3, <2>4, <2>5, ToldReports
<1>14. Quiet(k2)
  <2>1. \A c \in Pcb : pcb[c].state = PS_SLEEPING => k2.pcb[c].state # PS_READY
    BY <1>3, <1>9, <1>10 DEF PS_SLEEPING, PS_READY, PS_WAITING, PS_KILLED
  <2> QED
    BY <1>10, <2>1 DEF Quiet
<1> QED
  BY <1>10, <1>11, <1>12, <1>13, <1>14 DEF k2

(* kill() in its four cases.                                               *)
LEMMA KillEnds ==
  ASSUME AtRest(K), Kill
  PROVE  Ends
<1>1. CASE KillNobody
  BY <1>1, ReplyStep DEF KillNobody, E_NO_PROCESS
<1>2. CASE KillDead
  BY <1>2, ReplyStep DEF KillDead, E_SUCCESS
<1>3. CASE KillBadState
  <2> DEFINE k2 == Panic(Entry, "_sys_kill: bad victim state")
  <2>1. Becomes(k2)
    BY <1>3 DEF KillBadState
  <2>2. Counts(Entry) /\ Entry \in KernelState
    BY EntryRest, SoundCounts
  <2>3. /\ k2 \in KernelState /\ k2.panic = "_sys_kill: bad victim state"
        /\ k2.pcb = Entry.pcb /\ k2.queue = Entry.queue /\ k2.qnodes = Entry.qnodes
        /\ k2.free_stacks = Entry.free_stacks /\ k2.returned = Entry.returned
        /\ k2.now = Entry.now
    BY <2>2 DEF Panic, KernelState, PanicSite
  <2> HIDE DEF k2
  <2>4. GaveUp(k2)
    BY <2>2, <2>3 DEF GaveUp, Counts
  <2>5. Reports(k2)
    BY <2>3, EntryRest, NothingReturned, ReportsNothing, ZenonT(60)
  <2>6. Quiet(k2)
    BY <2>3, EntryRest DEF Quiet
  <2> QED
    BY <2>1, <2>4, <2>5, <2>6, EndsIn DEF Ended
<1>4. CASE KillLive
  <2>1. PICK pid \in PidArgs :
          LET victim == PcbFind(K, pid)
              after  == Killed(Entry, victim)
          IN /\ victim # NoPcb
             /\ pcb[victim].state \in PS_READY .. PS_BLOCKED
             /\ Becomes(IF victim = current THEN Dispatch(after) ELSE after)
    BY <1>4 DEF KillLive
  <2> DEFINE victim == PcbFind(K, pid)
             after  == Killed(Entry, victim)
  <2>2. victim \in Pcb
    BY <2>1, PcbFindType
  <2>3. /\ pcb[victim].state \in PS_READY .. PS_BLOCKED
        /\ Becomes(IF victim = current THEN Dispatch(after) ELSE after)
    BY <2>1
  <2> HIDE DEF victim
  <2>4. /\ Sound(after, {current} \ {victim}) /\ Tree(after.pcb, after.next_pid, {})
        /\ after.current = current /\ Reports(after) /\ Quiet(after)
        /\ victim # current => after.pcb[current].state = PS_RUNNING
    BY <2>2, <2>3, KilledSound
  <2> HIDE DEF after
  <2>5. CASE victim = current
    <3>1. Sound(after, {})
      <4>1. {current} \ {victim} = {}
        BY <2>5
      <4> QED
        BY <2>4, <4>1
    <3>2. Becomes(Dispatch(after))
      BY <2>3, <2>5
    <3> QED
      BY <2>4, <3>1, <3>2, DispatchEnds, EndsIn
  <2>6. CASE victim # current
    <3>1. {current} \ {victim} = {current}
      BY <2>6
    <3>2. AtRest(after)
      BY <2>4, <2>6, <3>1 DEF AtRest
    <3>3. Becomes(after)
      BY <2>3, <2>6
    <3> QED
      BY <2>4, <3>2, <3>3, EndsIn DEF Ended
  <2> QED
    BY <2>5, <2>6
<1> QED
  BY <1>1, <1>2, <1>3, <1>4 DEF Kill

(* wait() that finds a child that has exited: the caller, and the child    *)
(* taken from the zombies until it is freed, are in hand.                  *)
LEMMA WaitCollectEnds ==
  ASSUME AtRest(K), WaitCollect
  PROVE  Ends
<1> DEFINE child == Min(Collectable)
           site  == "_sys_wait: can't deque zombie"
           out   == RemoveOrPanic(Entry, "zombie", child, site)
           r     == [pcb[current] EXCEPT !.children = me.children - 1]
           v     == <<E_SUCCESS, pcb[child].pid, pcb[child].exitstatus>>
           set   == [out EXCEPT !.pcb[current] = r]
           told  == [set EXCEPT !.returned[current] = v]
           k2    == PcbCleanup(told, child)
           hand  == {current} \cup {child}
<1>1. /\ TypeOK /\ current \in Pcb /\ pcb[current] \in PcbRecord
      /\ pcb \in [Pcb -> PcbRecord] /\ Entry \in KernelState
  BY EntryRest, MeType, KType, KernelFields DEF Sound
<1>2. child \in Pcb /\ pcb[child].ppid = pcb[current].pid /\ pcb[child].state = PS_ZOMBIE
  <2>1. Collectable \in SUBSET Nat /\ Collectable \subseteq Pcb
    BY DEF Collectable, ChildrenOf, Pcb
  <2>2. Collectable # {}
    BY DEF WaitCollect
  <2>3. child \in Collectable
    BY <2>1, <2>2, MinNat
  <2>4. \A c \in Collectable : pcb[c].ppid = pcb[current].pid /\ pcb[c].state = PS_ZOMBIE
    BY <1>1, KType DEF Collectable, ChildrenOf, me
  <2> HIDE DEF child
  <2> QED
    BY <2>1, <2>3, <2>4
<1>3. /\ pcb[current].children # 0
      /\ Becomes(IF Halted(out) THEN out
                 ELSE PcbCleanup([out EXCEPT !.pcb[current] =
                                    [@ EXCEPT !.children = me.children - 1],
                                  !.returned[current] = v], child))
  BY DEF WaitCollect, me
<1> HIDE DEF child, site
<1>4. child # current /\ child # InitPcb /\ Used(pcb, child) /\ ~ Alive(pcb, child)
  <2>1. child # current
    BY <1>2, EntryRest DEF PS_RUNNING, PS_ZOMBIE
  <2>2. Used(pcb, child) /\ ~ Alive(pcb, child) /\ Used(pcb, current)
    BY <1>2, EntryRest DEF Used, Alive, PS_RUNNING, PS_ZOMBIE, PS_FREE
  <2>3. child # InitPcb
    <3>1. pcb[InitPcb].pid = pcb[InitPcb].ppid /\ InitPcb \in Pcb
      BY EntryRest, Numbers DEF Tree, Rooted
    <3>2. \A p, c \in Pcb : Used(pcb, p) /\ Used(pcb, c) /\ pcb[p].pid = pcb[c].pid => p = c
      BY EntryRest DEF Tree, Numbered
    <3> QED
      BY <1>1, <1>2, <2>1, <2>2, <3>1, <3>2
  <2> QED
    BY <2>1, <2>2, <2>3
<1>5. Sound(out, hand) /\ ButQueues(Entry, out)
  <2>1. site \in PanicSite /\ "zombie" \in QueueId
    BY DEF site, PanicSite, QueueId
  <2>2. QueueOf(Entry, child) = "zombie"
    BY <1>1, <1>2, EntryRest, QueueOfState
  <2>3. Sound(Entry, {current}) /\ child \in Pcb \ {current}
    BY <1>2, <1>4, EntryRest
  <2> DEFINE o == RemoveOrPanic(Entry, "zombie", child, site)
  <2>4. Sound(o, {current} \cup {child}) /\ ButQueues(Entry, o)
    BY <2>1, <2>2, <2>3, RemoveSound
  <2> QED
    BY <2>4
<1>6. /\ out \in KernelState /\ ~ Halted(out) /\ out.pcb = pcb /\ out.current = current
      /\ out.next_pid = next_pid /\ out.now = now /\ out.returned = Nothing
  BY <1>5, EntryRest DEF ButQueues, Sound
<1> HIDE DEF out
<1>7. /\ r \in PcbRecord /\ r.stack = pcb[current].stack /\ r.state = PS_RUNNING
      /\ r.pid = pcb[current].pid /\ r.ppid = pcb[current].ppid
      /\ r.children = pcb[current].children - 1
  <2>1. me = pcb[current] /\ me.children - 1 \in Nat /\ me.ppid \in 0 .. PID_NONE
    BY <1>1, <1>3, PcbFields DEF me
  <2>2. r \in PcbRecord
    BY <1>1, <2>1, SetFamily, Zenon
  <2> QED
    BY <1>1, <2>1, <2>2, EntryRest DEF PcbRecord
<1>8. Becomes(k2)
  <2>1. told = [out EXCEPT !.pcb[current] = [@ EXCEPT !.children = me.children - 1],
                           !.returned[current] = v]
    BY <1>6
  <2> QED
    BY <1>3, <1>6, <2>1
<1> HIDE DEF r
<1>9. v \in Seq(Int)
  <2>1. pcb[child].pid \in Int /\ pcb[child].exitstatus \in Int
    BY <1>1, <1>2, MeType, PcbFields
  <2> QED
    BY <2>1 DEF E_SUCCESS
<1>10. Sound(set, hand) /\ set.pcb = [pcb EXCEPT ![current] = r]
  <2>1. /\ current \in hand /\ out.pcb[current].state # PS_FREE
        /\ r.stack = out.pcb[current].stack /\ r.state # PS_FREE
    BY <1>6, <1>7, EntryRest DEF PS_RUNNING, PS_FREE
  <2> QED
    BY <1>5, <1>6, <1>7, <2>1, SoundSet
<1>11. /\ set.current = current /\ set.next_pid = next_pid /\ set.now = now
       /\ set.returned = Nothing /\ set \in KernelState
  BY <1>6, <1>10 DEF KernelState, Sound
<1> HIDE DEF set
<1>12. /\ told \in KernelState /\ told.pcb = set.pcb /\ told.queue = set.queue
       /\ told.free_stacks = set.free_stacks /\ told.qnodes = set.qnodes
       /\ told.panic = set.panic /\ told.current = current /\ told.next_pid = next_pid
       /\ told.now = now /\ told.returned = [Nothing EXCEPT ![current] = v]
  <2>1. told \in KernelState
    BY <1>1, <1>9, <1>11, SetReturned
  <2> QED
    BY <1>11, <2>1 DEF KernelState
<1> HIDE DEF told
<1>13. Sound(told, hand)
  BY <1>10, <1>12, SoundElse
<1>14. /\ Sound(k2, hand \ {child}) /\ Steady(told, k2)
       /\ k2.pcb = [told.pcb EXCEPT ![child] = FreePcb]
  <2>1. child \in hand /\ told.pcb[child].state # PS_FREE
    BY <1>1, <1>2, <1>4, <1>10, <1>12 DEF PS_ZOMBIE, PS_FREE
  <2> QED
    BY <1>13, <2>1, CleanupSound
<1>15. /\ Sound(k2, {current}) /\ k2.current = current /\ k2.next_pid = next_pid
       /\ k2.now = now /\ k2.returned = [Nothing EXCEPT ![current] = v]
  <2>1. hand \ {child} = {current}
    BY <1>4
  <2> QED
    BY <1>12, <1>14, <2>1 DEF Steady
<1> HIDE DEF k2, hand
<1>16. k2.pcb \in [Pcb -> PcbRecord]
  BY <1>15, KernelFields DEF Sound
<1>17. /\ k2.pcb[child] = FreePcb /\ k2.pcb[current] = r
       /\ \A c \in Pcb \ {child, current} : k2.pcb[c] = pcb[c]
  BY <1>1, <1>2, <1>4, <1>10, <1>12, <1>14, <1>16
<1>18. Tree(k2.pcb, k2.next_pid, {})
  <2>1. \A c \in Pcb \ {child} :
          /\ k2.pcb[c].pid = pcb[c].pid /\ k2.pcb[c].ppid = pcb[c].ppid
          /\ k2.pcb[c].state = pcb[c].state
          /\ \/ k2.pcb[c].children >= pcb[c].children
             \/ /\ pcb[child].ppid = pcb[c].pid
                /\ k2.pcb[c].children = pcb[c].children - 1
    <3>1. \A c \in Pcb : pcb[c].children >= pcb[c].children
      BY <1>1, PcbFields
    <3> QED
      BY <1>2, <1>7, <1>17, <3>1, EntryRest
  <2>2. Tree(pcb, next_pid, {}) /\ child \in Pcb \ {InitPcb}
    BY <1>2, <1>4, EntryRest
  <2>3. Tree(k2.pcb, next_pid, {} \ {child})
    BY <1>4, <1>16, <1>17, <2>1, <2>2, TreeFree
  <2>4. {} \ {child} = {}
    OBVIOUS
  <2> QED
    BY <1>15, <2>3, <2>4
<1>19. Reports(k2)
  <2>1. k2.returned[current] = v /\ \A c \in Pcb \ {current} : Len(k2.returned[c]) # 3
    BY <1>1, <1>15, NothingReturned
  <2>2. v = <<E_SUCCESS, pcb[child].pid, pcb[child].exitstatus>>
    OBVIOUS
  <2>3. pcb[child].exitstatus \in FinalStatus(child)
    BY <1>2 DEF FinalStatus, Dead
  <2>4. \E status \in FinalStatus(child) :
          k2.returned[current] = <<E_SUCCESS, pcb[child].pid, status>>
    BY <2>1, <2>2, <2>3
  <2>5. ~ Used(k2.pcb, child) /\ \A c \in Pcb \ {child} : Used(pcb, c) => Used(k2.pcb, c)
    BY <1>7, <1>17 DEF Used, FreePcb, PS_RUNNING, PS_FREE
  <2>6. pcb[current].pid = pcb[child].ppid
    BY <1>2
  <2> QED
    BY <1>1, <1>2, <1>4, <2>1, <2>4, <2>5, <2>6 DEF Reports
<1>20. Quiet(k2)
  <2>1. \A c \in Pcb : pcb[c].state = PS_SLEEPING => k2.pcb[c].state # PS_READY
    BY <1>7, <1>17 DEF PS_SLEEPING, PS_READY, PS_RUNNING, FreePcb, PS_FREE
  <2> QED
    BY <1>15, <2>1 DEF Quiet
<1>21. AtRest(k2)
  BY <1>7, <1>15, <1>17, <1>18 DEF AtRest
<1> QED
  BY <1>8, <1>19, <1>20, <1>21, EndsIn DEF Ended

(* A live process given another state, and nobody else touched, leaves the *)
(* tree and what is to be reported as they were.                           *)
LEMMA ChangeState ==
  ASSUME AtRest(K), NEW k, NEW p \in Pcb, Alive(pcb, p), k.next_pid = next_pid,
         NEW r \in PcbRecord, k.pcb = [pcb EXCEPT ![p] = r],
         r.pid = pcb[p].pid, r.ppid = pcb[p].ppid, r.children = pcb[p].children,
         r.state \notin {PS_FREE, PS_KILLED, PS_ZOMBIE},
         r.state = PS_WAITING => NoneExited(pcb, p, {}),
         k.returned = Nothing
  PROVE  /\ Tree(k.pcb, k.next_pid, {}) /\ Reports(k)
         /\ k.pcb[p] = r /\ \A c \in Pcb \ {p} : k.pcb[c] = pcb[c]
<1>1. pcb \in [Pcb -> PcbRecord] /\ Tree(pcb, next_pid, {})
  BY EntryRest, KType, KernelFields
<1>2. r.children >= pcb[p].children
  BY PcbFields
<1>3. Tree([pcb EXCEPT ![p] = r], next_pid, {})
  BY <1>1, <1>2, TreeSet
<1>4. k.pcb[p] = r /\ \A c \in Pcb \ {p} : k.pcb[c] = pcb[c]
  BY <1>1
<1>5. \A c \in Pcb : Used(pcb, c) => Used(k.pcb, c)
  BY <1>4 DEF Used
<1>6. Reports(k)
  BY <1>5, NothingReturned, ReportsNothing
<1> QED
  BY <1>3, <1>4, <1>6

(* The caller of wait(), sleep() or read() is put on the queue of its new  *)
(* state, and the CPU handed over.  Fresh(k) says that the call has done   *)
(* nothing yet but take input.                                             *)
Fresh(k) ==
  /\ Sound(k, {current}) /\ k.pcb = pcb /\ k.current = current
  /\ k.next_pid = next_pid /\ k.now = now /\ k.returned = Nothing

LEMMA BlockEnds ==
  ASSUME AtRest(K), NEW k, Fresh(k), NEW r \in PcbRecord, NEW q, NEW site,
         r.pid = pcb[current].pid, r.ppid = pcb[current].ppid,
         r.children = pcb[current].children, r.stack = pcb[current].stack,
         \/ r.state = PS_WAITING /\ q = "waiting" /\ NoneExited(pcb, current, {})
         \/ r.state = PS_SLEEPING /\ q = "sleeping"
         \/ r.state = PS_BLOCKED /\ q = "reading"
  PROVE  LET set == [k EXCEPT !.pcb[current] = r]
             k2  == EnqueOrPanic(set, q, current, site)
         IN k2 = Enque(set, q, current) /\ Ended(Dispatch(k2)) /\ Quiet(Dispatch(k2))
<1> DEFINE set  == [k EXCEPT !.pcb[current] = r]
           k2   == EnqueOrPanic(set, q, current, site)
           hand == {current}
<1>1. current \in Pcb /\ Alive(pcb, current) /\ pcb[current].state = PS_RUNNING
  BY EntryRest
<1>2. /\ r.state \notin {PS_FREE, PS_KILLED, PS_ZOMBIE, PS_RUNNING, PS_READY}
      /\ r.state = PS_WAITING => NoneExited(pcb, current, {})
      /\ q \in QueueId
  BY DEF PS_WAITING, PS_SLEEPING, PS_BLOCKED, PS_FREE, PS_KILLED, PS_ZOMBIE, PS_RUNNING,
     PS_READY, QueueId
<1>3. Sound(set, {current}) /\ set.pcb = [pcb EXCEPT ![current] = r]
  <2>1. /\ current \in {current} /\ k.pcb[current].state # PS_FREE
        /\ r.stack = k.pcb[current].stack /\ r.state # PS_FREE /\ Sound(k, {current})
    BY <1>1, <1>2 DEF Fresh, PS_RUNNING, PS_FREE
  <2>2. k.pcb = pcb
    BY DEF Fresh
  <2> QED
    BY <2>1, <2>2, SoundSet
<1>4. /\ set.next_pid = next_pid /\ set.now = now /\ set.returned = Nothing
      /\ set \in KernelState
  <2>1. k \in KernelState /\ set \in KernelState
    BY <1>3 DEF Fresh, Sound
  <2> QED
    BY <2>1 DEF Fresh, KernelState
<1> HIDE DEF set
<1>5. /\ Tree(set.pcb, set.next_pid, {}) /\ Reports(set)
      /\ set.pcb[current] = r /\ \A c \in Pcb \ {current} : set.pcb[c] = pcb[c]
  BY <1>1, <1>2, <1>3, <1>4, ChangeState, ZenonT(60)
<1>6. QueueOf(set, current) = q
  BY <1>1, <1>4, <1>5, QueueOfState
<1>7. /\ k2 = Enque(set, q, current) /\ Sound(k2, hand \ {current}) /\ ButQueues(set, k2)
  <2>1. Sound(set, hand) /\ current \in hand /\ set.pcb[current].state # PS_RUNNING
    BY <1>2, <1>3, <1>5
  <2> HIDE DEF hand
  <2> QED
    BY <1>2, <1>6, <2>1, EnqueOrPanicSound
<1> HIDE DEF k2
<1>8. Sound(k2, {})
  <2>1. hand \ {current} = {}
    OBVIOUS
  <2> QED
    BY <1>7, <2>1
<1>9. Tree(k2.pcb, k2.next_pid, {}) /\ Reports(k2)
  <2>1. k2.pcb = set.pcb /\ k2.next_pid = set.next_pid /\ k2.returned = set.returned
    BY <1>7 DEF ButQueues
  <2> QED
    BY <1>5, <2>1, ReportsSame
<1>10. Quiet(k2)
  <2>1. \A c \in Pcb : pcb[c].state = PS_SLEEPING => k2.pcb[c].state # PS_READY
    BY <1>2, <1>5, <1>7 DEF ButQueues, PS_SLEEPING, PS_READY
  <2> QED
    BY <1>4, <1>7, <2>1 DEF Quiet, ButQueues
<1>11. Ended(Dispatch(k2)) /\ Quiet(Dispatch(k2))
  BY <1>8, <1>9, <1>10, DispatchEnds
<1> QED
  BY <1>7, <1>11 DEF set, k2

LEMMA EntryFresh ==
  ASSUME AtRest(K)
  PROVE  Fresh(Entry)
BY EntryRest DEF Fresh

(* wait(), in its three cases.                                             *)
LEMMA WaitEnds ==
  ASSUME AtRest(K), Wait
  PROVE  Ends
<1>1. CASE WaitNoChild
  BY <1>1, ReplyStep DEF WaitNoChild, E_NO_CHILD
<1>2. CASE WaitCollect
  BY <1>2, WaitCollectEnds
<1>3. CASE WaitBlock
  <2> DEFINE r    == [pcb[current] EXCEPT !.state = PS_WAITING]
             site == "_sys_wait: can't enque waiting parent"
             set  == [Entry EXCEPT !.pcb[current] = r]
             k2   == EnqueOrPanic(set, "waiting", current, site)
  <2>1. TypeOK /\ current \in Pcb /\ pcb[current] \in PcbRecord
    BY EntryRest, MeType
  <2>2. Becomes(Dispatch(k2))
    BY <1>3, EntryRest DEF WaitBlock
  <2>3. r \in PcbRecord
    BY <2>1, States, SetState
  <2>4. /\ r.state = PS_WAITING /\ r.pid = pcb[current].pid /\ r.ppid = pcb[current].ppid
        /\ r.children = pcb[current].children /\ r.stack = pcb[current].stack
    BY <2>1 DEF PcbRecord
  <2>5. NoneExited(pcb, current, {})
    <3>1. Collectable = {}
      BY <1>3 DEF WaitBlock
    <3> QED
      BY <2>1, <3>1, KType DEF Collectable, ChildrenOf, me, NoneExited
  <2> HIDE DEF r, site
  <2>6. Ended(Dispatch(k2)) /\ Quiet(Dispatch(k2))
    BY <2>3, <2>4, <2>5, EntryFresh, BlockEnds
  <2> HIDE DEF k2
  <2> QED
    BY <2>2, <2>6, EndsIn
<1> QED
  BY <1>1, <1>2, <1>3 DEF Wait

(* exec() and the keyboard interrupt.                                      *)
LEMMA ExecEnds ==
  ASSUME AtRest(K), Exec
  PROVE  Ends
<1>1. PICK prio \in ExecPrios :
        Becomes([Entry EXCEPT !.pcb[current] = [@ EXCEPT !.prio = prio]])
  BY DEF Exec
<1> DEFINE r  == [pcb[current] EXCEPT !.prio = prio]
           k2 == [Entry EXCEPT !.pcb[current] = r]
<1>2. /\ TypeOK /\ current \in Pcb /\ pcb[current] \in PcbRecord /\ prio \in Nat
      /\ Alive(pcb, current)
  BY EntryRest, MeType, EnvironmentConstants
<1>3. /\ r \in PcbRecord /\ r.state = PS_RUNNING /\ r.pid = pcb[current].pid
      /\ r.ppid = pcb[current].ppid /\ r.children = pcb[current].children
      /\ r.stack = pcb[current].stack
  <2>1. r \in PcbRecord
    BY <1>2, States, SetPrioState
  <2> QED
    BY <1>2, <2>1, EntryRest DEF PcbRecord
<1>4. Becomes(k2)
  BY <1>1, EntryRest
<1> HIDE DEF r
<1>5. Sound(k2, {current}) /\ k2.pcb = [pcb EXCEPT ![current] = r]
  <2>1. /\ Sound(Entry, {current}) /\ current \in {current} /\ Entry.pcb[current].state # PS_FREE
        /\ r.stack = Entry.pcb[current].stack /\ r.state # PS_FREE /\ Entry.pcb = pcb
    BY <1>3, EntryRest DEF PS_RUNNING, PS_FREE
  <2> QED
    BY <1>3, <2>1, SoundSet
<1>6. /\ k2.current = current /\ k2.next_pid = next_pid /\ k2.now = now
      /\ k2.returned = Nothing
  <2>1. Entry \in KernelState
    BY EntryRest DEF Sound
  <2> QED
    BY <2>1, EntryRest DEF KernelState
<1> HIDE DEF k2
<1>7. /\ r.state \notin {PS_FREE, PS_KILLED, PS_ZOMBIE} /\ r.state # PS_READY
      /\ r.state = PS_WAITING => NoneExited(pcb, current, {})
  BY <1>3 DEF PS_RUNNING, PS_FREE, PS_KILLED, PS_ZOMBIE, PS_WAITING, PS_READY
<1>8. /\ Tree(k2.pcb, k2.next_pid, {}) /\ Reports(k2)
      /\ k2.pcb[current] = r /\ \A c \in Pcb \ {current} : k2.pcb[c] = pcb[c]
  BY <1>2, <1>3, <1>5, <1>6, <1>7, ChangeState, ZenonT(60)
<1>9. AtRest(k2)
  BY <1>3, <1>5, <1>6, <1>8 DEF AtRest
<1>10. Quiet(k2)
  <2>1. \A c \in Pcb : pcb[c].state = PS_SLEEPING => k2.pcb[c].state # PS_READY
    BY <1>7, <1>8 DEF PS_SLEEPING, PS_READY
  <2> QED
    BY <1>6, <2>1 DEF Quiet
<1> QED
  BY <1>4, <1>8, <1>9, <1>10, EndsIn DEF Ended

(* A handler that has done nothing but take or store input has ended well. *)
LEMMA FreshEnds ==
  ASSUME AtRest(K), NEW k, Fresh(k)
  PROVE  Ended(k) /\ Quiet(k)
<1>1. AtRest(k)
  BY EntryRest DEF Fresh, AtRest
<1>2. Reports(k)
  BY NothingReturned, ReportsNothing DEF Fresh
<1>3. Quiet(k)
  BY DEF Fresh, Quiet, PS_SLEEPING, PS_READY
<1> QED
  BY <1>1, <1>2, <1>3 DEF Ended

(* Storing or taking characters changes nothing else.                      *)
LEMMA InputFresh ==
  ASSUME AtRest(K), NEW i \in 0 .. BUF_SIZE, NEW c \in 0 .. C_BUFSIZE - 1
  PROVE  /\ Fresh([Entry EXCEPT !.incount = i]) /\ Fresh([Entry EXCEPT !.console = c])
<1>1. Entry \in KernelState /\ Fresh(Entry)
  BY EntryFresh DEF Fresh, Sound
<1> DEFINE k1 == [Entry EXCEPT !.incount = i]
           k2 == [Entry EXCEPT !.console = c]
<1>2. /\ k1 \in KernelState /\ k1.pcb = Entry.pcb /\ k1.queue = Entry.queue
      /\ k1.free_stacks = Entry.free_stacks /\ k1.qnodes = Entry.qnodes
      /\ k1.panic = Entry.panic /\ k1.current = Entry.current
      /\ k1.next_pid = Entry.next_pid /\ k1.now = Entry.now /\ k1.returned = Entry.returned
  BY <1>1 DEF KernelState
<1>3. /\ k2 \in KernelState /\ k2.pcb = Entry.pcb /\ k2.queue = Entry.queue
      /\ k2.free_stacks = Entry.free_stacks /\ k2.qnodes = Entry.qnodes
      /\ k2.panic = Entry.panic /\ k2.current = Entry.current
      /\ k2.next_pid = Entry.next_pid /\ k2.now = Entry.now /\ k2.returned = Entry.returned
  BY <1>1 DEF KernelState
<1> HIDE DEF k1, k2
<1>4. Sound(k1, {current}) /\ Sound(k2, {current})
  <2>1. Sound(Entry, {current})
    BY EntryRest
  <2>2. Sound(k1, {current})
    BY <1>2, <2>1, SoundElse
  <2>3. Sound(k2, {current})
    BY <1>3, <2>1, SoundElse
  <2> QED
    BY <2>2, <2>3
<1> QED
  BY <1>1, <1>2, <1>3, <1>4 DEF Fresh, k1, k2

(* A read that found n characters, or blocks the caller, or finds no qnode *)
(* to block it with, which does not happen.                                *)
LEMMA FinishReadEnds ==
  ASSUME AtRest(K), NEW k, Fresh(k), NEW n \in Nat, Becomes(FinishRead(k, n))
  PROVE  Ends
<1>1. /\ TypeOK /\ current \in Pcb /\ pcb[current] \in PcbRecord /\ k \in KernelState
  BY EntryRest, MeType DEF Fresh, Sound
<1>2. CASE n > 0
  <2> DEFINE k2 == Return(k, n)
  <2>1. Becomes(k2)
    BY <1>2 DEF FinishRead
  <2>2. /\ Sound(k2, {current}) /\ k2.pcb = k.pcb /\ k2.current = k.current
        /\ k2.next_pid = k.next_pid /\ k2.now = k.now
        /\ k2.returned = [k.returned EXCEPT ![current] = <<n>>]
    <3>1. Sound(k, {current}) /\ n \in Int
      BY DEF Fresh
    <3> QED
      BY <1>1, <3>1, ReturnSound
  <2> HIDE DEF k2
  <2>3. AtRest(k2)
    BY <2>2, EntryRest DEF Fresh, AtRest
  <2>4. Reports(k2)
    <3>1. \A w \in Pcb : Len(k2.returned[w]) # 3
      <4>1. k2.returned = [Nothing EXCEPT ![current] = <<n>>] /\ n \in Int
        BY <2>2 DEF Fresh
      <4> QED
        BY <4>1, NothingReturned, Zenon
    <3>2. k2.pcb = pcb
      BY <2>2 DEF Fresh
    <3> QED
      BY <3>1, <3>2, ReportsNothing
  <2>5. Quiet(k2)
    BY <2>2 DEF Quiet, Fresh, PS_SLEEPING, PS_READY
  <2> QED
    BY <2>1, <2>3, <2>4, <2>5, EndsIn DEF Ended
<1>3. CASE ~ (n > 0)
  <2> DEFINE r    == [pcb[current] EXCEPT !.state = PS_BLOCKED]
             set  == [k EXCEPT !.pcb[current] = r]
             k2   == Enque(set, "reading", current)
  <2>1. k.qnodes # 0
    <3>1. k.qnodes >= 5
      BY Counted DEF Fresh
    <3> QED
      BY <3>1
  <2>2. Becomes(Dispatch([Enque(k, "reading", current) EXCEPT
                            !.pcb[current] = [@ EXCEPT !.state = PS_BLOCKED]]))
    BY <1>3, <2>1 DEF FinishRead
  <2>3. r \in PcbRecord
    BY <1>1, States, SetState
  <2>4. /\ r.state = PS_BLOCKED /\ r.pid = pcb[current].pid /\ r.ppid = pcb[current].ppid
        /\ r.children = pcb[current].children /\ r.stack = pcb[current].stack
    BY <1>1 DEF PcbRecord
  <2>5. k2 = [Enque(k, "reading", current) EXCEPT
                !.pcb[current] = [@ EXCEPT !.state = PS_BLOCKED]]
    <3>1. k.pcb = pcb
      BY DEF Fresh
    <3>2. Enque(k, "reading", current) =
            [k EXCEPT !.queue["reading"] = Append(@, current), !.qnodes = @ - 1]
      BY DEF Enque
    <3>3. k2 = [set EXCEPT !.queue["reading"] = Append(@, current), !.qnodes = @ - 1]
      BY DEF Enque
    <3> QED
      BY <1>1, <3>1, <3>2, <3>3 DEF KernelState
  <2> HIDE DEF r
  <2> DEFINE site == "_sys_read: can't enque reader"
  <2>6. /\ EnqueOrPanic(set, "reading", current, site) = k2
        /\ Ended(Dispatch(EnqueOrPanic(set, "reading", current, site)))
        /\ Quiet(Dispatch(EnqueOrPanic(set, "reading", current, site)))
    BY <2>3, <2>4, BlockEnds
  <2> HIDE DEF k2
  <2>7. Becomes(Dispatch(k2)) /\ Ended(Dispatch(k2)) /\ Quiet(Dispatch(k2))
    BY <2>2, <2>5, <2>6
  <2> QED
    BY <2>7, EndsIn
<1> QED
  BY <1>2, <1>3

(* read() from the console and from the serial line.                       *)
LEMMA ReadsEnd ==
  ASSUME AtRest(K), ReadConsole \/ ReadSio
  PROVE  Ends
<1>1. /\ Entry.console \in 0 .. C_BUFSIZE - 1 /\ Entry.incount \in 0 .. BUF_SIZE
      /\ Entry.incount = incount
  BY EntryRest, EntryType, KernelFields
<1>2. CASE ReadConsole
  <2>1. PICK size \in Sizes : \E line \in Gets(size) :
          Becomes(FinishRead([Entry EXCEPT !.console =
                                IF line.used > @ THEN 0 ELSE @ - line.used], line.n))
    BY <1>2 DEF ReadConsole
  <2>2. PICK line \in Gets(size) :
          Becomes(FinishRead([Entry EXCEPT !.console =
                                IF line.used > @ THEN 0 ELSE @ - line.used], line.n))
    BY <2>1
  <2> DEFINE c == IF line.used > Entry.console THEN 0 ELSE Entry.console - line.used
  <2>3. size \in Nat
    BY EnvironmentConstants
  <2>4. line.n \in Nat /\ line.used \in Nat
    BY <2>2, <2>3 DEF Gets
  <2>5. c \in 0 .. C_BUFSIZE - 1
    BY <1>1, <2>4, KernelConstants
  <2>6. Becomes(FinishRead([Entry EXCEPT !.console = c], line.n))
    BY <2>2
  <2> HIDE DEF c
  <2>7. Fresh([Entry EXCEPT !.console = c])
    BY <1>1, <2>5, InputFresh
  <2> QED
    BY <2>4, <2>6, <2>7, FinishReadEnds
<1>3. CASE ReadSio
  <2>1. PICK size \in Sizes :
          LET n == IF size < incount THEN size ELSE incount
          IN Becomes(FinishRead([Entry EXCEPT !.incount = @ - n], n))
    BY <1>3 DEF ReadSio
  <2> DEFINE n == IF size < incount THEN size ELSE incount
             i == Entry.incount - n
  <2>2. n \in Nat /\ i \in 0 .. BUF_SIZE
    BY <1>1, EnvironmentConstants, KernelConstants
  <2>3. Becomes(FinishRead([Entry EXCEPT !.incount = i], n))
    BY <2>1
  <2> HIDE DEF n, i
  <2>4. Fresh([Entry EXCEPT !.incount = i])
    BY <1>1, <2>2, InputFresh
  <2> QED
    BY <2>2, <2>3, <2>4, FinishReadEnds
<1> QED
  BY <1>2, <1>3

(* sleep(): the caller sleeps, or yields the CPU.                          *)
LEMMA SleepEnds ==
  ASSUME AtRest(K), Sleep
  PROVE  Ends
<1>1. PICK msec \in SleepTimes :
        LET asleep == [Entry EXCEPT !.pcb[current] =
                         [@ EXCEPT !.wakeup = (now + msec) % TIME_MOD,
                                   !.state = PS_SLEEPING]]
        IN Becomes(Dispatch(
             IF msec = 0 THEN Schedule(Entry, current)
             ELSE EnqueOrPanic(asleep, "sleeping", current,
                               "_sys_sleep: can't enque sleeper")))
  BY DEF Sleep
<1>2. TypeOK /\ current \in Pcb /\ pcb[current] \in PcbRecord
  BY EntryRest, MeType
<1>3. CASE msec # 0
  <2> DEFINE t    == (now + msec) % TIME_MOD
             r    == [pcb[current] EXCEPT !.wakeup = t, !.state = PS_SLEEPING]
             site == "_sys_sleep: can't enque sleeper"
             set  == [Entry EXCEPT !.pcb[current] = r]
             k2   == EnqueOrPanic(set, "sleeping", current, site)
  <2>1. Becomes(Dispatch(k2))
    BY <1>1, <1>3, EntryRest
  <2>2. t \in 0 .. TIME_MOD - 1
    <3>1. now \in 0 .. TIME_MOD - 1 /\ msec \in Nat /\ TIME_MOD \in Nat \ {0}
      BY <1>2, KType, KernelFields, EnvironmentConstants, KernelConstants
    <3> QED
      BY <3>1
  <2> HIDE DEF t
  <2>3. r \in PcbRecord
    BY <1>2, <2>2, States, SetWakeup
  <2>4. /\ r.state = PS_SLEEPING /\ r.pid = pcb[current].pid /\ r.ppid = pcb[current].ppid
        /\ r.children = pcb[current].children /\ r.stack = pcb[current].stack
    BY <1>2 DEF PcbRecord
  <2> HIDE DEF r, site
  <2>5. Ended(Dispatch(k2)) /\ Quiet(Dispatch(k2))
    BY <2>3, <2>4, EntryFresh, BlockEnds
  <2> HIDE DEF k2
  <2> QED
    BY <2>1, <2>5, EndsIn
<1>4. CASE msec = 0
  <2> DEFINE k2   == Schedule(Entry, current)
             hand == {current}
  <2>1. Becomes(Dispatch(k2))
    BY <1>1, <1>4
  <2>2. Sound(k2, hand \ {current}) /\ Scheduled(Entry, k2, current)
    <3>1. Sound(Entry, hand) /\ current \in hand /\ Entry.pcb[current].state # PS_FREE
      BY EntryRest DEF PS_RUNNING, PS_FREE
    <3> HIDE DEF hand
    <3> QED
      BY <3>1, ScheduleSound
  <2>3. Sound(k2, {})
    <3>1. hand \ {current} = {}
      OBVIOUS
    <3> QED
      BY <2>2, <3>1
  <2> HIDE DEF k2
  <2>4. /\ k2.next_pid = next_pid /\ k2.now = now /\ k2.returned = Nothing
        /\ k2.pcb[current].state = PS_READY /\ \A c \in Pcb \ {current} : k2.pcb[c] = pcb[c]
    BY <2>2, EntryRest DEF Scheduled, Steady
  <2>5. Tree(k2.pcb, k2.next_pid, {})
    <3>1. /\ Tree(Entry.pcb, next_pid, {}) /\ Alive(Entry.pcb, current) /\ current \in Pcb
      BY EntryRest
    <3> QED
      BY <2>2, <2>4, <3>1, TreeReady
  <2>6. Reports(k2)
    <3>1. \A c \in Pcb : Used(pcb, c) => Used(k2.pcb, c)
      BY <2>4 DEF Used, PS_READY, PS_FREE
    <3> QED
      BY <2>4, <3>1, NothingReturned, ReportsNothing
  <2>7. Quiet(k2)
    <3>1. \A c \in Pcb : pcb[c].state = PS_SLEEPING => k2.pcb[c].state # PS_READY
      BY <2>4, EntryRest DEF PS_SLEEPING, PS_READY, PS_RUNNING
    <3> QED
      BY <2>4, <3>1 DEF Quiet
  <2> QED
    BY <2>1, <2>3, <2>5, <2>6, <2>7, DispatchEnds, EndsIn
<1> QED
  BY <1>3, <1>4

(* A character on the serial line: the first blocked reader, if any, is in *)
(* hand while it is given the character and made ready.                    *)
LEMMA RxCharEnds ==
  ASSUME AtRest(K), RxChar
  PROVE  Ends
<1>1. PICK rxd \in Chars :
        LET ch     == IF rxd = CR THEN LF ELSE rxd
            reader == Head(queue["reading"])
            told   == [Deque(Entry, "reading") EXCEPT !.returned[reader] = <<ch>>]
        IN Becomes(IF queue["reading"] # << >> THEN Schedule(told, reader)
                   ELSE [Entry EXCEPT !.incount = IF @ < BUF_SIZE THEN @ + 1 ELSE @])
  BY DEF RxChar
<1>2. CASE queue["reading"] = << >>
  <2> DEFINE i == IF Entry.incount < BUF_SIZE THEN Entry.incount + 1 ELSE Entry.incount
  <2>1. i \in 0 .. BUF_SIZE /\ 0 \in 0 .. C_BUFSIZE - 1
    <3>1. Entry.incount \in 0 .. BUF_SIZE
      BY EntryRest, EntryType, KernelFields
    <3> QED
      BY <3>1, KernelConstants
  <2>2. Becomes([Entry EXCEPT !.incount = i])
    BY <1>1, <1>2
  <2> HIDE DEF i
  <2> QED
    BY <2>1, <2>2, InputFresh, FreshEnds, EndsIn
<1>3. CASE queue["reading"] # << >>
  <2> DEFINE ch     == IF rxd = CR THEN LF ELSE rxd
             reader == Head(queue["reading"])
             d      == Deque(Entry, "reading")
             told   == [d EXCEPT !.returned[reader] = <<ch>>]
             hand   == {current} \cup {reader}
             k2     == Schedule(told, reader)
  <2>1. Becomes(k2)
    BY <1>1, <1>3
  <2>2. ch \in Int
    BY EnvironmentConstants DEF CR, LF
  <2>3. /\ Sound(d, hand) /\ ButQueues(Entry, d)
        /\ reader \in Pcb \ {current} /\ QueueOf(Entry, reader) = "reading"
    <3>1. Sound(Entry, {current}) /\ "reading" \in QueueId /\ Entry.queue["reading"] # << >>
          /\ Entry.queue = queue
      BY <1>3, EntryRest DEF QueueId
    <3> QED
      BY <3>1, DequeSound
  <2> HIDE DEF ch, reader, d
  <2>4. pcb[reader].state = PS_BLOCKED
    <3>1. Entry \in KernelState
      BY EntryRest DEF Sound
    <3> QED
      BY <2>3, <3>1, QueueOfState, EntryRest
  <2>5. /\ told \in KernelState /\ told.pcb = d.pcb /\ told.queue = d.queue
        /\ told.free_stacks = d.free_stacks /\ told.qnodes = d.qnodes
        /\ told.panic = d.panic /\ told.current = d.current
        /\ told.next_pid = d.next_pid /\ told.now = d.now
        /\ told.returned = [d.returned EXCEPT ![reader] = <<ch>>]
    <3>1. d \in KernelState /\ <<ch>> \in Seq(Int)
      BY <2>2, <2>3 DEF Sound
    <3>2. told \in KernelState
      BY <2>3, <3>1, SetReturned
    <3> QED
      BY <3>1, <3>2 DEF KernelState
  <2> HIDE DEF told
  <2>6. Sound(told, hand)
    BY <2>3, <2>5, SoundElse
  <2>7. /\ told.pcb = pcb /\ told.current = current /\ told.next_pid = next_pid
        /\ told.now = now /\ told.returned = [Nothing EXCEPT ![reader] = <<ch>>]
    BY <2>3, <2>5, EntryRest DEF ButQueues
  <2>8. Sound(k2, hand \ {reader}) /\ Scheduled(told, k2, reader)
    <3>1. reader \in hand /\ told.pcb[reader].state # PS_FREE
      BY <2>4, <2>7 DEF PS_BLOCKED, PS_FREE
    <3> HIDE DEF hand
    <3> QED
      BY <2>6, <3>1, ScheduleSound
  <2>9. Sound(k2, {current})
    <3>1. hand \ {reader} = {current}
      BY <2>3
    <3> QED
      BY <2>8, <3>1
  <2> HIDE DEF k2
  <2>10. /\ k2.current = current /\ k2.next_pid = next_pid /\ k2.now = now
         /\ k2.returned = [Nothing EXCEPT ![reader] = <<ch>>]
         /\ k2.pcb[reader].state = PS_READY
         /\ \A c \in Pcb \ {reader} : k2.pcb[c] = pcb[c]
    BY <2>7, <2>8 DEF Scheduled, Steady
  <2>11. Tree(k2.pcb, k2.next_pid, {})
    <3>1. Tree(told.pcb, next_pid, {}) /\ Alive(told.pcb, reader) /\ reader \in Pcb
      BY <2>3, <2>4, <2>7, EntryRest DEF Alive, PS_BLOCKED, PS_FREE, PS_KILLED, PS_ZOMBIE
    <3> QED
      BY <2>8, <2>10, <3>1, TreeReady
  <2>12. AtRest(k2)
    BY <2>3, <2>9, <2>10, <2>11, EntryRest DEF AtRest
  <2>13. Reports(k2)
    <3>1. \A c \in Pcb : Used(pcb, c) => Used(k2.pcb, c)
      BY <2>10 DEF Used, PS_READY, PS_FREE
    <3>2. \A w \in Pcb : Len(k2.returned[w]) # 3
      BY <2>2, <2>10, NothingReturned
    <3> QED
      BY <3>1, <3>2, ReportsNothing
  <2>14. Quiet(k2)
    <3>1. \A c \in Pcb : pcb[c].state = PS_SLEEPING => k2.pcb[c].state # PS_READY
      BY <2>4, <2>10 DEF PS_SLEEPING, PS_READY, PS_BLOCKED
    <3> QED
      BY <2>10, <3>1 DEF Quiet
  <2> QED
    BY <2>1, <2>12, <2>13, <2>14, EndsIn DEF Ended
<1> QED
  BY <1>2, <1>3

(* A key on the console.                                                   *)
LEMMA KeyPressEnds ==
  ASSUME AtRest(K), KeyPress
  PROVE  Ends
<1> DEFINE c == IF Entry.console < C_BUFSIZE - 1 THEN Entry.console + 1 ELSE Entry.console
<1>1. Becomes([Entry EXCEPT !.console = c])
  BY DEF KeyPress
<1>2. c \in 0 .. C_BUFSIZE - 1 /\ 0 \in 0 .. BUF_SIZE
  <2>1. Entry.console \in 0 .. C_BUFSIZE - 1
    BY EntryRest, EntryType, KernelFields
  <2> QED
    BY <2>1, KernelConstants
<1> HIDE DEF c
<1> QED
  BY <1>1, <1>2, InputFresh, FreshEnds, EndsIn

(* What fork() leaves of the table: a child with its parent's count, and a *)
(* child more that its parent counts.                                      *)
Begotten(k, child) ==
  /\ child \in Pcb \ {current} /\ ~ Used(pcb, child) /\ k.next_pid = next_pid + 1
  /\ k.pcb[child].ppid = pcb[current].pid
  /\ k.pcb[child].children = pcb[current].children
  /\ k.pcb[current].children = pcb[current].children + 1
  /\ k.pcb[current].ppid = pcb[current].ppid
  /\ \A c \in Pcb \ {child, current} : k.pcb[c] = pcb[c]

(* fork() with a PCB and a stack to spare.  The child's PCB is in hand     *)
(* beside the caller from _pcb_alloc to _schedule.                         *)
LEMMA ForkedEnds ==
  ASSUME AtRest(K), next_pid < PID_LIMIT, queue["free_pcbs"] # << >>, free_stacks # << >>
  PROVE  /\ Ended(Forked(Entry)) /\ Quiet(Forked(Entry))
         /\ Begotten(Forked(Entry), Head(queue["free_pcbs"]))
<1> DEFINE child  == Head(queue["free_pcbs"])
           d      == Deque(Entry, "free_pcbs")
           with   == StkAlloc(PcbAlloc(Entry))
           r      == [pcb[current] EXCEPT !.pid = next_pid, !.ppid = pcb[current].pid,
                                          !.stack = Head(free_stacks)]
           copied == [with EXCEPT !.pcb[child] = r, !.next_pid = @ + 1]
           v      == [copied.returned EXCEPT ![child] = <<0>>, ![current] = <<next_pid>>]
           told   == [copied EXCEPT !.returned = v]
           m      == [told.pcb[current] EXCEPT !.children = pcb[current].children + 1]
           both   == [told EXCEPT !.pcb[current] = m]
           k2     == Schedule(both, child)
           hand   == {current} \cup {child}
<1>1. /\ TypeOK /\ current \in Pcb /\ pcb[current] \in PcbRecord
      /\ pcb \in [Pcb -> PcbRecord] /\ Entry \in KernelState
  BY EntryRest, MeType, KType, KernelFields DEF Sound
<1>2. Forked(Entry) = k2
  BY EntryRest DEF Forked
<1>3. /\ Sound(d, hand) /\ ButQueues(Entry, d)
      /\ child \in Pcb \ {current} /\ QueueOf(Entry, child) = "free_pcbs"
  <2>1. Sound(Entry, {current}) /\ "free_pcbs" \in QueueId /\ Entry.queue["free_pcbs"] # << >>
        /\ Entry.queue = queue
    BY EntryRest DEF QueueId
  <2> QED
    BY <2>1, DequeSound
<1>4. pcb[child].state = PS_FREE
  BY <1>1, <1>3, QueueOfState, EntryRest
<1>5. /\ d \in KernelState /\ d.pcb = pcb /\ d.free_stacks = free_stacks /\ d.now = now
      /\ d.next_pid = next_pid /\ d.current = current /\ d.returned = Nothing
  BY <1>3, EntryRest DEF ButQueues, Sound
<1>6. PcbAlloc(Entry) = [d EXCEPT !.pcb[child] = [@ EXCEPT !.state = PS_NEW]]
  BY EntryRest DEF PcbAlloc
<1> HIDE DEF d, child
<1>7. /\ with.pcb = [pcb EXCEPT ![child] = [pcb[child] EXCEPT !.state = PS_NEW]]
      /\ with.queue = d.queue /\ with.free_stacks = Tail(free_stacks)
      /\ with.qnodes = d.qnodes + 1 /\ with.panic = d.panic /\ with.now = now
      /\ with.next_pid = next_pid /\ with.current = current /\ with.returned = Nothing
  <2> DEFINE a == PcbAlloc(Entry)
  <2>1. /\ a.pcb = [pcb EXCEPT ![child] = [pcb[child] EXCEPT !.state = PS_NEW]]
        /\ a.queue = d.queue /\ a.free_stacks = free_stacks /\ a.qnodes = d.qnodes
        /\ a.panic = d.panic /\ a.now = now /\ a.next_pid = next_pid
        /\ a.current = current /\ a.returned = Nothing
    BY <1>3, <1>5, <1>6 DEF KernelState
  <2>2. with = [a EXCEPT !.free_stacks = Tail(@), !.qnodes = @ + 1]
    BY DEF StkAlloc
  <2>3. a \in KernelState
    <3>1. Entry.queue["free_pcbs"] # << >>
      BY EntryRest
    <3> QED
      BY <1>1, <3>1, PcbAllocType
  <2> HIDE DEF a
  <2> QED
    BY <2>1, <2>2, <2>3 DEF KernelState
<1>8. with \in KernelState /\ Head(free_stacks) \in Stack
  <2>1. Entry.queue["free_pcbs"] # << >> /\ Entry.free_stacks # << >>
    BY EntryRest
  <2>2. PcbAlloc(Entry) \in KernelState
    BY <1>1, <2>1, PcbAllocType
  <2>3. PcbAlloc(Entry).free_stacks = free_stacks
    BY <1>5, <1>6 DEF KernelState
  <2> QED
    BY <2>2, <2>3, StkAllocType
<1>9. next_pid + 1 \in 0 .. PID_LIMIT /\ next_pid \in 0 .. PID_NONE /\ next_pid \in Int
  <2>1. next_pid \in 0 .. PID_LIMIT
    BY <1>1, KType, KernelFields
  <2>2. PID_LIMIT \in Nat /\ PID_LIMIT < PID_NONE /\ PID_NONE \in Nat
    BY KernelConstants DEF PID_NONE
  <2>3. next_pid < PID_LIMIT
    OBVIOUS
  <2> QED
    BY <2>1, <2>2, <2>3
<1>10. /\ r \in PcbRecord /\ r.pid = next_pid /\ r.ppid = pcb[current].pid
       /\ r.stack = Head(free_stacks) /\ r.state = PS_RUNNING /\ r.children = pcb[current].children
  <2>1. pcb[current].pid \in 0 .. PID_NONE
    BY <1>1, PcbFields
  <2>2. Head(free_stacks) \in Stack \cup {NoStack}
    BY <1>8
  <2> HIDE DEF with, copied, told, both, k2
  <2>3. r \in PcbRecord
    BY <1>1, <1>9, <2>1, <2>2, SetIdentity, Zenon
  <2> QED
    BY <1>1, <2>3, EntryRest DEF PcbRecord
<1> HIDE DEF with, r
<1>11. /\ copied \in KernelState /\ copied.pcb = [pcb EXCEPT ![child] = r]
       /\ copied.queue = d.queue /\ copied.free_stacks = Tail(free_stacks)
       /\ copied.qnodes = d.qnodes + 1 /\ copied.panic = d.panic /\ copied.now = now
       /\ copied.next_pid = next_pid + 1 /\ copied.current = current
       /\ copied.returned = Nothing
  <2> DEFINE s == [with EXCEPT !.pcb[child] = r]
  <2>1. s \in KernelState
    BY <1>3, <1>8, <1>10, SetPcb
  <2>2. copied = [s EXCEPT !.next_pid = next_pid + 1]
    BY <1>7, <1>8
  <2>3. s.pcb = [pcb EXCEPT ![child] = r]
    BY <1>1, <1>7, <1>8 DEF KernelState
  <2>4. /\ s.queue = d.queue /\ s.free_stacks = Tail(free_stacks)
        /\ s.qnodes = d.qnodes + 1 /\ s.panic = d.panic /\ s.now = now
        /\ s.current = current /\ s.returned = Nothing
    BY <1>7, <1>8 DEF KernelState
  <2> HIDE DEF s, copied
  <2> QED
    BY <1>9, <2>1, <2>2, <2>3, <2>4 DEF KernelState
<1> HIDE DEF copied
<1>12. v \in [Pcb -> Seq(Int)] /\ \A w \in Pcb : Len(v[w]) # 3
  <2>1. copied.returned \in [Pcb -> Seq(Int)] /\ \A w \in Pcb : Len(copied.returned[w]) # 3
    BY <1>11, NothingReturned
  <2>2. /\ <<0>> \in Seq(Int) /\ <<next_pid>> \in Seq(Int)
        /\ Len(<<0>>) # 3 /\ Len(<<next_pid>>) # 3
    BY <1>9
  <2>3. v \in [Pcb -> Seq(Int)]
    BY <2>1, <2>2
  <2>4. \A w \in Pcb : v[w] \in {<<0>>, <<next_pid>>, copied.returned[w]}
    BY <2>1
  <2> HIDE DEF v
  <2> QED
    BY <2>1, <2>2, <2>3, <2>4
<1> HIDE DEF v
<1>13. /\ told \in KernelState /\ told.pcb = copied.pcb /\ told.queue = d.queue
       /\ told.free_stacks = Tail(free_stacks) /\ told.qnodes = d.qnodes + 1
       /\ told.panic = d.panic /\ told.now = now /\ told.next_pid = next_pid + 1
       /\ told.current = current /\ told.returned = v
  BY <1>11, <1>12 DEF KernelState
<1>14. Sound(told, hand)
  <2>1. child \in hand /\ d.pcb[child].state = PS_FREE /\ d.free_stacks # << >>
    BY <1>4, <1>5
  <2>2. r.state # PS_FREE /\ r.stack = Head(d.free_stacks)
    BY <1>5, <1>10 DEF PS_RUNNING, PS_FREE
  <2>3. /\ told \in KernelState /\ told.pcb = [d.pcb EXCEPT ![child] = r]
        /\ told.queue = d.queue /\ told.panic = d.panic
        /\ told.free_stacks = Tail(d.free_stacks) /\ told.qnodes = d.qnodes + 1
    BY <1>5, <1>11, <1>13
  <2> HIDE DEF told, hand
  <2> QED
    BY <1>3, <1>10, <2>1, <2>2, <2>3, BirthSound
<1>15. told.pcb[current] = pcb[current]
  BY <1>1, <1>3, <1>11, <1>13
<1> HIDE DEF told
<1>16. /\ m \in PcbRecord /\ m.pid = pcb[current].pid /\ m.ppid = pcb[current].ppid
       /\ m.state = pcb[current].state /\ m.children = pcb[current].children + 1
       /\ m.stack = pcb[current].stack
  <2>1. m = [pcb[current] EXCEPT !.children = pcb[current].children + 1]
    BY <1>15
  <2>2. pcb[current].children + 1 \in Nat /\ pcb[current].ppid \in 0 .. PID_NONE
    BY <1>1, PcbFields
  <2> HIDE DEF m, both, k2
  <2>3. m \in PcbRecord
    BY <1>1, <2>1, <2>2, SetFamily, Zenon
  <2> QED
    BY <1>1, <2>1, <2>3 DEF PcbRecord
<1> HIDE DEF m
<1>17. Sound(both, hand) /\ both.pcb = [told.pcb EXCEPT ![current] = m]
  <2>1. /\ current \in hand /\ told.pcb[current].state # PS_FREE
        /\ m.stack = told.pcb[current].stack /\ m.state # PS_FREE
    BY <1>15, <1>16, EntryRest DEF PS_RUNNING, PS_FREE
  <2> QED
    BY <1>14, <1>16, <2>1, SoundSet
<1>18. /\ both.now = now /\ both.next_pid = next_pid + 1 /\ both.current = current
       /\ both.returned = v
  BY <1>13 DEF KernelState
<1> HIDE DEF both
<1>19. /\ both.pcb = [pcb EXCEPT ![child] = r, ![current] = m]
       /\ both.pcb[child] = r /\ both.pcb[current] = m
       /\ \A c \in Pcb \ {child, current} : both.pcb[c] = pcb[c]
  BY <1>1, <1>3, <1>11, <1>13, <1>17
<1>20. Tree(both.pcb, next_pid + 1, {}) /\ Alive(both.pcb, child)
  <2>1. /\ Tree(pcb, next_pid, {}) /\ next_pid < PID_LIMIT /\ current \in Pcb
        /\ Alive(pcb, current) /\ child \in Pcb /\ ~ Used(pcb, child)
    BY <1>3, <1>4, EntryRest DEF Used
  <2>2. r.state \notin {PS_FREE, PS_KILLED, PS_ZOMBIE, PS_WAITING}
    BY <1>10 DEF PS_RUNNING, PS_FREE, PS_KILLED, PS_ZOMBIE, PS_WAITING
  <2>3. both.pcb \in [Pcb -> PcbRecord]
    BY <1>17, KernelFields DEF Sound
  <2>4. /\ both.pcb[child] = r /\ both.pcb[current] = m
        /\ \A c \in Pcb \ {child, current} : both.pcb[c] = pcb[c]
    BY <1>19
  <2>5. /\ r \in PcbRecord /\ r.pid = next_pid /\ r.ppid = pcb[current].pid
        /\ m \in PcbRecord /\ m.pid = pcb[current].pid /\ m.ppid = pcb[current].ppid
        /\ m.state = pcb[current].state /\ m.children = pcb[current].children + 1
    BY <1>10, <1>16
  <2> QED
    BY <2>1, <2>2, <2>3, <2>4, <2>5, TreeFork
<1>21. Sound(k2, hand \ {child}) /\ Scheduled(both, k2, child)
  <2>1. child \in hand /\ both.pcb[child].state # PS_FREE
    BY <1>10, <1>19 DEF PS_RUNNING, PS_FREE
  <2> HIDE DEF hand
  <2> QED
    BY <1>17, <2>1, ScheduleSound
<1> HIDE DEF k2
<1>22. Sound(k2, {current})
  <2>1. hand \ {child} = {current}
    BY <1>3
  <2> QED
    BY <1>21, <2>1
<1>23. /\ k2.current = current /\ k2.next_pid = next_pid + 1 /\ k2.now = now
       /\ k2.returned = v /\ k2.pcb[child].state = PS_READY /\ k2.pcb[current] = m
       /\ \A c \in Pcb \ {child, current} : k2.pcb[c] = pcb[c]
  BY <1>1, <1>3, <1>18, <1>19, <1>21 DEF Scheduled, Steady
<1>24. Tree(k2.pcb, k2.next_pid, {})
  BY <1>3, <1>20, <1>21, <1>23, TreeReady
<1>25. AtRest(k2)
  BY <1>16, <1>22, <1>23, <1>24, EntryRest DEF AtRest
<1>26. Reports(k2)
  <2>1. \A c \in Pcb : Used(pcb, c) => Used(k2.pcb, c)
    BY <1>16, <1>23, EntryRest DEF Used, PS_READY, PS_FREE, PS_RUNNING
  <2> QED
    BY <1>12, <1>23, <2>1, ReportsNothing
<1>27. Quiet(k2)
  <2>1. \A c \in Pcb : pcb[c].state = PS_SLEEPING => k2.pcb[c].state # PS_READY
    BY <1>4, <1>16, <1>23, EntryRest DEF PS_SLEEPING, PS_READY, PS_FREE, PS_RUNNING
  <2> QED
    BY <1>23, <2>1 DEF Quiet
<1>28. Begotten(k2, child)
  <2>1. k2.pcb[child].ppid = r.ppid /\ k2.pcb[child].children = r.children
    BY <1>3, <1>19, <1>21 DEF Scheduled
  <2> QED
    BY <1>3, <1>4, <1>10, <1>16, <1>23, <2>1 DEF Begotten, Used
<1>29. Begotten(k2, Head(queue["free_pcbs"]))
  BY <1>28 DEF child
<1> QED
  BY <1>2, <1>25, <1>26, <1>27, <1>29 DEF Ended

(* fork() with no stack to spare gives the PCB back.                       *)
LEMMA ForkNoStackEnds ==
  ASSUME AtRest(K), queue["free_pcbs"] # << >>
  PROVE  Ended(ForkNoStack(Entry)) /\ Quiet(ForkNoStack(Entry))
<1> DEFINE child == Head(queue["free_pcbs"])
           k     == PcbDealloc(PcbAlloc(Entry), child)
           k2    == Return(k, E_NO_STACKS)
<1>1. TypeOK /\ current \in Pcb /\ pcb \in [Pcb -> PcbRecord]
  BY EntryRest, KType, KernelFields
<1>2. ForkNoStack(Entry) = k2
  BY EntryRest DEF ForkNoStack
<1>3. /\ Sound(k, {current}) /\ Steady(Entry, k) /\ k.pcb = [pcb EXCEPT ![child] = FreePcb]
      /\ child \in Pcb \ {current} /\ pcb[child].state = PS_FREE
  <2>1. Sound(Entry, {current}) /\ Entry.queue["free_pcbs"] # << >>
        /\ Entry.queue = queue /\ Entry.pcb = pcb
    BY EntryRest
  <2> QED
    BY <2>1, UnallocSound
<1> HIDE DEF k, child
<1>4. /\ Sound(k2, {current}) /\ k2.pcb = k.pcb /\ k2.current = k.current
      /\ k2.next_pid = k.next_pid /\ k2.now = k.now
      /\ k2.returned = [k.returned EXCEPT ![current] = <<E_NO_STACKS>>]
  <2>1. E_NO_STACKS \in Int
    BY DEF E_NO_STACKS
  <2> QED
    BY <1>1, <1>3, <2>1, ReturnSound
<1> HIDE DEF k2
<1>5. /\ k2.current = current /\ k2.next_pid = next_pid /\ k2.now = now
      /\ k2.returned = [Nothing EXCEPT ![current] = <<E_NO_STACKS>>]
      /\ k2.pcb[child] = FreePcb /\ \A c \in Pcb \ {child} : k2.pcb[c] = pcb[c]
      /\ k2.pcb \in [Pcb -> PcbRecord]
  BY <1>1, <1>3, <1>4, EntryRest, FreePcbType DEF Steady
<1>6. FreePcb.state = PS_FREE /\ FreePcb.pid = PID_NONE /\ FreePcb.ppid = PID_NONE
  BY DEF FreePcb
<1>7. \A c \in Pcb : Used(k2.pcb, c) <=> Used(pcb, c)
  BY <1>3, <1>5, <1>6 DEF Used
<1>8. Tree(k2.pcb, k2.next_pid, {})
  <2>1. pcb[child].pid = PID_NONE /\ pcb[child].ppid = PID_NONE
    BY <1>3, EntryRest DEF Tree, Numbered, Used
  <2>2. \A c \in Pcb : /\ k2.pcb[c].pid = pcb[c].pid /\ k2.pcb[c].ppid = pcb[c].ppid
                       /\ k2.pcb[c].state = pcb[c].state
                       /\ Alive(pcb, c) => k2.pcb[c].children >= pcb[c].children
    <3>1. \A c \in Pcb : pcb[c].children >= pcb[c].children
      BY <1>1, PcbFields
    <3> QED
      BY <1>3, <1>5, <1>6, <2>1, <3>1 DEF Alive
  <2>3. \A c \in Pcb : /\ k2.pcb[c].pid = pcb[c].pid /\ k2.pcb[c].ppid = pcb[c].ppid
                       /\ Used(k2.pcb, c) <=> Used(pcb, c)
                       /\ Alive(k2.pcb, c) <=> Alive(pcb, c)
                       /\ Alive(pcb, c) => k2.pcb[c].children >= pcb[c].children
    BY <2>2 DEF Used, Alive
  <2>4. Tree(pcb, next_pid, {})
    BY EntryRest
  <2> QED
    BY <1>5, <2>2, <2>3, <2>4, TreeSame
<1>9. AtRest(k2)
  BY <1>3, <1>4, <1>5, <1>8, EntryRest DEF AtRest
<1>10. Reports(k2)
  <2>1. E_NO_STACKS \in Int
    BY DEF E_NO_STACKS
  <2>2. \A w \in Pcb : Len(k2.returned[w]) # 3
    BY <1>5, <2>1, NothingReturned
  <2> QED
    BY <1>7, <2>2, ReportsNothing
<1>11. Quiet(k2)
  <2>1. \A c \in Pcb : pcb[c].state = PS_SLEEPING => k2.pcb[c].state # PS_READY
    BY <1>5, <1>6 DEF PS_SLEEPING, PS_READY, PS_FREE
  <2> QED
    BY <1>5, <2>1 DEF Quiet
<1> QED
  BY <1>2, <1>9, <1>10, <1>11 DEF Ended

(* fork() in all its cases.                                                *)
LEMMA ForkEnds ==
  ASSUME AtRest(K), Fork
  PROVE  Ends
<1>1. CASE ForkNoPid
  BY <1>1, ReplyStep DEF ForkNoPid, E_NO_MORE_PROCS
<1>2. CASE ForkNoPcb
  BY <1>2, ReplyStep DEF ForkNoPcb, E_NO_PCBS
<1>3. CASE ForkChild
  <2>1. CASE free_stacks = << >>
    <3>1. Becomes(ForkNoStack(Entry)) /\ queue["free_pcbs"] # << >>
      BY <1>3, <2>1 DEF ForkChild
    <3> QED
      BY <3>1, ForkNoStackEnds, EndsIn
  <2>2. CASE free_stacks # << >>
    <3>1. Becomes(Forked(Entry)) /\ queue["free_pcbs"] # << >> /\ next_pid < PID_LIMIT
      BY <1>3, <2>2 DEF ForkChild
    <3> QED
      BY <2>2, <3>1, ForkedEnds, EndsIn
  <2> QED
    BY <2>1, <2>2
<1> QED
  BY <1>1, <1>2, <1>3 DEF Fork

-----------------------------------------------------------------------------
(* The clock.                                                              *)

(* Nobody is left asleep whose time has come.                              *)
Awake(k) == \A p \in Pcb : k.pcb[p].state = PS_SLEEPING => k.pcb[p].wakeup > k.now

(* p has a place in the sequence t ahead of one of c's.                    *)
AheadIn(t, p, c) == \E i, j \in 1 .. Len(t) : i < j /\ t[i] = p /\ t[j] = c

(* Whoever is ready with the priority of the process that was running, and *)
(* is ready too, is ahead of it.                                           *)
Preferred(k) ==
  \A p \in Pcb \ {current} :
    /\ k.pcb[p].state = PS_READY /\ k.pcb[current].state = PS_READY
    /\ k.pcb[p].prio = k.pcb[current].prio
    => AheadIn(k.queue[Ready(k.pcb[p].prio)], p, current)

(* The CPU goes to somebody who was ready.                                 *)
LEMMA DispatchAwake ==
  ASSUME NEW k, Sound(k, {}), Awake(k)
  PROVE  Awake(Dispatch(k))
<1> DEFINE k2 == Dispatch(k)
<1>1. k \in KernelState /\ k.pcb \in [Pcb -> PcbRecord]
  BY KernelFields DEF Sound
<1>2. CASE k2 = Panic(k, "_dispatch: no ready processes")
  <2>1. k2.pcb = k.pcb /\ k2.now = k.now
    BY <1>1, <1>2 DEF Panic, KernelState
  <2> QED
    BY <2>1 DEF Awake
<1>3. CASE Dispatched(k, k2)
  <2> HIDE DEF k2
  <2>1. PICK q \in ReadyId :
          LET next == Head(k.queue[q])
              r    == [k.pcb[next] EXCEPT !.state = PS_RUNNING, !.q_ticks = QUANT_STD]
          IN /\ next \in Pcb /\ k2.pcb = [k.pcb EXCEPT ![next] = r] /\ k2.now = k.now
    BY <1>3 DEF Dispatched
  <2> DEFINE next == Head(k.queue[q])
             r    == [k.pcb[next] EXCEPT !.state = PS_RUNNING, !.q_ticks = QUANT_STD]
  <2>2. r.state # PS_SLEEPING
    <3>1. k.pcb[next] \in PcbRecord
      BY <1>1, <2>1
    <3>2. r.state = PS_RUNNING
      BY <3>1 DEF PcbRecord
    <3> QED
      BY <3>2 DEF PS_RUNNING, PS_SLEEPING
  <2>3. next \in Pcb /\ k2.pcb = [k.pcb EXCEPT ![next] = r] /\ k2.now = k.now
    BY <2>1
  <2> HIDE DEF next, r
  <2>4. \A p \in Pcb : k2.pcb[p].state = PS_SLEEPING => k2.pcb[p] = k.pcb[p]
    BY <1>1, <2>2, <2>3
  <2> QED
    BY <2>3, <2>4 DEF Awake, k2
<1> QED
  BY <1>2, <1>3, DispatchSound

(* What is at the end of a sequence is behind the rest of it, and stays so *)
(* when another's turn comes.                                              *)
LEMMA BehindTheRest ==
  ASSUME NEW s \in Seq(Pcb), NEW c \in Pcb, NEW i \in 1 .. Len(s)
  PROVE  LET a == Append(s, c) IN
         AheadIn(a, s[i], c) /\ (Head(a) # s[i] => AheadIn(Tail(a), s[i], c))
<1> DEFINE a == Append(s, c)
           t == Tail(a)
<1>1. /\ a \in Seq(Pcb) /\ Len(a) = Len(s) + 1 /\ a[Len(s) + 1] = c /\ a[i] = s[i]
      /\ Len(s) \in Nat
  OBVIOUS
<1>2. i \in 1 .. Len(a) /\ Len(s) + 1 \in 1 .. Len(a) /\ i < Len(s) + 1
  BY <1>1
<1>3. ASSUME Head(a) # s[i]
      PROVE  \E m, n \in 1 .. Len(t) : m < n /\ t[m] = s[i] /\ t[n] = c
  <2>1. i # 1
    BY <1>1, <1>3
  <2>2. Len(t) = Len(s) /\ \A m \in 1 .. Len(s) : t[m] = a[m + 1]
    BY <1>1
  <2>3. i - 1 \in 1 .. Len(t) /\ Len(s) \in 1 .. Len(t) /\ i - 1 < Len(s)
    BY <1>1, <2>1, <2>2
  <2>4. t[i - 1] = s[i] /\ t[Len(s)] = c
    BY <1>1, <2>2, <2>3
  <2> QED
    BY <2>3, <2>4
<1>4. \E m, n \in 1 .. Len(a) : m < n /\ a[m] = s[i] /\ a[n] = c
  BY <1>1, <1>2
<1> QED
  BY <1>3, <1>4 DEF AheadIn

(* The CPU is handed over after the process that was running has gone to   *)
(* the end of its ready queue.                                             *)
LEMMA PreemptPrefers ==
  ASSUME NEW k, Sound(k, {current}), current \in Pcb, k.pcb[current].state # PS_FREE
  PROVE  Preferred(Dispatch(Schedule(k, current)))
<1> DEFINE hand == {current}
           s    == Schedule(k, current)
           k2   == Dispatch(s)
           Q    == Ready(LegalPrio(k.pcb[current].prio))
<1>1. Sound(s, hand \ {current}) /\ Scheduled(k, s, current)
  <2>1. current \in hand /\ Sound(k, hand)
    OBVIOUS
  <2> HIDE DEF hand
  <2> QED
    BY <2>1, ScheduleSound
<1>2. Sound(s, {})
  <2>1. hand \ {current} = {}
    OBVIOUS
  <2> QED
    BY <1>1, <2>1
<1> HIDE DEF s
<1>3. /\ s.pcb \in [Pcb -> PcbRecord]
      /\ \A c \in Pcb \ {current} : s.pcb[c] = k.pcb[c]
      /\ s.pcb[current].prio = LegalPrio(k.pcb[current].prio)
      /\ s.queue = [k.queue EXCEPT ![Q] = Append(@, current)]
  BY <1>1 DEF Scheduled
<1>4. k \in KernelState /\ k.queue \in [QueueId -> Seq(Pcb)] /\ Q \in QueueId
  BY KernelFields DEF Sound, Ready, QueueId, ReadyId
<1>5. s.queue[Q] = Append(k.queue[Q], current)
  BY <1>3, <1>4
<1>6. s.pcb[current].prio \in Nat /\ LegalPrio(k.pcb[current].prio) \in Prio
  <2>1. s.pcb[current] \in PcbRecord
    BY <1>3
  <2> QED
    BY <2>1, PcbFields DEF LegalPrio, Prio, P_LOW, P_SYSTEM, P_MIN
<1>7. \A c \in Pcb : k2.pcb[c].state = PS_READY =>
        /\ k2.pcb[c] = s.pcb[c]
        /\ \/ k2.queue[Q] = s.queue[Q]
           \/ k2.queue[Q] = Tail(s.queue[Q]) /\ Head(s.queue[Q]) # c
  <2>1. s \in KernelState
    BY <1>2 DEF Sound
  <2>2. CASE k2 = Panic(s, "_dispatch: no ready processes")
    <3>1. k2.pcb = s.pcb /\ k2.queue = s.queue
      BY <2>1, <2>2 DEF Panic, KernelState
    <3> QED
      BY <3>1
  <2>3. CASE Dispatched(s, k2)
    <3> HIDE DEF k2
    <3>1. PICK q \in ReadyId :
            LET next == Head(s.queue[q])
                r    == [s.pcb[next] EXCEPT !.state = PS_RUNNING, !.q_ticks = QUANT_STD]
            IN /\ next \in Pcb /\ r \in PcbRecord
               /\ k2.pcb = [s.pcb EXCEPT ![next] = r]
               /\ k2.queue = [s.queue EXCEPT ![q] = Tail(@)]
      BY <2>3 DEF Dispatched
    <3> DEFINE next == Head(s.queue[q])
               r    == [s.pcb[next] EXCEPT !.state = PS_RUNNING, !.q_ticks = QUANT_STD]
    <3>2. next \in Pcb /\ k2.pcb = [s.pcb EXCEPT ![next] = r]
      BY <3>1
    <3>3. r.state # PS_READY
      <4>1. s.pcb[next] \in PcbRecord
        BY <1>3, <3>1
      <4>2. r.state = PS_RUNNING
        BY <4>1 DEF PcbRecord
      <4> QED
        BY <4>2 DEF PS_RUNNING, PS_READY
    <3> HIDE DEF next, r
    <3>4. \A c \in Pcb : k2.pcb[c].state = PS_READY => c # next /\ k2.pcb[c] = s.pcb[c]
      BY <1>3, <3>2, <3>3
    <3>5. s.queue \in [QueueId -> Seq(Pcb)]
      BY <2>1, KernelFields
    <3>6. k2.queue[Q] = IF q = Q THEN Tail(s.queue[Q]) ELSE s.queue[Q]
      BY <1>4, <3>1, <3>5
    <3>7. q = Q => Head(s.queue[Q]) = next
      BY DEF next
    <3> QED
      BY <3>4, <3>6, <3>7
  <2> QED
    BY <1>2, <2>2, <2>3, DispatchSound
<1> SUFFICES Preferred(k2)
  BY DEF s
<1> HIDE DEF k2
<1> SUFFICES ASSUME NEW p \in Pcb \ {current}, k2.pcb[p].state = PS_READY,
                    k2.pcb[current].state = PS_READY,
                    k2.pcb[p].prio = k2.pcb[current].prio
             PROVE  AheadIn(k2.queue[Ready(k2.pcb[p].prio)], p, current)
  BY DEF Preferred
<1>8. k2.pcb[p] = k.pcb[p] /\ k2.pcb[p].prio = LegalPrio(k.pcb[current].prio)
  BY <1>3, <1>7
<1>9. Ready(k2.pcb[p].prio) = Q /\ QueueOf(k, p) = Q
  <2>1. k.pcb[p].state = PS_READY
    BY <1>8
  <2>2. QueueOf(k, p) = Ready(k.pcb[p].prio)
    BY <1>4, <2>1, QueueOfState
  <2> QED
    BY <1>8, <2>2
<1>10. PICK i \in 1 .. Len(k.queue[Q]) : k.queue[Q][i] = p
  <2>1. p \in QueuedAt(k, {current}, Q)
    BY <1>9 DEF QueuedAt
  <2>2. Lists(k.queue[Q], QueuedAt(k, {current}, Q)) /\ k.queue[Q] \in Seq(Pcb)
    BY <1>4 DEF Sound, Placed
  <2> HIDE DEF Q
  <2> QED
    BY <2>1, <2>2, ListsPlaces
<1>11. \/ k2.queue[Q] = Append(k.queue[Q], current)
       \/ /\ k2.queue[Q] = Tail(Append(k.queue[Q], current))
          /\ Head(Append(k.queue[Q], current)) # k.queue[Q][i]
  BY <1>5, <1>7, <1>10
<1>12. k.queue[Q] \in Seq(Pcb)
  BY <1>4
<1>13. AheadIn(k2.queue[Q], k.queue[Q][i], current)
  <2> DEFINE ready == k.queue[Q]
             a     == Append(ready, current)
  <2>1. ready \in Seq(Pcb) /\ i \in 1 .. Len(ready)
    BY <1>10, <1>12
  <2>2. k2.queue[Q] = a \/ (k2.queue[Q] = Tail(a) /\ Head(a) # ready[i])
    BY <1>11
  <2> HIDE DEF ready, Q, hand
  <2>3. AheadIn(a, ready[i], current) /\ (Head(a) # ready[i] => AheadIn(Tail(a), ready[i], current))
    BY <2>1, BehindTheRest
  <2> QED
    BY <2>2, <2>3 DEF ready
<1> QED
  BY <1>9, <1>10, <1>13

(* A clock interrupt wakes whoever is due, and preempts the current        *)
(* process after that.                                                     *)
LEMMA TickEnds ==
  ASSUME AtRest(K), Tick
  PROVE  \E k \in KernelState : Becomes(k) /\ Ended(k) /\ Awake(k) /\ Preferred(k)
<1> DEFINE t     == (now + 1) % TIME_MOD
           later == [Entry EXCEPT !.now = t]
           woken == WakeSleepers(later)
           left  == (me.q_ticks - 1) % 256
           r     == [woken.pcb[current] EXCEPT !.q_ticks = left]
           used  == [woken EXCEPT !.pcb[current] = r]
           hand  == {current}
<1>1. TypeOK /\ current \in Pcb /\ pcb[current] \in PcbRecord /\ pcb \in [Pcb -> PcbRecord]
  BY EntryRest, MeType, KType, KernelFields
<1>2. t \in 0 .. TIME_MOD - 1 /\ left \in 0 .. 255
  <2>1. now \in 0 .. TIME_MOD - 1 /\ me.q_ticks \in 0 .. 255
    BY <1>1, KType, KernelFields, PcbFields DEF me
  <2> QED
    BY <2>1, KernelConstants
<1>3. Becomes(IF used.pcb[current].q_ticks < 1
              THEN Dispatch(Schedule(used, current)) ELSE used)
  BY EntryRest DEF Tick
<1> HIDE DEF t, left
<1>4. Entry \in KernelState
  BY EntryRest DEF Sound
<1>5. /\ later \in KernelState /\ later.pcb = Entry.pcb /\ later.queue = Entry.queue
      /\ later.free_stacks = Entry.free_stacks /\ later.qnodes = Entry.qnodes
      /\ later.panic = Entry.panic /\ later.current = Entry.current
      /\ later.next_pid = Entry.next_pid /\ later.now = t
      /\ later.returned = Entry.returned
  BY <1>2, <1>4 DEF KernelState
<1> HIDE DEF later
<1>6. Sound(later, hand)
  <2>1. Sound(Entry, hand)
    BY EntryRest
  <2> HIDE DEF hand
  <2> QED
    BY <1>5, <2>1, SoundElse
<1>7. PICK due : Sound(woken, hand) /\ Steady(later, woken) /\ Woken(later, woken, hand, due)
  <2> HIDE DEF hand
  <2> QED
    BY <1>6, WakeSleepersSound
<1> HIDE DEF woken
<1>8. /\ woken.current = current /\ woken.next_pid = next_pid /\ woken.now = t
      /\ woken.returned = Nothing /\ woken \in KernelState
      /\ woken.pcb \in [Pcb -> PcbRecord]
  BY <1>5, <1>7, EntryRest, KernelFields DEF Steady, Sound
<1>9. /\ due = {p \in Pcb \ hand : pcb[p].state = PS_SLEEPING /\ pcb[p].wakeup <= t}
      /\ woken.pcb = [p \in Pcb |->
                        IF p \in due
                        THEN [pcb[p] EXCEPT !.state = PS_READY, !.wakeup = 0,
                                            !.prio = LegalPrio(pcb[p].prio)]
                        ELSE pcb[p]]
  <2>1. later.pcb = pcb /\ later.now = t
    BY <1>5, EntryRest
  <2> HIDE DEF hand
  <2> QED
    BY <1>7, <2>1, Zenon DEF Woken
<1>10. /\ woken.pcb[current] = pcb[current]
       /\ \A c \in Pcb \ due : woken.pcb[c] = pcb[c]
       /\ \A c \in due : /\ c \in Pcb \ {current} /\ pcb[c].state = PS_SLEEPING
                         /\ woken.pcb[c].state = PS_READY /\ woken.pcb[c].pid = pcb[c].pid
                         /\ woken.pcb[c].ppid = pcb[c].ppid
                         /\ woken.pcb[c].children = pcb[c].children
  <2>1. \A c \in Pcb \ due : woken.pcb[c] = pcb[c]
    BY <1>9
  <2>2. ASSUME NEW c \in due
        PROVE  /\ c \in Pcb \ {current} /\ pcb[c].state = PS_SLEEPING
               /\ woken.pcb[c].state = PS_READY /\ woken.pcb[c].pid = pcb[c].pid
               /\ woken.pcb[c].ppid = pcb[c].ppid
               /\ woken.pcb[c].children = pcb[c].children
    <3>1. c \in Pcb \ {current} /\ pcb[c].state = PS_SLEEPING /\ pcb[c] \in PcbRecord
      BY <1>1, <1>9
    <3>2. woken.pcb[c] = [pcb[c] EXCEPT !.state = PS_READY, !.wakeup = 0,
                                        !.prio = LegalPrio(pcb[c].prio)]
      BY <1>9, <3>1
    <3> QED
      BY <3>1, <3>2 DEF PcbRecord
  <2>3. woken.pcb[current] = pcb[current]
    BY <1>1, <1>9
  <2> QED
    BY <2>1, <2>2, <2>3
<1>11. /\ r \in PcbRecord /\ r.state = PS_RUNNING /\ r.pid = pcb[current].pid
       /\ r.ppid = pcb[current].ppid /\ r.children = pcb[current].children
       /\ r.stack = pcb[current].stack /\ r.q_ticks = left
  <2>1. r = [pcb[current] EXCEPT !.q_ticks = left]
    BY <1>10
  <2>2. r \in PcbRecord
    BY <1>1, <1>2, <2>1, States, SetStateTicks
  <2> HIDE DEF r
  <2> QED
    BY <1>1, <2>1, <2>2, EntryRest DEF PcbRecord
<1> HIDE DEF r
<1>12. Sound(used, hand) /\ used.pcb = [woken.pcb EXCEPT ![current] = r]
  <2>1. /\ current \in hand /\ woken.pcb[current].state # PS_FREE
        /\ r.stack = woken.pcb[current].stack /\ r.state # PS_FREE
    BY <1>10, <1>11, EntryRest DEF PS_RUNNING, PS_FREE
  <2> HIDE DEF hand
  <2> QED
    BY <1>7, <1>11, <2>1, SoundSet
<1>13. /\ used.current = current /\ used.next_pid = next_pid /\ used.now = t
       /\ used.returned = Nothing /\ used.pcb \in [Pcb -> PcbRecord]
       /\ used.pcb[current] = r /\ \A c \in Pcb \ {current} : used.pcb[c] = woken.pcb[c]
       /\ used \in KernelState
  <2>1. /\ used.current = current /\ used.next_pid = next_pid /\ used.now = t
        /\ used.returned = Nothing
    BY <1>8 DEF KernelState
  <2> HIDE DEF used, hand
  <2>2. used \in KernelState
    BY <1>12 DEF Sound
  <2>3. used.pcb \in [Pcb -> PcbRecord]
    BY <2>2, KernelFields
  <2> QED
    BY <1>1, <1>8, <1>12, <2>1, <2>2, <2>3
<1> HIDE DEF used
<1>14. \A c \in Pcb : /\ used.pcb[c].pid = pcb[c].pid /\ used.pcb[c].ppid = pcb[c].ppid
                      /\ used.pcb[c].children = pcb[c].children
                      /\ \/ used.pcb[c].state = pcb[c].state
                         \/ used.pcb[c].state = PS_READY /\ pcb[c].state = PS_SLEEPING
  BY <1>10, <1>11, <1>13, EntryRest
<1>15. \A c \in Pcb : /\ Used(used.pcb, c) <=> Used(pcb, c)
                      /\ Alive(used.pcb, c) <=> Alive(pcb, c)
                      /\ used.pcb[c].state = PS_WAITING => pcb[c].state = PS_WAITING
                      /\ used.pcb[c].state = PS_ZOMBIE => pcb[c].state = PS_ZOMBIE
  BY <1>14 DEF Used, Alive, PS_READY, PS_SLEEPING, PS_FREE, PS_KILLED, PS_ZOMBIE, PS_WAITING
<1>16. Tree(used.pcb, next_pid, {})
  <2>1. \A c \in Pcb : used.pcb[c].children >= pcb[c].children
    BY <1>1, <1>14, PcbFields
  <2>2. Tree(pcb, next_pid, {})
    BY EntryRest
  <2> QED
    BY <1>13, <1>14, <1>15, <2>1, <2>2, TreeSame
<1>17. Reports(used)
  BY <1>13, <1>15, NothingReturned, ReportsNothing
<1>18. Awake(used)
  <2> SUFFICES ASSUME NEW p \in Pcb, used.pcb[p].state = PS_SLEEPING
               PROVE  used.pcb[p].wakeup > used.now
    BY DEF Awake
  <2>1. p # current
    BY <1>11, <1>13 DEF PS_RUNNING, PS_SLEEPING
  <2>2. p \notin due
    BY <1>10, <1>13, <2>1 DEF PS_READY, PS_SLEEPING
  <2>3. used.pcb[p] = pcb[p]
    BY <1>10, <1>13, <2>1, <2>2
  <2>4. ~ (pcb[p].wakeup <= t)
    BY <1>9, <2>1, <2>2, <2>3
  <2>5. pcb[p].wakeup \in 0 .. TIME_MOD - 1
    BY <1>1, PcbFields
  <2> QED
    BY <1>2, <1>13, <2>3, <2>4, <2>5, KernelConstants
<1>19. CASE ~ (used.pcb[current].q_ticks < 1)
  <2>1. AtRest(used)
    BY <1>11, <1>12, <1>13, <1>16 DEF AtRest
  <2>2. Preferred(used)
    BY <1>11, <1>13 DEF Preferred, PS_RUNNING, PS_READY
  <2> QED
    BY <1>3, <1>13, <1>17, <1>18, <1>19, <2>1, <2>2 DEF Ended
<1>20. CASE used.pcb[current].q_ticks < 1
  <2> DEFINE s  == Schedule(used, current)
             k2 == Dispatch(s)
  <2>1. Sound(used, {current}) /\ used.pcb[current].state # PS_FREE
    BY <1>11, <1>12, <1>13 DEF PS_RUNNING, PS_FREE
  <2>2. Preferred(k2)
    BY <1>1, <2>1, PreemptPrefers
  <2>3. Sound(s, hand \ {current}) /\ Scheduled(used, s, current)
    <3>1. current \in hand /\ Sound(used, hand)
      BY <2>1
    <3> HIDE DEF hand
    <3> QED
      BY <2>1, <3>1, ScheduleSound
  <2>4. Sound(s, {})
    <3>1. hand \ {current} = {}
      OBVIOUS
    <3> QED
      BY <2>3, <3>1
  <2>5. Becomes(k2)
    BY <1>3, <1>20
  <2> HIDE DEF s
  <2>6. /\ s.next_pid = next_pid /\ s.now = t /\ s.returned = Nothing
        /\ s.pcb[current].state = PS_READY
        /\ \A c \in Pcb \ {current} : s.pcb[c] = used.pcb[c]
    BY <1>13, <2>3 DEF Scheduled, Steady
  <2>7. Tree(s.pcb, s.next_pid, {})
    <3>1. Alive(used.pcb, current)
      BY <1>1, <1>15, EntryRest
    <3> QED
      BY <1>1, <1>16, <2>3, <2>6, <3>1, TreeReady
  <2>8. Reports(s)
    <3>1. \A c \in Pcb : Used(pcb, c) => Used(s.pcb, c)
      BY <1>15, <2>6 DEF Used, PS_READY, PS_FREE
    <3> QED
      BY <2>6, <3>1, NothingReturned, ReportsNothing
  <2>9. Ended(k2)
    BY <2>4, <2>7, <2>8, DispatchEnds
  <2>10. Awake(s)
    BY <1>13, <1>18, <2>6 DEF Awake, PS_READY, PS_SLEEPING
  <2>11. Awake(k2)
    BY <2>4, <2>10, DispatchAwake
  <2>12. k2 \in KernelState
    BY <2>9 DEF Ended, AtRest, GaveUp, Sound
  <2> HIDE DEF k2
  <2> QED
    BY <2>2, <2>5, <2>9, <2>11, <2>12
<1> QED
  BY <1>19, <1>20

-----------------------------------------------------------------------------
(* The initial state, and every step.                                      *)

(* The table that _init leaves when it dispatches init.                    *)
LEMMA InitTable ==
  ASSUME Init
  PROVE  /\ pcb \in [Pcb -> PcbRecord] /\ pcb[InitPcb] = InitProcess
         /\ \A p \in Pcb \ {InitPcb} : pcb[p] = FreePcb
         /\ InitProcess.state = PS_RUNNING /\ InitProcess.pid = PID_INIT
         /\ InitProcess.ppid = PID_INIT /\ InitProcess.stack = 1
         /\ FreePcb.state = PS_FREE /\ FreePcb.pid = PID_NONE /\ FreePcb.ppid = PID_NONE
<1>1. pcb \in [Pcb -> PcbRecord]
  BY InitType, KType, KernelFields
<1>2. InitPcb \in Pcb
  BY Numbers
<1>3. pcb[InitPcb] = InitProcess /\ \A p \in Pcb \ {InitPcb} : pcb[p] = FreePcb
  BY <1>2 DEF Init
<1> QED
  BY <1>1, <1>3 DEF InitProcess, FreePcb

(* 2, 3, ... n, as _pcb_init and _stk_init free the PCBs and the stacks    *)
(* and the first of each is taken.                                         *)
LEMMA ListsFromTwo ==
  ASSUME NEW n \in Nat, n >= 1
  PROVE  LET s == [i \in 1 .. n - 1 |-> i + 1] IN
         s \in Seq(1 .. n) /\ Len(s) = n - 1 /\ Lists(s, (1 .. n) \ {1})
<1> DEFINE s == [i \in 1 .. n - 1 |-> i + 1]
<1>1. s \in Seq(1 .. n) /\ Len(s) = n - 1
  OBVIOUS
<1>2. /\ \A i, j \in 1 .. Len(s) : s[i] = s[j] => i = j
      /\ \A i \in 1 .. Len(s) : s[i] \in (1 .. n) \ {1}
  BY <1>1
<1>3. ASSUME NEW x \in (1 .. n) \ {1}
      PROVE  \E i \in 1 .. Len(s) : s[i] = x
  <2>1. x - 1 \in 1 .. Len(s) /\ s[x - 1] = x
    BY <1>1
  <2> QED
    BY <2>1
<1> HIDE DEF s
<1>4. Lists(s, (1 .. n) \ {1})
  BY <1>1, <1>2, <1>3, ListsPlaces, ZenonT(60)
<1> QED
  BY <1>1, <1>4 DEF s

LEMMA InitSound ==
  ASSUME Init
  PROVE  Sound(K, {InitPcb})
<1> DEFINE out   == {InitPcb}
           pcbs  == [i \in 1 .. N_PCBS - 1 |-> i + 1]
           stack == [i \in 1 .. N_STACKS - 1 |-> i + 1]
<1>1. TypeOK
  BY InitType
<1>2. /\ K \in KernelState /\ K.pcb = pcb /\ K.queue = queue /\ K.free_stacks = free_stacks
      /\ K.qnodes = qnodes /\ K.panic = panic
  BY <1>1, KType DEF TypeOK, K
<1>3. /\ N_PCBS \in Nat /\ N_PCBS >= 1 /\ N_STACKS \in Nat /\ N_STACKS >= 1
      /\ N_QNODES \in Nat /\ InitPcb \in Pcb
  BY Numbers, KernelConstants DEF N_PCBS, N_STACKS, N_QNODES
<1>4. pcbs \in Seq(Pcb) /\ Len(pcbs) = N_PCBS - 1 /\ Lists(pcbs, Pcb \ {InitPcb})
  BY <1>3, ListsFromTwo DEF Pcb, InitPcb
<1>5. stack \in Seq(Stack) /\ Len(stack) = N_STACKS - 1 /\ Lists(stack, Stack \ {1})
  BY <1>3, ListsFromTwo DEF Stack
<1>6. /\ free_stacks = stack /\ panic = NoPanic
      /\ qnodes = N_QNODES - (N_PCBS - 1) - (N_STACKS - 1)
      /\ \A q \in QueueId : queue[q] = IF q = "free_pcbs" THEN pcbs ELSE << >>
  BY DEF Init
<1> HIDE DEF pcbs, stack
<1>7. /\ pcb[InitPcb].state = PS_RUNNING /\ pcb[InitPcb].stack = 1
      /\ \A p \in Pcb \ {InitPcb} : pcb[p].state = PS_FREE
  BY InitTable
<1>8. Placed(K, {InitPcb})
  <2>1. \A p \in Pcb \ {InitPcb} : K.pcb[p].state = PS_FREE
    BY <1>2, <1>7
  <2>2. \A p \in Pcb \ {InitPcb} : QueueOf(K, p) = "free_pcbs"
    BY <1>2, <2>1, QueueOfState
  <2>3. \A q \in QueueId : QueuedAt(K, {InitPcb}, q) =
                             IF q = "free_pcbs" THEN Pcb \ {InitPcb} ELSE {}
    BY <2>2 DEF QueuedAt
  <2>4. Lists(<< >>, {})
    BY DEF Lists, IsInjective, ToSet
  <2>5. \A q \in QueueId : Lists(K.queue[q], QueuedAt(K, {InitPcb}, q))
    BY <1>2, <1>4, <1>6, <2>3, <2>4
  <2> QED
    BY <2>1, <2>5 DEF Placed, PS_FREE, PS_RUNNING
<1>9. Stacked(K)
  <2>1. Owners(K) = {InitPcb}
    BY <1>2, <1>3, <1>7 DEF Owners, PS_RUNNING, PS_FREE
  <2>2. Owned(K) = {1}
    BY <1>2, <1>7, <2>1 DEF Owned
  <2>3. 1 \in Stack
    BY <1>3 DEF Stack
  <2> QED
    BY <1>2, <1>5, <1>6, <1>7, <2>1, <2>2, <2>3 DEF Stacked
<1>10. Sorted(K)
  <2>1. K.queue["sleeping"] = << >>
    BY <1>2, <1>6 DEF QueueId
  <2> QED
    BY <2>1 DEF Sorted
<1>11. Balanced(K, {InitPcb})
  <2>1. Cardinality(Pcb \ {InitPcb}) = N_PCBS - 1
    BY <1>4, ListsLen
  <2> QED
    BY <1>2, <1>3, <1>5, <1>6, <2>1 DEF Balanced
<1> QED
  BY <1>2, <1>3, <1>6, <1>8, <1>9, <1>10, <1>11 DEF Sound, Halted

LEMMA InitTree ==
  ASSUME Init
  PROVE  Tree(pcb, next_pid, {})
<1>1. InitPcb \in Pcb /\ PID_INIT # PID_NONE /\ next_pid = PID_FIRST_USER
  BY Numbers DEF Init
<1>2. Used(pcb, InitPcb) /\ \A p \in Pcb \ {InitPcb} : ~ Used(pcb, p)
  BY InitTable DEF Used, PS_RUNNING, PS_FREE
<1>3. Rooted(pcb)
  BY <1>2, InitTable DEF Rooted
<1>4. Numbered(pcb, next_pid)
  <2>1. next_pid \in PID_FIRST_USER .. PID_LIMIT
    BY <1>1, Numbers
  <2>2. \A p \in Pcb : ~ Used(pcb, p) => pcb[p].pid = PID_NONE /\ pcb[p].ppid = PID_NONE
    BY <1>2, InitTable
  <2> QED
    BY <1>2, <2>1, <2>2 DEF Numbered
<1>5. Parented(pcb)
  BY <1>1, <1>2, InitTable DEF Parented
<1>6. KidsCounted(pcb)
  <2> SUFFICES ASSUME NEW p \in Pcb, Alive(pcb, p)
               PROVE  pcb[p].children >= Cardinality(Kids(pcb, p))
    BY DEF KidsCounted
  <2>1. p = InitPcb
    BY <1>2 DEF Alive, Used
  <2>2. Kids(pcb, p) = {}
    BY <1>1, <2>1, InitTable DEF Kids
  <2>3. pcb[p].children \in Nat
    BY InitTable, PcbFields
  <2> QED
    BY <2>2, <2>3, FS_EmptySet
<1>7. Noticed(pcb, {})
  BY InitTable DEF Noticed, PS_FREE, PS_WAITING
<1> QED
  BY <1>3, <1>4, <1>5, <1>6, <1>7, InitTable DEF Tree

LEMMA InitKept ==
  ASSUME Init
  PROVE  Kept
<1>1. TypeOK /\ current = InitPcb
  BY InitType DEF Init
<1>2. K.current = current /\ K.pcb = pcb /\ K.next_pid = next_pid
  BY <1>1, KType
<1>3. pcb[InitPcb].state = PS_RUNNING
  BY InitTable
<1>4. AtRest(K)
  BY <1>1, <1>2, <1>3, InitSound, InitTree DEF AtRest
<1> QED
  BY <1>4 DEF Kept

(* The kernel takes steps while it is at rest only, and a step ends in     *)
(* order.                                                                  *)
LEMMA StepEnds ==
  ASSUME Kept, Next
  PROVE  /\ AtRest(K)
         /\ \/ Ends
            \/ \E k \in KernelState : Becomes(k) /\ Ended(k) /\ Awake(k) /\ Preferred(k)
<1>1. panic = NoPanic
  BY DEF Next, GetPid, GetPpid, GetTime, GetStatus, Write, WriteBadChannel, Exit, BogusCall,
     Kill, KillNobody, KillDead, KillBadState, KillLive, Wait, WaitNoChild, WaitCollect,
     WaitBlock, Fork, ForkNoPid, ForkNoPcb, ForkChild, Exec, Sleep, ReadConsoleEmpty,
     ReadConsole, ReadSio, ReadBadChannel, RxChar, KeyPress, Tick, Enter
<1>2. AtRest(K)
  <2>1. K.panic = panic
    BY DEF K
  <2> QED
    BY <1>1, <2>1 DEF Kept, GaveUp, NoPanic
<1>3. CASE \/ GetPid \/ GetPpid \/ GetTime \/ GetStatus \/ Write \/ WriteBadChannel
           \/ ReadConsoleEmpty \/ ReadBadChannel
  BY <1>2, <1>3, QueriesEnd
<1>4. CASE Exit
  <2>1. PICK status \in ExitStatuses : ExitWith(status)
    BY <1>4 DEF Exit
  <2>2. status \in ExitStatuses \cup {EXIT_BAD_CODE}
    BY <2>1
  <2> QED
    BY <1>2, <2>1, <2>2, ExitEnds
<1>5. CASE BogusCall
  BY <1>2, <1>5, ExitEnds DEF BogusCall
<1>6. CASE Kill
  BY <1>2, <1>6, KillEnds
<1>7. CASE Wait
  BY <1>2, <1>7, WaitEnds
<1>8. CASE Fork
  BY <1>2, <1>8, ForkEnds
<1>9. CASE Exec
  BY <1>2, <1>9, ExecEnds
<1>10. CASE Sleep
  BY <1>2, <1>10, SleepEnds
<1>11. CASE ReadConsole \/ ReadSio
  BY <1>2, <1>11, ReadsEnd
<1>12. CASE RxChar
  BY <1>2, <1>12, RxCharEnds
<1>13. CASE KeyPress
  BY <1>2, <1>13, KeyPressEnds
<1>14. CASE Tick
  BY <1>2, <1>14, TickEnds
<1> QED
  BY <1>2, <1>3, <1>4, <1>5, <1>6, <1>7, <1>8, <1>9, <1>10, <1>11, <1>12, <1>13, <1>14
     DEF Next

-----------------------------------------------------------------------------
(* The counts of children.  Forks pays for everything that raises one: a   *)
(* child that is not init's can be adopted, once, and init's count is      *)
(* never more than the forks less those that can still be adopted.         *)

Forks(k) == k.next_pid - PID_FIRST_USER

Adoptable(t) == {c \in Pcb \ {InitPcb} : t[c].ppid \notin {PID_INIT, PID_NONE}}

Fits(k) ==
  /\ k \in KernelState
  /\ \A p \in Pcb : k.pcb[p].children <= Forks(k)
  /\ k.pcb[InitPcb].children + Cardinality(Adoptable(k.pcb)) <= Forks(k)

(* No count has grown and nobody has another parent, but for those who are *)
(* gone.                                                                   *)
Leaner(k, k2) ==
  /\ k2 \in KernelState /\ k2.next_pid = k.next_pid
  /\ \A p \in Pcb : /\ k2.pcb[p].children <= k.pcb[p].children
                    /\ k2.pcb[p].ppid \in {k.pcb[p].ppid, PID_NONE}

(* The numbers that are compared.                                          *)
LEMMA CountNumbers ==
  ASSUME NEW k \in KernelState
  PROVE  /\ k.next_pid \in Int /\ Forks(k) \in Int
         /\ \A p \in Pcb : k.pcb[p] \in PcbRecord /\ k.pcb[p].children \in Nat
         /\ Adoptable(k.pcb) \in SUBSET Pcb /\ IsFiniteSet(Adoptable(k.pcb))
         /\ Cardinality(Adoptable(k.pcb)) \in Nat
<1>1. \A p \in Pcb : k.pcb[p] \in PcbRecord /\ k.pcb[p].children \in Nat
  BY KernelFields, PcbFields
<1>2. k.next_pid \in 0 .. PID_LIMIT /\ PID_LIMIT \in Nat /\ PID_FIRST_USER \in Nat
  BY KernelFields, Numbers
<1>3. Adoptable(k.pcb) \in SUBSET Pcb
  BY DEF Adoptable
<1>4. IsFiniteSet(Adoptable(k.pcb)) /\ Cardinality(Adoptable(k.pcb)) \in Nat
  BY <1>3, PcbFinite, FS_CardinalityType
<1> QED
  BY <1>1, <1>2, <1>3, <1>4 DEF Forks

(* With no count grown, all of them fit.                                   *)
LEMMA FitsLeaner ==
  ASSUME NEW k, Fits(k), NEW k2, Leaner(k, k2)
  PROVE  Fits(k2)
<1>1. k \in KernelState /\ k2 \in KernelState /\ InitPcb \in Pcb
  BY Numbers DEF Fits, Leaner
<1>2. Forks(k2) = Forks(k)
  BY DEF Leaner, Forks
<1>3. Adoptable(k2.pcb) \subseteq Adoptable(k.pcb)
  BY DEF Leaner, Adoptable
<1>4. Cardinality(Adoptable(k2.pcb)) <= Cardinality(Adoptable(k.pcb))
  BY <1>1, <1>3, CountNumbers, FS_Subset
<1>5. \A p \in Pcb : k2.pcb[p].children <= Forks(k2)
  BY <1>1, <1>2, CountNumbers DEF Fits, Leaner
<1>6. k2.pcb[InitPcb].children <= k.pcb[InitPcb].children
  BY <1>1 DEF Leaner
<1>7. k2.pcb[InitPcb].children + Cardinality(Adoptable(k2.pcb)) <= Forks(k2)
  BY <1>1, <1>2, <1>4, <1>6, CountNumbers DEF Fits
<1> QED
  BY <1>1, <1>5, <1>7 DEF Fits

LEMMA LeanerSame ==
  ASSUME NEW k \in KernelState, NEW k2 \in KernelState, k2.pcb = k.pcb,
         k2.next_pid = k.next_pid
  PROVE  Leaner(k, k2)
BY CountNumbers DEF Leaner

LEMMA LeanerThen ==
  ASSUME NEW k \in KernelState, NEW k2, NEW k3, Leaner(k, k2), Leaner(k2, k3)
  PROVE  Leaner(k, k3)
<1>1. k2 \in KernelState /\ k3 \in KernelState
  BY DEF Leaner
<1>2. ASSUME NEW p \in Pcb
      PROVE  /\ k3.pcb[p].children <= k.pcb[p].children
             /\ k3.pcb[p].ppid \in {k.pcb[p].ppid, PID_NONE}
  <2>1. /\ k.pcb[p].children \in Nat /\ k2.pcb[p].children \in Nat
        /\ k3.pcb[p].children \in Nat
    BY <1>1, <1>2, CountNumbers
  <2>2. /\ k3.pcb[p].children <= k2.pcb[p].children
        /\ k2.pcb[p].children <= k.pcb[p].children
    BY <1>2 DEF Leaner
  <2> QED
    BY <1>2, <2>1, <2>2 DEF Leaner
<1> QED
  BY <1>1, <1>2 DEF Leaner

(* One PCB is changed.                                                     *)
LEMMA LeanerOne ==
  ASSUME NEW k \in KernelState, NEW p \in Pcb, NEW r \in PcbRecord,
         r.children <= k.pcb[p].children, r.ppid \in {k.pcb[p].ppid, PID_NONE}
  PROVE  Leaner(k, [k EXCEPT !.pcb[p] = r])
<1> DEFINE k2 == [k EXCEPT !.pcb[p] = r]
<1>1. k2 \in KernelState
  BY SetPcb
<1>2. k2.next_pid = k.next_pid /\ k2.pcb = [k.pcb EXCEPT ![p] = r]
  BY DEF KernelState
<1>3. k.pcb \in [Pcb -> PcbRecord]
  BY KernelFields
<1> HIDE DEF k2
<1>4. Leaner(k, k2)
  BY <1>1, <1>2, <1>3, CountNumbers DEF Leaner
<1> QED
  BY <1>4 DEF k2

-----------------------------------------------------------------------------
(* Most subroutines leave the counts and the parents alone.                *)

LEMMA EnqueLeaner ==
  ASSUME NEW k \in KernelState, NEW q \in QueueId, NEW p \in Pcb
  PROVE  Leaner(k, Enque(k, q, p))
<1>1. Enque(k, q, p) \in KernelState /\ ButQueues(k, Enque(k, q, p))
  BY EnqueFields
<1> QED
  BY <1>1, LeanerSame DEF ButQueues

LEMMA PanicLeaner ==
  ASSUME NEW k \in KernelState, NEW site \in PanicSite
  PROVE  Leaner(k, Panic(k, site))
<1>1. Panic(k, site).pcb = k.pcb /\ Panic(k, site).next_pid = k.next_pid
  BY DEF Panic, KernelState
<1> QED
  BY <1>1, PanicType, LeanerSame

LEMMA EnqueOrPanicLeaner ==
  ASSUME NEW k \in KernelState, NEW q \in QueueId, NEW p \in Pcb, NEW site \in PanicSite
  PROVE  Leaner(k, EnqueOrPanic(k, q, p, site))
BY EnqueLeaner, PanicLeaner DEF EnqueOrPanic

LEMMA DequeLeaner ==
  ASSUME NEW k \in KernelState, NEW q \in QueueId, k.queue[q] # << >>
  PROVE  Leaner(k, Deque(k, q))
<1>1. Deque(k, q).pcb = k.pcb /\ Deque(k, q).next_pid = k.next_pid
  BY DEF Deque, KernelState
<1> QED
  BY <1>1, DequeType, LeanerSame

LEMMA RemoveOrPanicLeaner ==
  ASSUME NEW k \in KernelState, NEW q \in QueueId, NEW p \in Pcb, NEW site \in PanicSite
  PROVE  Leaner(k, RemoveOrPanic(k, q, p, site))
<1>1. RemoveOrPanic(k, q, p, site).next_pid = k.next_pid
  BY DEF RemoveOrPanic, Panic, KernelState
<1> QED
  BY <1>1, RemoveOrPanicType, LeanerSame

LEMMA ScheduleLeaner ==
  ASSUME NEW k \in KernelState, NEW p \in Pcb
  PROVE  Leaner(k, Schedule(k, p))
<1> DEFINE prio == LegalPrio(k.pcb[p].prio)
           r    == [k.pcb[p] EXCEPT !.prio = prio, !.state = PS_READY]
           set  == [k EXCEPT !.pcb[p] = r]
           site == "_schedule: can't enque ready PCB"
<1>1. prio \in Prio /\ prio \in Nat
  BY DEF LegalPrio, Prio, P_SYSTEM, P_LOW, P_MIN
<1>2. k.pcb[p] \in PcbRecord
  BY KernelFields
<1>3. r \in PcbRecord
  BY <1>1, <1>2, States, SetPrioState
<1>4. r.children = k.pcb[p].children /\ r.ppid = k.pcb[p].ppid
  BY <1>2 DEF PcbRecord
<1>5. Ready(prio) \in QueueId
  BY <1>1, ReadyType
<1>6. Schedule(k, p) = IF Halted(k) THEN k ELSE EnqueOrPanic(set, Ready(prio), p, site)
  BY DEF Schedule
<1> HIDE DEF prio, r
<1>7. k.pcb[p].children <= k.pcb[p].children
  BY CountNumbers
<1>8. Leaner(k, set)
  BY <1>3, <1>4, <1>7, LeanerOne
<1> HIDE DEF set
<1>9. set \in KernelState
  BY <1>8 DEF Leaner
<1>10. Leaner(k, EnqueOrPanic(set, Ready(prio), p, site))
  BY <1>5, <1>8, <1>9, EnqueOrPanicLeaner, LeanerThen DEF PanicSite
<1>11. Leaner(k, k)
  BY LeanerSame
<1> QED
  BY <1>6, <1>10, <1>11

LEMMA DispatchLeaner ==
  ASSUME NEW k \in KernelState
  PROVE  Leaner(k, Dispatch(k))
<1> DEFINE ready == {prio \in Prio : k.queue[Ready(prio)] # << >>}
           q     == Ready(Min(ready))
           next  == Head(k.queue[q])
           d     == Deque(k, q)
           r     == [d.pcb[next] EXCEPT !.state = PS_RUNNING, !.q_ticks = QUANT_STD]
           k2    == [d EXCEPT !.current = next, !.pcb[next] = r]
<1>1. CASE Halted(k)
  BY <1>1, LeanerSame DEF Dispatch
<1>2. CASE ~ Halted(k) /\ ready = {}
  <2>1. Dispatch(k) = Panic(k, "_dispatch: no ready processes")
    BY <1>2 DEF Dispatch
  <2> QED
    BY <2>1, PanicLeaner DEF PanicSite
<1>3. CASE ~ Halted(k) /\ ready # {}
  <2>1. ready \in SUBSET Nat
    BY DEF Prio, P_SYSTEM, P_MIN
  <2>2. Min(ready) \in ready
    BY <1>3, <2>1, MinNat
  <2>3. q \in QueueId /\ k.queue[q] # << >>
    BY <2>2, ReadyType
  <2>4. Dispatch(k) = k2
    BY <1>3 DEF Dispatch
  <2> HIDE DEF q
  <2>5. d \in KernelState /\ next \in Pcb /\ Leaner(k, d)
    BY <2>3, DequeType, DequeLeaner
  <2> HIDE DEF d, next
  <2>6. d.pcb[next] \in PcbRecord /\ QUANT_STD \in 0 .. 255
    BY <2>5, KernelFields, KernelConstants
  <2>7. r \in PcbRecord
    BY <2>6, States, SetStateTicks
  <2>8. r.children = d.pcb[next].children /\ r.ppid = d.pcb[next].ppid
    BY <2>6 DEF PcbRecord
  <2> HIDE DEF r
  <2>9. d.pcb[next].children <= d.pcb[next].children
    BY <2>5, CountNumbers
  <2>10. Leaner(d, [d EXCEPT !.pcb[next] = r])
    BY <2>5, <2>7, <2>8, <2>9, LeanerOne
  <2>11. /\ k2 \in KernelState /\ k2.next_pid = [d EXCEPT !.pcb[next] = r].next_pid
         /\ k2.pcb = [d EXCEPT !.pcb[next] = r].pcb
    BY <2>5, <2>7, SetCurrent DEF KernelState
  <2> HIDE DEF k2
  <2>12. Leaner(d, k2)
    BY <2>10, <2>11 DEF Leaner
  <2> QED
    BY <2>4, <2>5, <2>12, LeanerThen
<1> QED
  BY <1>1, <1>2, <1>3

(* What is freed has no children and no parent.                            *)
LEMMA DeallocLeaner ==
  ASSUME NEW k \in KernelState, NEW p \in Pcb
  PROVE  Leaner(k, PcbDealloc(k, p))
<1> DEFINE freed == [k EXCEPT !.pcb[p] = FreePcb]
<1>1. FreePcb.children <= k.pcb[p].children /\ FreePcb.ppid = PID_NONE
  BY CountNumbers DEF FreePcb
<1>2. Leaner(k, freed)
  BY <1>1, FreePcbType, LeanerOne
<1>3. "free_pcbs" \in QueueId
  BY DEF QueueId
<1>4. PcbDealloc(k, p) = IF k.qnodes = 0 THEN freed ELSE Enque(freed, "free_pcbs", p)
  BY DEF PcbDealloc
<1> HIDE DEF freed
<1>5. freed \in KernelState
  BY <1>2 DEF Leaner
<1>6. Leaner(k, Enque(freed, "free_pcbs", p))
  BY <1>2, <1>3, <1>5, EnqueLeaner, LeanerThen
<1> QED
  BY <1>2, <1>4, <1>6

LEMMA CleanupLeaner ==
  ASSUME NEW k \in KernelState, NEW p \in Pcb
  PROVE  Leaner(k, PcbCleanup(k, p))
<1> DEFINE freed == StkDealloc(k, k.pcb[p].stack)
<1>1. k.pcb[p].stack \in Stack \cup {NoStack}
  BY CountNumbers, PcbFields
<1>2. freed \in KernelState
  BY <1>1, StkDeallocType
<1>3. freed.pcb = k.pcb /\ freed.next_pid = k.next_pid
  BY DEF StkDealloc, KernelState
<1>4. PcbCleanup(k, p) = PcbDealloc(freed, p)
  BY DEF PcbCleanup
<1> HIDE DEF freed
<1> QED
  BY <1>2, <1>3, <1>4, LeanerSame, DeallocLeaner, LeanerThen

LEMMA WakeSleepersLeaner ==
  ASSUME NEW k \in KernelState
  PROVE  Leaner(k, WakeSleepers(k))
<1> DEFINE k2 == WakeSleepers(k)
<1>1. k2 \in KernelState
  BY WakeSleepersType
<1>2. k2.next_pid = k.next_pid
  BY DEF WakeSleepers, KernelState
<1>3. ASSUME NEW p \in Pcb
      PROVE  k2.pcb[p].children = k.pcb[p].children /\ k2.pcb[p].ppid = k.pcb[p].ppid
  <2>1. k.pcb[p] \in PcbRecord
    BY <1>3, CountNumbers
  <2> QED
    BY <1>3, <2>1 DEF WakeSleepers, PcbRecord, KernelState
<1> HIDE DEF k2
<1>4. Leaner(k, k2)
  BY <1>1, <1>2, <1>3, CountNumbers DEF Leaner
<1> QED
  BY <1>4 DEF k2

(* A value given to a process.                                             *)
LEMMA TellLeaner ==
  ASSUME NEW k \in KernelState, NEW p \in Pcb, NEW v \in Seq(Int)
  PROVE  Leaner(k, [k EXCEPT !.returned[p] = v])
<1> DEFINE k2 == [k EXCEPT !.returned[p] = v]
<1>1. k2 \in KernelState
  BY SetReturned
<1>2. k2.pcb = k.pcb /\ k2.next_pid = k.next_pid
  BY DEF KernelState
<1> HIDE DEF k2
<1>3. Leaner(k, k2)
  BY <1>1, <1>2, LeanerSame
<1> QED
  BY <1>3 DEF k2

LEMMA WakeParentLeaner ==
  ASSUME NEW k \in KernelState, NEW parent \in Pcb, NEW p \in Pcb
  PROVE  Leaner(k, WakeParent(k, parent, p))
<1> DEFINE out  == RemoveOrPanic(k, "waiting", parent, "_zombify: waiting parent isn't")
           v    == <<E_SUCCESS, k.pcb[p].pid, k.pcb[p].exitstatus>>
           told == [out EXCEPT !.returned[parent] = v]
           gone == PcbCleanup(told, p)
<1>1. Leaner(k, out)
  BY RemoveOrPanicLeaner DEF QueueId, PanicSite
<1>2. v \in Seq(Int)
  <2>1. k.pcb[p].pid \in Int /\ k.pcb[p].exitstatus \in Int
    BY CountNumbers, PcbFields
  <2> QED
    BY <2>1 DEF E_SUCCESS
<1>3. WakeParent(k, parent, p) = IF Halted(out) THEN out ELSE Schedule(gone, parent)
  BY DEF WakeParent
<1> HIDE DEF out, v
<1>4. Leaner(out, told) /\ out \in KernelState
  BY <1>1, <1>2, TellLeaner DEF Leaner
<1> HIDE DEF told
<1>5. Leaner(told, gone) /\ told \in KernelState
  BY <1>4, CleanupLeaner DEF Leaner
<1> HIDE DEF gone
<1>6. Leaner(gone, Schedule(gone, parent))
  BY <1>5, ScheduleLeaner DEF Leaner
<1>7. Leaner(out, gone)
  BY <1>4, <1>5, LeanerThen
<1>8. Leaner(out, Schedule(gone, parent))
  BY <1>4, <1>6, <1>7, LeanerThen
<1>9. Leaner(k, Schedule(gone, parent))
  BY <1>1, <1>8, LeanerThen
<1> QED
  BY <1>1, <1>3, <1>9

(* init counts the orphans, who cannot be adopted a second time.           *)
LEMMA ReparentFits ==
  ASSUME NEW k, Fits(k), NEW p \in Pcb, k.pcb[InitPcb].ppid = PID_INIT,
         k.pcb[p].pid # PID_NONE, p = InitPcb <=> k.pcb[p].pid = PID_INIT
  PROVE  Fits(Reparent(k, p))
<1> DEFINE z       == Reparent(k, p)
           orphans == IF k.pcb[p].children > 0 THEN ChildrenOf(k, k.pcb[p].pid) ELSE {}
           mine    == Adoptable(k.pcb)
           theirs  == Adoptable(z.pcb)
<1>1. k \in KernelState /\ z \in KernelState /\ InitPcb \in Pcb
  BY ReparentType, Numbers DEF Fits
<1>2. z.next_pid = k.next_pid /\ Forks(z) = Forks(k) /\ Forks(k) \in Int
  <2>1. z.next_pid = k.next_pid
    BY <1>1 DEF Reparent, KernelState
  <2> QED
    BY <1>1, <2>1, CountNumbers DEF Forks
<1>3. ASSUME NEW c \in Pcb
      PROVE  /\ z.pcb[c].ppid = IF c \in orphans THEN PID_INIT ELSE k.pcb[c].ppid
             /\ c = p => z.pcb[c].children = 0
             /\ c # p /\ c = InitPcb =>
                  z.pcb[c].children = k.pcb[c].children + Cardinality(orphans)
             /\ c # p /\ c # InitPcb => z.pcb[c].children = k.pcb[c].children
  <2> DEFINE children == IF c = p THEN 0
                         ELSE IF c = InitPcb THEN k.pcb[c].children + Cardinality(orphans)
                         ELSE k.pcb[c].children
  <2>1. k.pcb[c] \in PcbRecord
    BY <1>1, CountNumbers
  <2>2. z.pcb[c] = [k.pcb[c] EXCEPT
           !.ppid     = IF c \in orphans THEN PID_INIT ELSE @,
           !.children = children]
    BY <1>1, <1>3 DEF Reparent, KernelState
  <2>3. /\ c = p => children = 0
        /\ c # p /\ c = InitPcb => children = k.pcb[c].children + Cardinality(orphans)
        /\ c # p /\ c # InitPcb => children = k.pcb[c].children
    OBVIOUS
  <2> HIDE DEF z, orphans, children
  <2> QED
    BY <2>1, <2>2, <2>3 DEF PcbRecord
<1>4. \A c \in orphans : c \in Pcb /\ k.pcb[c].ppid = k.pcb[p].pid
  BY DEF ChildrenOf
<1>5. \A c \in Pcb : k.pcb[c].children \in Nat /\ k.pcb[c].children <= Forks(k)
  BY <1>1, CountNumbers DEF Fits
<1>6. Fits(z) <=> /\ \A c \in Pcb : z.pcb[c].children <= Forks(k)
                  /\ z.pcb[InitPcb].children + Cardinality(theirs) <= Forks(k)
  BY <1>1, <1>2 DEF Fits
<1> HIDE DEF z, orphans
<1>7. CASE p = InitPcb
  <2>1. ASSUME NEW c \in Pcb
        PROVE  /\ z.pcb[c].children <= k.pcb[c].children
               /\ z.pcb[c].ppid \in {k.pcb[c].ppid, PID_NONE}
    <3>1. k.pcb[c].children \in Nat /\ z.pcb[c].children \in {0, k.pcb[c].children}
      BY <1>3, <1>5, <1>7, <2>1
    <3>2. z.pcb[c].children <= k.pcb[c].children
      BY <3>1
    <3>3. c \in orphans => k.pcb[c].ppid = PID_INIT
      BY <1>4, <1>7
    <3>4. z.pcb[c].ppid = k.pcb[c].ppid
      BY <1>3, <2>1, <3>3
    <3> QED
      BY <3>2, <3>4
  <2>2. Leaner(k, z)
    BY <1>1, <1>2, <2>1 DEF Leaner
  <2>3. Fits(z)
    BY <2>2, FitsLeaner
  <2> QED
    BY <2>3 DEF z
<1>8. CASE p # InitPcb
  <2>1. orphans \subseteq mine
    BY <1>4, <1>8 DEF Adoptable
  <2>2. theirs = mine \ orphans
    BY <1>1, <1>3 DEF Adoptable
  <2>3. mine \in SUBSET Pcb /\ theirs \in SUBSET Pcb /\ orphans \in SUBSET Pcb
    BY <1>4 DEF Adoptable
  <2> HIDE DEF mine, theirs
  <2>4. /\ Cardinality(mine) \in Nat /\ Cardinality(theirs) \in Nat
        /\ Cardinality(orphans) \in Nat
        /\ IsFiniteSet(theirs) /\ IsFiniteSet(orphans)
    BY <2>3, PcbFinite, FS_CardinalityType
  <2>5. mine = theirs \cup orphans /\ theirs \cap orphans = {}
    BY <2>1, <2>2
  <2>6. Cardinality(mine) = Cardinality(theirs) + Cardinality(orphans)
    BY <2>4, <2>5, CardDisjoint
  <2>7. z.pcb[InitPcb].children = k.pcb[InitPcb].children + Cardinality(orphans)
    BY <1>1, <1>3, <1>8
  <2>8. k.pcb[InitPcb].children + Cardinality(mine) <= Forks(k)
    BY DEF Fits, mine
  <2>9. z.pcb[InitPcb].children + Cardinality(theirs) <= Forks(k)
    BY <1>1, <1>2, <1>5, <2>4, <2>6, <2>7, <2>8
  <2>10. ASSUME NEW c \in Pcb
         PROVE  z.pcb[c].children <= Forks(k)
    <3>1. CASE c = p
      <4>1. z.pcb[c].children = 0
        BY <1>3, <2>10, <3>1
      <4>2. k.pcb[c].children \in Nat /\ k.pcb[c].children <= Forks(k)
        BY <1>5, <2>10
      <4> QED
        BY <1>2, <4>1, <4>2
    <3>2. CASE c # p /\ c = InitPcb
      BY <1>1, <1>2, <1>5, <2>4, <2>7, <2>9, <3>2
    <3>3. CASE c # p /\ c # InitPcb
      BY <1>3, <1>5, <2>10, <3>3
    <3> QED
      BY <3>1, <3>2, <3>3
  <2>11. Fits(z)
    BY <1>6, <2>9, <2>10
  <2> QED
    BY <2>11 DEF z
<1> QED
  BY <1>7, <1>8

LEMMA ZombifyFits ==
  ASSUME NEW k, Fits(k), NEW p \in Pcb, k.pcb[InitPcb].ppid = PID_INIT,
         k.pcb[p].pid # PID_NONE, p = InitPcb <=> k.pcb[p].pid = PID_INIT
  PROVE  Fits(Zombify(k, p))
<1> DEFINE z      == Reparent(k, p)
           parent == PcbFind(z, z.pcb[p].ppid)
<1>1. Fits(z) /\ z \in KernelState
  <2>1. Fits(z)
    BY ReparentFits
  <2> QED
    BY <2>1 DEF Fits
<1>2. Zombify(k, p) =
        IF parent = NoPcb THEN Panic(z, "_zombify: parent process doesn't exist")
        ELSE IF z.pcb[parent].state = PS_WAITING THEN WakeParent(z, parent, p)
        ELSE EnqueOrPanic(z, "zombie", p, "_zombify: enque zombie failed")
  BY DEF Zombify
<1>3. parent # NoPcb => parent \in Pcb
  BY PcbFindType
<1> HIDE DEF z, parent
<1>4. Leaner(z, Panic(z, "_zombify: parent process doesn't exist"))
  BY <1>1, PanicLeaner DEF PanicSite
<1>5. Leaner(z, EnqueOrPanic(z, "zombie", p, "_zombify: enque zombie failed"))
  BY <1>1, EnqueOrPanicLeaner DEF PanicSite, QueueId
<1>6. parent # NoPcb => Leaner(z, WakeParent(z, parent, p))
  BY <1>1, <1>3, WakeParentLeaner
<1>7. Leaner(z, Zombify(k, p))
  BY <1>2, <1>4, <1>5, <1>6
<1> QED
  BY <1>1, <1>7, FitsLeaner

-----------------------------------------------------------------------------
(* The handlers leave counts that fit.                                     *)

EndsFit == \E k : Becomes(k) /\ Fits(k)

LEMMA EntryLeaner ==
  ASSUME AtRest(K), Fits(K)
  PROVE  Fits(Entry) /\ Entry \in KernelState /\ Leaner(Entry, Entry)
<1>1. TypeOK /\ K \in KernelState /\ Entry \in KernelState
  BY EntryRest, KType, EntryType
<1>2. Entry.pcb = K.pcb /\ Entry.next_pid = K.next_pid
  BY <1>1, KType, EntryType
<1>3. Leaner(K, Entry)
  BY <1>1, <1>2, LeanerSame
<1>4. Leaner(Entry, Entry)
  BY <1>1, LeanerSame
<1> QED
  BY <1>1, <1>3, <1>4, FitsLeaner

LEMMA LeanEnds ==
  ASSUME AtRest(K), Fits(K), NEW k, Leaner(Entry, k), Becomes(k)
  PROVE  EndsFit
BY EntryLeaner, FitsLeaner DEF EndsFit

LEMMA ReturnLeaner ==
  ASSUME TypeOK, NEW k \in KernelState, NEW v \in Int
  PROVE  Leaner(k, Return(k, v))
<1>1. current \in Pcb
  BY KType
<1>2. <<v>> \in Seq(Int)
  OBVIOUS
<1> QED
  BY <1>1, <1>2, TellLeaner DEF Return

LEMMA ReplyFits ==
  ASSUME AtRest(K), Fits(K), NEW v \in Int, Becomes(Return(Entry, v))
  PROVE  EndsFit
BY EntryRest, EntryLeaner, ReturnLeaner, LeanEnds

(* The current process is given a record with as many children at most,    *)
(* and with the same parent.                                               *)
LEMMA MineLeaner ==
  ASSUME AtRest(K), NEW r \in PcbRecord, r.ppid = pcb[current].ppid,
         r.children <= pcb[current].children,
         NEW k \in KernelState, k.pcb = pcb
  PROVE  /\ [k EXCEPT !.pcb[current] = r] \in KernelState
         /\ Leaner(k, [k EXCEPT !.pcb[current] = r])
<1>1. current \in Pcb
  BY EntryRest
<1> QED
  BY <1>1, SetPcb, LeanerOne

(* The other updates of a kernel state: of the time and the input.         *)
LEMMA InputLeaner ==
  ASSUME AtRest(K), NEW n
  PROVE  /\ n \in 0 .. BUF_SIZE => Leaner(Entry, [Entry EXCEPT !.incount = n])
         /\ n \in 0 .. C_BUFSIZE - 1 => Leaner(Entry, [Entry EXCEPT !.console = n])
         /\ n \in 0 .. TIME_MOD - 1 => Leaner(Entry, [Entry EXCEPT !.now = n])
<1>1. Entry \in KernelState
  BY EntryRest, EntryType
<1>2. n \in 0 .. BUF_SIZE => [Entry EXCEPT !.incount = n] \in KernelState
  BY <1>1 DEF KernelState
<1>3. n \in 0 .. C_BUFSIZE - 1 => [Entry EXCEPT !.console = n] \in KernelState
  BY <1>1 DEF KernelState
<1>4. n \in 0 .. TIME_MOD - 1 => [Entry EXCEPT !.now = n] \in KernelState
  BY <1>1 DEF KernelState
<1>5. /\ [Entry EXCEPT !.incount = n].pcb = Entry.pcb
      /\ [Entry EXCEPT !.incount = n].next_pid = Entry.next_pid
      /\ [Entry EXCEPT !.console = n].pcb = Entry.pcb
      /\ [Entry EXCEPT !.console = n].next_pid = Entry.next_pid
      /\ [Entry EXCEPT !.now = n].pcb = Entry.pcb
      /\ [Entry EXCEPT !.now = n].next_pid = Entry.next_pid
  BY <1>1 DEF KernelState
<1> QED
  BY <1>1, <1>2, <1>3, <1>4, <1>5, LeanerSame

(* One who dies is in the tree, and so is init: the orphans are adopted    *)
(* from somebody else.                                                     *)
LEMMA DyingFits ==
  ASSUME AtRest(K), Fits(K), NEW p \in Pcb, Used(pcb, p), NEW k, Leaner(Entry, k),
         \A c \in Pcb : k.pcb[c].pid = pcb[c].pid /\ k.pcb[c].ppid = pcb[c].ppid
  PROVE  Fits(Zombify(k, p))
<1>1. Fits(k)
  BY EntryLeaner, FitsLeaner
<1>2. /\ InitPcb \in Pcb /\ pcb[InitPcb].pid = PID_INIT /\ pcb[InitPcb].ppid = PID_INIT
      /\ next_pid \in PID_FIRST_USER .. PID_LIMIT
      /\ p # InitPcb => pcb[p].pid \in PID_FIRST_USER .. next_pid - 1
  BY EntryRest, Numbers DEF Tree, Rooted, Numbered
<1>3. pcb[p].pid # PID_NONE /\ (p = InitPcb <=> pcb[p].pid = PID_INIT)
  <2>1. CASE p = InitPcb
    BY <1>2, <2>1, Numbers
  <2>2. CASE p # InitPcb
    BY <1>2, <2>2, Numbers
  <2> QED
    BY <2>1, <2>2
<1>4. /\ k.pcb[InitPcb].ppid = PID_INIT /\ k.pcb[p].pid # PID_NONE
      /\ p = InitPcb <=> k.pcb[p].pid = PID_INIT
  BY <1>2, <1>3
<1> QED
  BY <1>1, <1>4, ZombifyFits

LEMMA ExitFits ==
  ASSUME AtRest(K), Fits(K), NEW status \in ExitStatuses \cup {EXIT_BAD_CODE}, ExitWith(status)
  PROVE  EndsFit
<1> DEFINE r     == [pcb[current] EXCEPT !.exitstatus = status, !.state = PS_ZOMBIE]
           dying == [Entry EXCEPT !.pcb[current] = r]
           dead  == Zombify(dying, current)
<1>1. /\ TypeOK /\ current \in Pcb /\ pcb[current] \in PcbRecord /\ Used(pcb, current)
      /\ pcb \in [Pcb -> PcbRecord] /\ Entry \in KernelState /\ Entry.pcb = pcb
  BY EntryRest, MeType, KType, KernelFields, EntryLeaner DEF Used, PS_RUNNING, PS_FREE
<1>2. /\ r \in PcbRecord /\ r.pid = pcb[current].pid
      /\ r.ppid = pcb[current].ppid /\ r.children = pcb[current].children
  <2>1. status \in Int
    BY EnvironmentConstants DEF EXIT_BAD_CODE
  <2>2. r \in PcbRecord
    BY <1>1, <2>1, States, SetFate
  <2> QED
    BY <1>1, <2>2 DEF PcbRecord
<1>3. Becomes(Dispatch(dead))
  BY EntryRest DEF ExitWith
<1> HIDE DEF r
<1>4. Leaner(Entry, dying) /\ dying.pcb = [pcb EXCEPT ![current] = r]
  <2>1. r.children <= pcb[current].children
    BY <1>1, <1>2, PcbFields
  <2>2. Leaner(Entry, dying)
    BY <1>1, <1>2, <2>1, MineLeaner
  <2> QED
    BY <1>1, <2>2 DEF KernelState
<1> HIDE DEF dying
<1>5. \A c \in Pcb : dying.pcb[c].pid = pcb[c].pid /\ dying.pcb[c].ppid = pcb[c].ppid
  BY <1>1, <1>2, <1>4
<1>6. Fits(dead)
  BY <1>1, <1>4, <1>5, DyingFits
<1> HIDE DEF dead
<1>7. Fits(Dispatch(dead))
  BY <1>6, DispatchLeaner, FitsLeaner DEF Fits
<1> QED
  BY <1>3, <1>7 DEF EndsFit

(* The current process blocks.                                             *)
LEMMA BlockLeaner ==
  ASSUME AtRest(K), NEW r \in PcbRecord, r.ppid = pcb[current].ppid,
         r.children = pcb[current].children, NEW q \in QueueId, NEW site \in PanicSite
  PROVE  Leaner(Entry, Dispatch(EnqueOrPanic([Entry EXCEPT !.pcb[current] = r],
                                             q, current, site)))
<1> DEFINE set == [Entry EXCEPT !.pcb[current] = r]
           k2  == EnqueOrPanic(set, q, current, site)
<1>1. Entry \in KernelState /\ Entry.pcb = pcb /\ current \in Pcb /\ pcb[current] \in PcbRecord
  BY EntryRest, EntryType, MeType
<1>2. r.children <= pcb[current].children
  BY <1>1, PcbFields
<1>3. Leaner(Entry, set) /\ set \in KernelState
  BY <1>1, <1>2, MineLeaner
<1> HIDE DEF set
<1>4. Leaner(set, k2) /\ k2 \in KernelState
  BY <1>1, <1>3, EnqueOrPanicLeaner DEF Leaner
<1> HIDE DEF k2
<1>5. Leaner(k2, Dispatch(k2))
  BY <1>4, DispatchLeaner
<1>6. Leaner(Entry, Dispatch(k2))
  BY <1>1, <1>3, <1>4, <1>5, LeanerThen
<1> QED
  BY <1>6 DEF k2, set

LEMMA KilledFits ==
  ASSUME AtRest(K), Fits(K), NEW victim \in Pcb, pcb[victim].state \in PS_READY .. PS_BLOCKED
  PROVE  Fits(Killed(Entry, victim))
<1> DEFINE site == "_sys_kill: can't remove victim"
           q    == QueueOf(Entry, victim)
           out  == IF Entry.pcb[victim].state = PS_RUNNING THEN Entry
                   ELSE RemoveOrPanic(Entry, q, victim, site)
           r    == [pcb[victim] EXCEPT !.state = PS_KILLED, !.exitstatus = EXIT_KILLED]
           set  == [out EXCEPT !.pcb[victim] = r]
           dead == Return(set, E_SUCCESS)
<1>1. /\ TypeOK /\ current \in Pcb /\ pcb[victim] \in PcbRecord /\ Used(pcb, victim)
      /\ pcb \in [Pcb -> PcbRecord] /\ Entry \in KernelState /\ Entry.pcb = pcb
  BY EntryRest, MeType, KType, KernelFields, EntryLeaner
     DEF Used, PS_READY, PS_BLOCKED, PS_FREE
<1>2. /\ r \in PcbRecord /\ r.pid = pcb[victim].pid
      /\ r.ppid = pcb[victim].ppid /\ r.children = pcb[victim].children
  <2>1. PS_KILLED \in PState /\ EXIT_KILLED \in Int
    BY States DEF EXIT_KILLED
  <2>2. r \in PcbRecord
    BY <1>1, <2>1, SetFate, Zenon
  <2> QED
    BY <1>1, <2>2 DEF PcbRecord
<1>3. q \in QueueId /\ site \in PanicSite
  BY <1>1, QueueOfType DEF PanicSite
<1>4. Killed(Entry, victim) = IF Halted(out) THEN out ELSE Zombify(dead, victim)
  <2>1. out.pcb = pcb
    BY <1>1, <1>3, RemoveOrPanicType
  <2>2. set = [out EXCEPT !.pcb[victim] =
                 [@ EXCEPT !.state = PS_KILLED, !.exitstatus = EXIT_KILLED]]
    BY <2>1
  <2>3. Killed(Entry, victim) =
          IF Halted(out) THEN out
          ELSE Zombify(Return([out EXCEPT !.pcb[victim] =
                 [@ EXCEPT !.state = PS_KILLED, !.exitstatus = EXIT_KILLED]], E_SUCCESS), victim)
    BY DEF Killed
  <2> QED
    BY <2>2, <2>3
<1> HIDE DEF r, q, site
<1>5. Leaner(Entry, out) /\ out \in KernelState /\ out.pcb = pcb
  BY <1>1, <1>3, EntryLeaner, RemoveOrPanicType, RemoveOrPanicLeaner
<1> HIDE DEF out
<1>6. Leaner(out, set) /\ set \in KernelState /\ set.pcb = [pcb EXCEPT ![victim] = r]
  <2>1. r.children <= out.pcb[victim].children
    BY <1>1, <1>2, <1>5, PcbFields
  <2>2. Leaner(out, set) /\ set \in KernelState
    BY <1>2, <1>5, <2>1, SetPcb, LeanerOne
  <2> QED
    BY <1>5, <2>2 DEF KernelState
<1> HIDE DEF set
<1>7. Leaner(set, dead) /\ dead.pcb = set.pcb
  <2>1. E_SUCCESS \in Int
    BY DEF E_SUCCESS
  <2> QED
    BY <1>1, <1>6, <2>1, ReturnLeaner DEF Return, KernelState
<1>8. Leaner(Entry, dead)
  BY <1>1, <1>5, <1>6, <1>7, LeanerThen
<1>9. \A c \in Pcb : dead.pcb[c].pid = pcb[c].pid /\ dead.pcb[c].ppid = pcb[c].ppid
  BY <1>1, <1>2, <1>6, <1>7
<1> HIDE DEF dead
<1>10. Fits(Zombify(dead, victim))
  BY <1>1, <1>8, <1>9, DyingFits
<1>11. Fits(out)
  BY <1>5, EntryLeaner, FitsLeaner
<1> QED
  BY <1>4, <1>10, <1>11

LEMMA KillFits ==
  ASSUME AtRest(K), Fits(K), Kill
  PROVE  EndsFit
<1>1. CASE KillNobody
  BY <1>1, ReplyFits DEF KillNobody, E_NO_PROCESS
<1>2. CASE KillDead
  BY <1>2, ReplyFits DEF KillDead, E_SUCCESS
<1>3. CASE KillBadState
  BY <1>3, EntryLeaner, PanicLeaner, LeanEnds DEF KillBadState, PanicSite
<1>4. CASE KillLive
  <2>1. PICK pid \in PidArgs :
          LET victim == PcbFind(K, pid)
              after  == Killed(Entry, victim)
          IN /\ victim # NoPcb
             /\ pcb[victim].state \in PS_READY .. PS_BLOCKED
             /\ Becomes(IF victim = current THEN Dispatch(after) ELSE after)
    BY <1>4 DEF KillLive
  <2> DEFINE victim == PcbFind(K, pid)
             after  == Killed(Entry, victim)
  <2>2. victim \in Pcb
    BY <2>1, PcbFindType
  <2>3. /\ pcb[victim].state \in PS_READY .. PS_BLOCKED
        /\ Becomes(IF victim = current THEN Dispatch(after) ELSE after)
    BY <2>1
  <2> HIDE DEF victim
  <2>4. Fits(after)
    BY <2>2, <2>3, KilledFits
  <2> HIDE DEF after
  <2>5. Fits(Dispatch(after))
    BY <2>4, DispatchLeaner, FitsLeaner DEF Fits
  <2> QED
    BY <2>3, <2>4, <2>5 DEF EndsFit
<1> QED
  BY <1>1, <1>2, <1>3, <1>4 DEF Kill

LEMMA WaitFits ==
  ASSUME AtRest(K), Fits(K), Wait
  PROVE  EndsFit
<1>1. /\ TypeOK /\ current \in Pcb /\ pcb[current] \in PcbRecord
      /\ Entry \in KernelState /\ Entry.pcb = pcb /\ me = pcb[current]
  BY EntryRest, MeType, EntryLeaner DEF me
<1>2. CASE WaitNoChild
  BY <1>2, ReplyFits DEF WaitNoChild, E_NO_CHILD
<1>3. CASE WaitCollect
  <2> DEFINE child == Min(Collectable)
             site  == "_sys_wait: can't deque zombie"
             out   == RemoveOrPanic(Entry, "zombie", child, site)
             r     == [pcb[current] EXCEPT !.children = me.children - 1]
             v     == <<E_SUCCESS, pcb[child].pid, pcb[child].exitstatus>>
             set   == [out EXCEPT !.pcb[current] = r]
             told  == [set EXCEPT !.returned[current] = v]
             gone  == PcbCleanup(told, child)
  <2>1. child \in Pcb
    <3>1. Collectable \in SUBSET Nat /\ Collectable \subseteq Pcb
      BY DEF Collectable, ChildrenOf, Pcb
    <3>2. Collectable # {}
      BY <1>3 DEF WaitCollect
    <3>3. child \in Collectable
      BY <3>1, <3>2, MinNat
    <3> HIDE DEF child
    <3> QED
      BY <3>1, <3>3
  <2>2. /\ pcb[current].children # 0
        /\ Becomes(IF Halted(out) THEN out
                   ELSE PcbCleanup([out EXCEPT !.pcb[current] =
                                      [@ EXCEPT !.children = me.children - 1],
                                    !.returned[current] = v], child))
    BY <1>3 DEF WaitCollect, me
  <2> HIDE DEF child
  <2>3. v \in Seq(Int)
    <3>1. pcb[child].pid \in Int /\ pcb[child].exitstatus \in Int
      BY <1>1, <2>1, MeType, PcbFields
    <3> QED
      BY <3>1 DEF E_SUCCESS
  <2>4. Leaner(Entry, out) /\ out \in KernelState /\ out.pcb = pcb
    <3>1. site \in PanicSite /\ "zombie" \in QueueId
      BY DEF PanicSite, QueueId
    <3> HIDE DEF site
    <3> QED
      BY <1>1, <2>1, <3>1, RemoveOrPanicType, RemoveOrPanicLeaner
  <2> HIDE DEF out, v
  <2>5. r \in PcbRecord /\ r.ppid = pcb[current].ppid /\ r.children <= pcb[current].children
    <3>1. /\ me.children \in Nat /\ me.children - 1 \in Nat /\ me.ppid \in 0 .. PID_NONE
          /\ me.children - 1 <= me.children
      BY <1>1, <2>2, PcbFields
    <3>2. r \in PcbRecord
      BY <1>1, <3>1, SetFamily, Zenon
    <3>3. r.ppid = pcb[current].ppid /\ r.children = me.children - 1
      BY <1>1, <3>2 DEF PcbRecord
    <3> HIDE DEF r
    <3> QED
      BY <1>1, <3>1, <3>2, <3>3
  <2>6. told = [out EXCEPT !.pcb[current] = [@ EXCEPT !.children = me.children - 1],
                           !.returned[current] = v]
    BY <1>1, <2>4 DEF KernelState
  <2> HIDE DEF r
  <2>7. Leaner(out, set) /\ set \in KernelState
    BY <2>4, <2>5, MineLeaner
  <2> HIDE DEF set
  <2>8. Leaner(set, told) /\ told \in KernelState
    BY <1>1, <2>3, <2>7, TellLeaner, SetReturned
  <2>9. Becomes(IF Halted(out) THEN out ELSE gone)
    BY <2>2, <2>6
  <2> HIDE DEF told
  <2>10. Leaner(told, gone)
    BY <2>1, <2>8, CleanupLeaner
  <2> HIDE DEF gone
  <2>11. Leaner(Entry, gone)
    BY <1>1, <2>4, <2>7, <2>8, <2>10, LeanerThen
  <2>12. Leaner(Entry, IF Halted(out) THEN out ELSE gone)
    BY <2>4, <2>11
  <2> QED
    BY <2>9, <2>12, LeanEnds
<1>4. CASE WaitBlock
  <2> DEFINE r    == [pcb[current] EXCEPT !.state = PS_WAITING]
             site == "_sys_wait: can't enque waiting parent"
             set  == [Entry EXCEPT !.pcb[current] = r]
             k2   == EnqueOrPanic(set, "waiting", current, site)
  <2>1. Becomes(Dispatch(k2))
    BY <1>4, EntryRest DEF WaitBlock
  <2>2. r \in PcbRecord
    BY <1>1, States, SetState
  <2>3. r.ppid = pcb[current].ppid /\ r.children = pcb[current].children
    BY <1>1 DEF PcbRecord
  <2>4. site \in PanicSite /\ "waiting" \in QueueId
    BY DEF PanicSite, QueueId
  <2> HIDE DEF r, site
  <2>5. Leaner(Entry, Dispatch(k2))
    BY <2>2, <2>3, <2>4, BlockLeaner
  <2> QED
    BY <2>1, <2>5, LeanEnds
<1> QED
  BY <1>2, <1>3, <1>4 DEF Wait

(* What is allocated keeps its count and its parent until it is filled in. *)
LEMMA AllocLeaner ==
  ASSUME NEW k \in KernelState, k.queue["free_pcbs"] # << >>
  PROVE  /\ PcbAlloc(k) \in KernelState /\ Head(k.queue["free_pcbs"]) \in Pcb
         /\ Leaner(k, PcbAlloc(k))
<1> DEFINE child == Head(k.queue["free_pcbs"])
           d     == Deque(k, "free_pcbs")
           r     == [d.pcb[child] EXCEPT !.state = PS_NEW]
<1>1. /\ d \in KernelState /\ child \in Pcb /\ Leaner(k, d)
  BY DequeType, DequeLeaner DEF QueueId
<1>2. PcbAlloc(k) = [d EXCEPT !.pcb[child] = r]
  BY DEF PcbAlloc
<1> HIDE DEF d, child
<1>3. d.pcb[child] \in PcbRecord /\ d.pcb[child].children \in Nat
  BY <1>1, CountNumbers
<1>4. r \in PcbRecord /\ r.children = d.pcb[child].children /\ r.ppid = d.pcb[child].ppid
  <2>1. r \in PcbRecord
    BY <1>3, States, SetState
  <2> QED
    BY <1>3, <2>1 DEF PcbRecord
<1>5. r.children <= d.pcb[child].children
  BY <1>3, <1>4
<1> HIDE DEF r
<1>6. Leaner(d, PcbAlloc(k)) /\ PcbAlloc(k) \in KernelState
  BY <1>1, <1>2, <1>4, <1>5, LeanerOne, SetPcb
<1>7. Leaner(k, PcbAlloc(k))
  BY <1>1, <1>6, LeanerThen
<1> QED
  BY <1>1, <1>6, <1>7 DEF child

(* fork(): a child whose parent is not init can be adopted, and init's own *)
(* child cannot; either way there is one fork more.                        *)
LEMMA ForkedFits ==
  ASSUME AtRest(K), Fits(K), NEW k \in KernelState, NEW child, Begotten(k, child)
  PROVE  Fits(k)
<1> DEFINE old == Adoptable(pcb)
           new == Adoptable(k.pcb)
<1>1. /\ current \in Pcb /\ InitPcb \in Pcb /\ Entry \in KernelState
      /\ Entry.pcb = pcb /\ Entry.next_pid = next_pid
      /\ \A c \in Pcb : pcb[c].children \in Nat
  BY EntryRest, EntryLeaner, CountNumbers, Numbers
<1>2. /\ Forks(Entry) \in Int /\ Forks(k) = Forks(Entry) + 1
      /\ IsFiniteSet(old) /\ Cardinality(old) \in Nat
      /\ IsFiniteSet(new) /\ Cardinality(new) \in Nat
  <2>1. k.next_pid = Entry.next_pid + 1 /\ Entry.next_pid \in Int /\ PID_FIRST_USER \in Int
    BY <1>1, CountNumbers, Numbers DEF Begotten
  <2>2. Forks(k) = Forks(Entry) + 1
    BY <2>1 DEF Forks
  <2> QED
    BY <1>1, <2>2, CountNumbers
<1>3. /\ \A c \in Pcb : pcb[c].children <= Forks(Entry)
      /\ pcb[InitPcb].children + Cardinality(old) <= Forks(Entry)
  BY <1>1, EntryLeaner DEF Fits
<1>4. /\ child \in Pcb \ {current} /\ child # InitPcb /\ child \notin old
      /\ \A c \in Pcb \ {child} : k.pcb[c].ppid = pcb[c].ppid
  <2>1. child \in Pcb \ {current} /\ ~ Used(pcb, child)
    BY DEF Begotten
  <2>2. Used(pcb, InitPcb) /\ pcb[child].ppid = PID_NONE
    BY <2>1, EntryRest DEF Tree, Rooted, Numbered
  <2> QED
    BY <2>1, <2>2 DEF Begotten, Adoptable
<1>5. \A c \in Pcb : k.pcb[c].children <= Forks(k)
  <2>1. ASSUME NEW c \in Pcb
        PROVE  k.pcb[c].children \in {pcb[c].children, pcb[current].children,
                                      pcb[current].children + 1}
    BY <1>1, <2>1 DEF Begotten
  <2> QED
    BY <1>1, <1>2, <1>3, <2>1
<1>6. k.pcb[InitPcb].children + Cardinality(new) <= Forks(k)
  <2>1. CASE current = InitPcb
    <3>1. new = old
      <4>1. k.pcb[child].ppid = PID_INIT
        BY <2>1, EntryRest DEF Begotten, Tree, Rooted
      <4> QED
        BY <1>4, <4>1 DEF Adoptable
    <3>2. k.pcb[InitPcb].children = pcb[InitPcb].children + 1
      BY <2>1 DEF Begotten
    <3> HIDE DEF new, old
    <3> QED
      BY <1>1, <1>2, <1>3, <3>1, <3>2
  <2>2. CASE current # InitPcb
    <3>1. new \subseteq old \cup {child}
      BY <1>4 DEF Adoptable
    <3> HIDE DEF new, old
    <3>2. IsFiniteSet(old \cup {child}) /\ Cardinality(old \cup {child}) = Cardinality(old) + 1
      BY <1>2, <1>4, FS_AddElement
    <3>3. Cardinality(new) <= Cardinality(old) + 1
      BY <3>1, <3>2, FS_Subset
    <3>4. k.pcb[InitPcb].children = pcb[InitPcb].children
      BY <1>1, <1>4, <2>2 DEF Begotten
    <3> QED
      BY <1>1, <1>2, <1>3, <3>3, <3>4
  <2> QED
    BY <2>1, <2>2
<1> QED
  BY <1>5, <1>6 DEF Fits

LEMMA ForkFits ==
  ASSUME AtRest(K), Fits(K), Fork
  PROVE  EndsFit
<1>1. CASE ForkNoPid
  BY <1>1, ReplyFits DEF ForkNoPid, E_NO_MORE_PROCS
<1>2. CASE ForkNoPcb
  BY <1>2, ReplyFits DEF ForkNoPcb, E_NO_PCBS
<1>3. CASE ForkChild
  <2> DEFINE child == Head(queue["free_pcbs"])
  <2>1. /\ queue["free_pcbs"] # << >> /\ next_pid < PID_LIMIT
        /\ Becomes(IF free_stacks = << >> THEN ForkNoStack(Entry) ELSE Forked(Entry))
    BY <1>3 DEF ForkChild
  <2>2. /\ TypeOK /\ Entry \in KernelState /\ Entry.queue = queue
        /\ Entry.queue["free_pcbs"] # << >>
    BY <2>1, EntryRest, EntryLeaner
  <2>3. CASE free_stacks = << >>
    <3> DEFINE a    == PcbAlloc(Entry)
               gone == PcbDealloc(a, child)
    <3>1. Becomes(Return(gone, E_NO_STACKS))
      BY <2>1, <2>2, <2>3 DEF ForkNoStack
    <3>2. a \in KernelState /\ child \in Pcb /\ Leaner(Entry, a)
      BY <2>2, AllocLeaner
    <3> HIDE DEF a, child
    <3>3. Leaner(a, gone) /\ gone \in KernelState
      BY <3>2, DeallocLeaner DEF Leaner
    <3> HIDE DEF gone
    <3>4. E_NO_STACKS \in Int
      BY DEF E_NO_STACKS
    <3>5. Leaner(gone, Return(gone, E_NO_STACKS))
      BY <2>2, <3>3, <3>4, ReturnLeaner
    <3>6. Leaner(Entry, Return(gone, E_NO_STACKS))
      BY <2>2, <3>2, <3>3, <3>5, LeanerThen
    <3> QED
      BY <3>1, <3>6, LeanEnds
  <2>4. CASE free_stacks # << >>
    <3>1. Becomes(Forked(Entry)) /\ Begotten(Forked(Entry), child)
      BY <2>1, <2>4, ForkedEnds
    <3>2. Forked(Entry) \in KernelState
      BY <2>1, <2>2, <2>4, ForkedType
    <3> QED
      BY <3>1, <3>2, ForkedFits DEF EndsFit
  <2> QED
    BY <2>3, <2>4
<1> QED
  BY <1>1, <1>2, <1>3 DEF Fork

LEMMA ExecFits ==
  ASSUME AtRest(K), Fits(K), Exec
  PROVE  EndsFit
<1>1. PICK prio \in ExecPrios :
        Becomes([Entry EXCEPT !.pcb[current] = [@ EXCEPT !.prio = prio]])
  BY DEF Exec
<1> DEFINE r == [pcb[current] EXCEPT !.prio = prio]
<1>2. /\ pcb[current] \in PcbRecord /\ prio \in Nat /\ Entry \in KernelState /\ Entry.pcb = pcb
  BY EntryRest, MeType, EntryLeaner, EnvironmentConstants
<1>3. r \in PcbRecord
  BY <1>2, States, SetPrioState
<1>4. r.ppid = pcb[current].ppid /\ r.children <= pcb[current].children
  BY <1>2, PcbFields DEF PcbRecord
<1>5. Becomes([Entry EXCEPT !.pcb[current] = r])
  BY <1>1, EntryRest
<1> HIDE DEF r
<1> QED
  BY <1>2, <1>3, <1>4, <1>5, MineLeaner, LeanEnds

LEMMA FinishReadFits ==
  ASSUME AtRest(K), Fits(K), NEW k, Leaner(Entry, k), k.pcb = pcb, NEW n \in Int,
         Becomes(FinishRead(k, n))
  PROVE  EndsFit
<1>1. /\ TypeOK /\ current \in Pcb /\ pcb[current] \in PcbRecord
      /\ k \in KernelState /\ Entry \in KernelState
  BY EntryRest, MeType, EntryLeaner DEF Leaner
<1> DEFINE r  == [pcb[current] EXCEPT !.state = PS_BLOCKED]
           in == Enque(k, "reading", current)
           k2 == [in EXCEPT !.pcb[current] = r]
<1>2. "reading" \in QueueId
  BY DEF QueueId
<1>3. Leaner(k, in) /\ in \in KernelState /\ in.pcb = pcb
  BY <1>1, <1>2, EnqueFields, EnqueLeaner DEF ButQueues
<1>4. FinishRead(k, n) = IF n > 0 THEN Return(k, n)
                         ELSE IF k.qnodes = 0 THEN Return(k, E_FAILURE) ELSE Dispatch(k2)
  BY <1>3 DEF FinishRead
<1> HIDE DEF in
<1>5. r \in PcbRecord
  BY <1>1, States, SetState
<1>6. r.ppid = pcb[current].ppid /\ r.children <= pcb[current].children
  BY <1>1, PcbFields DEF PcbRecord
<1> HIDE DEF r
<1>7. Leaner(in, k2) /\ k2 \in KernelState
  BY <1>3, <1>5, <1>6, MineLeaner
<1> HIDE DEF k2
<1>8. Leaner(k2, Dispatch(k2))
  BY <1>7, DispatchLeaner
<1>9. Leaner(k, Dispatch(k2))
  BY <1>1, <1>3, <1>7, <1>8, LeanerThen
<1>10. Leaner(k, Return(k, n)) /\ Leaner(k, Return(k, E_FAILURE))
  <2>1. E_FAILURE \in Int
    BY DEF E_FAILURE
  <2> QED
    BY <1>1, <2>1, ReturnLeaner
<1>11. Leaner(k, FinishRead(k, n))
  BY <1>4, <1>9, <1>10
<1> QED
  BY <1>1, <1>11, LeanerThen, LeanEnds

LEMMA ReadsFit ==
  ASSUME AtRest(K), Fits(K), ReadConsole \/ ReadSio
  PROVE  EndsFit
<1>1. /\ incount \in 0 .. BUF_SIZE /\ console \in 0 .. C_BUFSIZE - 1
      /\ Entry.incount = incount /\ Entry.console = console
      /\ Entry \in KernelState /\ Entry.pcb = pcb
  BY EntryRest, EntryType, KType, KernelFields
<1>2. CASE ReadConsole
  <2>1. PICK size \in Sizes : \E line \in Gets(size) :
          Becomes(FinishRead([Entry EXCEPT !.console =
                                IF line.used > @ THEN 0 ELSE @ - line.used], line.n))
    BY <1>2 DEF ReadConsole
  <2>2. PICK line \in Gets(size) :
          Becomes(FinishRead([Entry EXCEPT !.console =
                                IF line.used > @ THEN 0 ELSE @ - line.used], line.n))
    BY <2>1
  <2>3. line.n \in Int /\ line.used \in Nat
    <3>1. size \in Nat
      BY <2>1, EnvironmentConstants
    <3> QED
      BY <3>1, <2>2 DEF Gets
  <2> DEFINE left == IF line.used > console THEN 0 ELSE console - line.used
             k    == [Entry EXCEPT !.console = left]
  <2>4. Becomes(FinishRead(k, line.n))
    BY <1>1, <2>2
  <2>5. left \in 0 .. C_BUFSIZE - 1
    BY <1>1, <2>3, KernelConstants
  <2> HIDE DEF left
  <2>6. Leaner(Entry, k) /\ k.pcb = pcb
    BY <1>1, <2>5, InputLeaner DEF KernelState
  <2> HIDE DEF k
  <2> QED
    BY <2>3, <2>4, <2>6, FinishReadFits
<1>3. CASE ReadSio
  <2>1. PICK size \in Sizes :
          LET n == IF size < incount THEN size ELSE incount
          IN Becomes(FinishRead([Entry EXCEPT !.incount = @ - n], n))
    BY <1>3 DEF ReadSio
  <2> DEFINE n    == IF size < incount THEN size ELSE incount
             left == incount - n
             k    == [Entry EXCEPT !.incount = left]
  <2>2. size \in Nat
    BY <2>1, EnvironmentConstants
  <2>3. n \in Int /\ left \in 0 .. BUF_SIZE
    BY <1>1, <2>2, KernelConstants
  <2>4. Becomes(FinishRead(k, n))
    BY <1>1, <2>1
  <2> HIDE DEF n, left
  <2>5. Leaner(Entry, k) /\ k.pcb = pcb
    BY <1>1, <2>3, InputLeaner DEF KernelState
  <2> HIDE DEF k
  <2> QED
    BY <2>3, <2>4, <2>5, FinishReadFits
<1> QED
  BY <1>2, <1>3

LEMMA SleepFits ==
  ASSUME AtRest(K), Fits(K), Sleep
  PROVE  EndsFit
<1>1. PICK msec \in SleepTimes :
        LET asleep == [Entry EXCEPT !.pcb[current] =
                         [@ EXCEPT !.wakeup = (now + msec) % TIME_MOD,
                                   !.state = PS_SLEEPING]]
        IN Becomes(Dispatch(
             IF msec = 0 THEN Schedule(Entry, current)
             ELSE EnqueOrPanic(asleep, "sleeping", current,
                               "_sys_sleep: can't enque sleeper")))
  BY DEF Sleep
<1>2. TypeOK /\ current \in Pcb /\ pcb[current] \in PcbRecord /\ Entry \in KernelState
  BY EntryRest, MeType, EntryLeaner
<1>3. CASE msec # 0
  <2> DEFINE t    == (now + msec) % TIME_MOD
             r    == [pcb[current] EXCEPT !.wakeup = t, !.state = PS_SLEEPING]
             site == "_sys_sleep: can't enque sleeper"
             set  == [Entry EXCEPT !.pcb[current] = r]
             k2   == EnqueOrPanic(set, "sleeping", current, site)
  <2>1. Becomes(Dispatch(k2))
    BY <1>1, <1>3, EntryRest
  <2>2. t \in 0 .. TIME_MOD - 1
    <3>1. now \in 0 .. TIME_MOD - 1 /\ msec \in Nat /\ TIME_MOD \in Nat \ {0}
      BY <1>2, KType, KernelFields, EnvironmentConstants, KernelConstants
    <3> QED
      BY <3>1
  <2> HIDE DEF t
  <2>3. r \in PcbRecord
    BY <1>2, <2>2, States, SetWakeup
  <2>4. r.ppid = pcb[current].ppid /\ r.children = pcb[current].children
    BY <1>2 DEF PcbRecord
  <2>5. site \in PanicSite /\ "sleeping" \in QueueId
    BY DEF PanicSite, QueueId
  <2> HIDE DEF r, site
  <2>6. Leaner(Entry, Dispatch(k2))
    BY <2>3, <2>4, <2>5, BlockLeaner
  <2> QED
    BY <2>1, <2>6, LeanEnds
<1>4. CASE msec = 0
  <2> DEFINE k2 == Schedule(Entry, current)
  <2>1. Becomes(Dispatch(k2))
    BY <1>1, <1>4
  <2>2. Leaner(Entry, k2) /\ k2 \in KernelState
    BY <1>2, ScheduleLeaner DEF Leaner
  <2> HIDE DEF k2
  <2>3. Leaner(Entry, Dispatch(k2))
    BY <1>2, <2>2, DispatchLeaner, LeanerThen
  <2> QED
    BY <2>1, <2>3, LeanEnds
<1> QED
  BY <1>3, <1>4

LEMMA InputFits ==
  ASSUME AtRest(K), Fits(K), RxChar \/ KeyPress
  PROVE  EndsFit
<1>1. /\ TypeOK /\ incount \in 0 .. BUF_SIZE /\ console \in 0 .. C_BUFSIZE - 1
      /\ Entry.incount = incount /\ Entry.console = console
      /\ Entry \in KernelState /\ Entry.queue = queue
  BY EntryRest, EntryType, KType, KernelFields
<1>2. CASE RxChar
  <2>1. PICK rxd \in Chars :
          LET ch     == IF rxd = CR THEN LF ELSE rxd
              reader == Head(queue["reading"])
              told   == [Deque(Entry, "reading") EXCEPT !.returned[reader] = <<ch>>]
          IN Becomes(IF queue["reading"] # << >> THEN Schedule(told, reader)
                     ELSE [Entry EXCEPT !.incount = IF @ < BUF_SIZE THEN @ + 1 ELSE @])
    BY <1>2 DEF RxChar
  <2>2. CASE queue["reading"] # << >>
    <3> DEFINE ch     == IF rxd = CR THEN LF ELSE rxd
               reader == Head(queue["reading"])
               d      == Deque(Entry, "reading")
               told   == [d EXCEPT !.returned[reader] = <<ch>>]
    <3>1. Becomes(Schedule(told, reader))
      BY <2>1, <2>2
    <3>2. d \in KernelState /\ reader \in Pcb /\ Leaner(Entry, d)
      BY <1>1, <2>2, DequeType, DequeLeaner DEF QueueId
    <3>3. <<ch>> \in Seq(Int)
      <4>1. ch \in Int
        BY EnvironmentConstants DEF LF
      <4> QED
        BY <4>1
    <3> HIDE DEF d, reader, ch
    <3>4. Leaner(d, told) /\ told \in KernelState
      BY <3>2, <3>3, TellLeaner, SetReturned
    <3> HIDE DEF told
    <3>5. Leaner(told, Schedule(told, reader))
      BY <3>2, <3>4, ScheduleLeaner
    <3>6. Leaner(Entry, Schedule(told, reader))
      BY <1>1, <3>2, <3>4, <3>5, LeanerThen
    <3> QED
      BY <3>1, <3>6, LeanEnds
  <2>3. CASE queue["reading"] = << >>
    <3> DEFINE n == IF incount < BUF_SIZE THEN incount + 1 ELSE incount
    <3>1. Becomes([Entry EXCEPT !.incount = n])
      BY <1>1, <2>1, <2>3
    <3>2. n \in 0 .. BUF_SIZE
      BY <1>1, KernelConstants
    <3> HIDE DEF n
    <3> QED
      BY <3>1, <3>2, InputLeaner, LeanEnds
  <2> QED
    BY <2>2, <2>3
<1>3. CASE KeyPress
  <2> DEFINE n == IF console < C_BUFSIZE - 1 THEN console + 1 ELSE console
  <2>1. Becomes([Entry EXCEPT !.console = n])
    BY <1>1, <1>3 DEF KeyPress
  <2>2. n \in 0 .. C_BUFSIZE - 1
    BY <1>1, KernelConstants
  <2> HIDE DEF n
  <2> QED
    BY <2>1, <2>2, InputLeaner, LeanEnds
<1> QED
  BY <1>2, <1>3

LEMMA TickFits ==
  ASSUME AtRest(K), Fits(K), Tick
  PROVE  EndsFit
<1> DEFINE t     == (now + 1) % TIME_MOD
           later == [Entry EXCEPT !.now = t]
           woken == WakeSleepers(later)
           left  == (me.q_ticks - 1) % 256
           x     == woken.pcb[current]
           r     == [x EXCEPT !.q_ticks = left]
           used  == [woken EXCEPT !.pcb[current] = r]
           yield == Schedule(used, current)
<1>1. /\ current \in Pcb /\ now \in 0 .. TIME_MOD - 1 /\ me.q_ticks \in 0 .. 255
      /\ Entry \in KernelState /\ Entry.now = now
  <2>1. TypeOK /\ me.q_ticks \in 0 .. 255
    BY EntryRest, MeType, PcbFields
  <2> QED
    BY <2>1, EntryType, KType, KernelFields
<1>2. t \in 0 .. TIME_MOD - 1 /\ left \in 0 .. 255
  BY <1>1, KernelConstants
<1>3. Becomes(IF used.pcb[current].q_ticks < 1 THEN Dispatch(yield) ELSE used)
  BY <1>1 DEF Tick
<1> HIDE DEF t, left
<1>4. Leaner(Entry, later) /\ later \in KernelState
  BY <1>2, InputLeaner DEF Leaner
<1> HIDE DEF later
<1>5. Leaner(later, woken) /\ woken \in KernelState
  BY <1>4, WakeSleepersType, WakeSleepersLeaner
<1> HIDE DEF woken
<1>6. x \in PcbRecord /\ x.children \in Nat
  BY <1>1, <1>5, CountNumbers
<1>7. r \in PcbRecord /\ r.children = x.children /\ r.ppid = x.ppid
  <2>1. r \in PcbRecord
    BY <1>2, <1>6, States, SetStateTicks
  <2> HIDE DEF x
  <2> QED
    BY <1>6, <2>1 DEF PcbRecord
<1>8. r.children <= x.children
  BY <1>6, <1>7
<1> HIDE DEF r
<1>9. Leaner(woken, used) /\ used \in KernelState
  BY <1>1, <1>5, <1>7, <1>8, SetPcb, LeanerOne
<1> HIDE DEF used
<1>10. Leaner(used, yield) /\ yield \in KernelState
  BY <1>1, <1>9, ScheduleType, ScheduleLeaner
<1> HIDE DEF yield
<1>11. Leaner(yield, Dispatch(yield))
  BY <1>10, DispatchLeaner
<1>12. Leaner(Entry, used)
  BY <1>1, <1>4, <1>5, <1>9, LeanerThen
<1>13. Leaner(Entry, Dispatch(yield))
  BY <1>1, <1>10, <1>11, <1>12, <1>9, LeanerThen
<1> QED
  BY <1>3, <1>12, <1>13, LeanEnds

(* No step of the kernel leaves a count that does not fit.                 *)
LEMMA StepFits ==
  ASSUME Kept, Fits(K), Next
  PROVE  Fits(K')
<1> SUFFICES EndsFit
  <2>1. ASSUME NEW k, Becomes(k), Fits(k)
        PROVE  Fits(K')
    <3>1. K' = k
      BY <2>1, Becoming DEF Fits
    <3> QED
      BY <2>1, <3>1
  <2> QED
    BY <2>1 DEF EndsFit
<1>1. AtRest(K)
  BY StepEnds
<1>2. CASE \/ GetPid \/ GetPpid \/ GetTime \/ GetStatus \/ Write \/ WriteBadChannel
           \/ ReadConsoleEmpty \/ ReadBadChannel
  BY <1>1, <1>2, QueriesReply, ReplyFits
<1>3. CASE Exit
  <2>1. PICK status \in ExitStatuses : ExitWith(status)
    BY <1>3 DEF Exit
  <2>2. status \in ExitStatuses \cup {EXIT_BAD_CODE}
    BY <2>1
  <2> QED
    BY <1>1, <2>1, <2>2, ExitFits
<1>4. CASE BogusCall
  BY <1>1, <1>4, ExitFits DEF BogusCall
<1>5. CASE Kill
  BY <1>1, <1>5, KillFits
<1>6. CASE Wait
  BY <1>1, <1>6, WaitFits
<1>7. CASE Fork
  BY <1>1, <1>7, ForkFits
<1>8. CASE Exec
  BY <1>1, <1>8, ExecFits
<1>9. CASE Sleep
  BY <1>1, <1>9, SleepFits
<1>10. CASE ReadConsole \/ ReadSio
  BY <1>1, <1>10, ReadsFit
<1>11. CASE RxChar \/ KeyPress
  BY <1>1, <1>11, InputFits
<1>12. CASE Tick
  BY <1>1, <1>12, TickFits
<1> QED
  BY <1>2, <1>3, <1>4, <1>5, <1>6, <1>7, <1>8, <1>9, <1>10, <1>11, <1>12 DEF Next

(* init has forked nobody yet.                                             *)
LEMMA InitFits ==
  ASSUME Init
  PROVE  Fits(K)
<1>1. K \in KernelState /\ K.pcb = pcb /\ K.next_pid = next_pid
  BY InitType, KType
<1>2. \A p \in Pcb : pcb[p].children = 0 /\ (p # InitPcb => pcb[p].ppid = PID_NONE)
  BY DEF Init, InitProcess, FreePcb
<1>3. Forks(K) = 0 /\ InitPcb \in Pcb
  BY <1>1, Numbers DEF Init, Forks
<1>4. Adoptable(K.pcb) = {}
  BY <1>1, <1>2 DEF Adoptable
<1>5. Cardinality(Adoptable(K.pcb)) = 0
  BY <1>4, FS_EmptySet
<1> QED
  BY <1>1, <1>2, <1>3, <1>5 DEF Fits

-----------------------------------------------------------------------------
(* The theorems.                                                           *)

(* The inductive invariant: the kernel is at rest between two of its       *)
(* steps, or has given up.                                                 *)
THEOREM KernelKept == Spec => []Kept
<1>1. Init => Kept
  BY InitKept
<1>2. Kept /\ [Next]_vars => Kept'
  <2> SUFFICES ASSUME Kept, [Next]_vars PROVE Kept'
    OBVIOUS
  <2>1. CASE Next
    BY <2>1, StepEnds, EndedKeeps DEF Ends
  <2>2. CASE UNCHANGED vars
    <3>1. K' = K
      BY <2>2 DEF vars, K
    <3>2. AtRest(K') \/ GaveUp(K')
      BY <3>1 DEF Kept
    <3> QED
      BY <3>2 DEF Kept
  <2> QED
    BY <2>1, <2>2
<1> QED
  BY <1>1, <1>2, PTL DEF Spec

(* What is at rest when nothing has panicked.                              *)
LEMMA KeptRests ==
  ASSUME Kept, panic = NoPanic
  PROVE  AtRest(K)
<1>1. K.panic = panic
  BY DEF K
<1> QED
  BY <1>1 DEF Kept, GaveUp, NoPanic

(* The queue module's pool: no qnode is ever lost, though the status of    *)
(* many calls of _q_enque is ignored.                                      *)
THEOREM QnodesBalance == Spec => []QnodeBalance
<1>1. Kept => QnodeBalance
  <2> SUFFICES ASSUME Kept PROVE QnodeBalance
    OBVIOUS
  <2>1. Counts(K)
    BY SoundCounts DEF Kept, AtRest, GaveUp
  <2>2. K.queue = queue /\ K.qnodes = qnodes /\ K.free_stacks = free_stacks
    BY DEF K
  <2> QED
    BY <2>1, <2>2 DEF Counts, QnodeBalance, QueuedPcbs
<1> QED
  BY <1>1, KernelKept, PTL

(* Every PCB is where its state says, once: what _sys_kill, _sys_wait,     *)
(* _zombify and _dispatch rely on when they take one off a queue.          *)
THEOREM EachInItsPlace == Spec => []Placement
<1>1. Kept => Placement
  <2> SUFFICES ASSUME Kept, panic = NoPanic
               PROVE  /\ \A p \in Pcb : pcb[p].state = PS_RUNNING <=> p = current
                      /\ \A q \in QueueId :
                           /\ IsInjective(queue[q])
                           /\ ToSet(queue[q]) = {p \in Pcb \ {current} : QueueOf(K, p) = q}
    BY DEF Placement
  <2>1. AtRest(K)
    BY KeptRests
  <2>2. K.pcb = pcb /\ K.queue = queue /\ K.current = current
    BY DEF K
  <2>3. Placed(K, {current}) /\ pcb[current].state = PS_RUNNING
    BY <2>1, <2>2 DEF AtRest, Sound
  <2>4. \A p \in Pcb : pcb[p].state = PS_RUNNING <=> p = current
    BY <2>2, <2>3 DEF Placed
  <2>5. \A q \in QueueId : Lists(queue[q], {p \in Pcb \ {current} : QueueOf(K, p) = q})
    BY <2>2, <2>3 DEF Placed, QueuedAt
  <2> QED
    BY <2>4, <2>5 DEF Lists
<1> QED
  BY <1>1, KernelKept, PTL

(* Every stack is free, or has one owner, and none leaks.                  *)
THEOREM StacksOwned == Spec => []StackOwnership
<1>1. Kept => StackOwnership
  <2> SUFFICES ASSUME Kept, panic = NoPanic
               PROVE  /\ IsInjective(free_stacks)
                      /\ \A p, c \in Pcb : p # c /\ ~ Free(p) /\ ~ Free(c)
                                            => pcb[p].stack # pcb[c].stack
                      /\ {pcb[p].stack : p \in {c \in Pcb : ~ Free(c)}}
                           = Stack \ ToSet(free_stacks)
    BY DEF StackOwnership
  <2>1. AtRest(K)
    BY KeptRests
  <2>2. K.pcb = pcb /\ K.free_stacks = free_stacks
    BY DEF K
  <2>3. Stacked(K)
    BY <2>1 DEF AtRest, Sound
  <2>4. Owners(K) = {c \in Pcb : ~ Free(c)}
    BY <2>2 DEF Owners, Free
  <2>5. Owned(K) = {pcb[p].stack : p \in {c \in Pcb : ~ Free(c)}} /\ Owned(K) \subseteq Stack
    BY <2>2, <2>3, <2>4 DEF Owned, Stacked
  <2>6. IsInjective(free_stacks) /\ ToSet(free_stacks) = Stack \ Owned(K)
    BY <2>2, <2>3 DEF Stacked, Lists
  <2>7. \A p, c \in Pcb : p # c /\ ~ Free(p) /\ ~ Free(c) => pcb[p].stack # pcb[c].stack
    BY <2>2, <2>3, <2>4 DEF Stacked
  <2> QED
    BY <2>5, <2>6, <2>7
<1> QED
  BY <1>1, KernelKept, PTL

(* PIDs are unique, every process has a parent to report to, and every     *)
(* live process counts its children.                                       *)
THEOREM FamilyTree == Spec => []ProcessTree
<1>1. Kept => ProcessTree
  <2> SUFFICES ASSUME Kept, panic = NoPanic, NEW p \in Pcb, ~ Free(p)
               PROVE  /\ IF p = InitPcb THEN pcb[p].pid = PID_INIT
                         ELSE pcb[p].pid \in PID_FIRST_USER .. next_pid - 1
                      /\ \A c \in Pcb : ~ Free(c) /\ pcb[c].pid = pcb[p].pid => c = p
                      /\ \E parent \in Pcb : /\ pcb[parent].pid = pcb[p].ppid
                                             /\ parent = InitPcb \/ Live(parent)
                      /\ Live(p) => pcb[p].children >=
                                      Cardinality(ChildrenOf(K, pcb[p].pid) \ {InitPcb})
    BY DEF ProcessTree
  <2>1. Tree(pcb, next_pid, {})
    BY KeptRests, EntryRest
  <2>2. \A c \in Pcb : (Used(pcb, c) <=> ~ Free(c)) /\ (Alive(pcb, c) <=> Live(c))
    BY DEF Used, Alive, Free, Live, Dead
  <2>3. IF p = InitPcb THEN pcb[p].pid = PID_INIT
        ELSE pcb[p].pid \in PID_FIRST_USER .. next_pid - 1
    BY <2>1, <2>2 DEF Tree, Rooted, Numbered
  <2>4. \A c \in Pcb : ~ Free(c) /\ pcb[c].pid = pcb[p].pid => c = p
    BY <2>1, <2>2 DEF Tree, Numbered
  <2>5. \E parent \in Pcb : /\ pcb[parent].pid = pcb[p].ppid
                            /\ parent = InitPcb \/ Live(parent)
    BY <2>1, <2>2 DEF Tree, Parented
  <2>6. Live(p) => pcb[p].children >= Cardinality(ChildrenOf(K, pcb[p].pid) \ {InitPcb})
    <3>1. ChildrenOf(K, pcb[p].pid) \ {InitPcb} = Kids(pcb, p)
      BY DEF ChildrenOf, Kids, K
    <3> QED
      BY <2>1, <2>2, <3>1 DEF Tree, KidsCounted
  <2> QED
    BY <2>3, <2>4, <2>5, <2>6
<1> QED
  BY <1>1, KernelKept, PTL

(* fork() is refused before any count of children could overflow its 16    *)
(* bits, whoever inherits or adopts whom: with Forks as the account from   *)
(* which every count is paid.                                              *)
THEOREM CountsFit == Spec => []ChildrenFit
<1>1. Init => Fits(K)
  BY InitFits
<1>2. Kept /\ Fits(K) /\ [Next]_vars => Fits(K')
  <2> SUFFICES ASSUME Kept, Fits(K), [Next]_vars PROVE Fits(K')
    OBVIOUS
  <2>1. CASE UNCHANGED vars
    <3>1. K' = K
      BY <2>1 DEF vars, K
    <3> QED
      BY <3>1
  <2> QED
    BY <2>1, StepFits
<1>3. Fits(K) => ChildrenFit
  BY DEF Fits, Forks, ChildrenFit, K
<1>4. Fits(K') <=> Fits(K)'
  OBVIOUS
<1> QED
  BY <1>1, <1>2, <1>3, <1>4, KernelKept, PTL DEF Spec

(* Nobody but init waits while a child of its that exited is uncollected.  *)
THEOREM NoExitMissed == Spec => []WaitMissesNoExit
<1>1. Kept => WaitMissesNoExit
  <2> SUFFICES ASSUME Kept, panic = NoPanic, NEW p \in Pcb \ {InitPcb},
                      pcb[p].state = PS_WAITING,
                      NEW c \in ChildrenOf(K, pcb[p].pid)
               PROVE  pcb[c].state # PS_ZOMBIE
    BY DEF WaitMissesNoExit
  <2>1. Tree(pcb, next_pid, {})
    BY KeptRests, EntryRest
  <2>2. c \in Pcb \ {} /\ pcb[c].ppid = pcb[p].pid
    BY DEF ChildrenOf, K
  <2> QED
    BY <2>1, <2>2 DEF Tree, Noticed, NoneExited
<1> QED
  BY <1>1, KernelKept, PTL

(* Of all the checks that end in _kpanic only two can fail.                *)
THEOREM PanicsAreUsers == Spec => []OnlyUserPanics
<1>1. Kept => OnlyUserPanics
  <2>1. K.panic = panic
    BY DEF K
  <2> QED
    BY <2>1 DEF Kept, AtRest, GaveUp, Sound, Halted, OnlyUserPanics
<1> QED
  BY <1>1, KernelKept, PTL

(* A process disappears only as it is reported to its parent, and a parent *)
(* is told of one child that has disappeared.                              *)
THEOREM ReapingReports == Spec => ReapedByParent
<1>1. ASSUME NEW k, Reports(k), Becomes(k)
      PROVE  Reporting
  <2> DEFINE told == {w \in Pcb : Len(returned'[w]) = 3}
  <2>1. returned' = k.returned /\ pcb' = k.pcb
    BY <1>1 DEF Becomes
  <2>2. Reaped = {p \in Pcb : Used(pcb, p) /\ ~ Used(k.pcb, p)}
    BY <2>1 DEF Reaped, Free, Used
  <2>3. CASE /\ \A w \in Pcb : Len(k.returned[w]) # 3
             /\ \A p \in Pcb : Used(pcb, p) => Used(k.pcb, p)
    <3>1. told = {} /\ Reaped = {}
      BY <2>1, <2>2, <2>3
    <3> QED
      BY <3>1, FS_EmptySet DEF Reporting
  <2>4. CASE \E p, w \in Pcb :
               /\ Used(pcb, p) /\ pcb[w].pid = pcb[p].ppid
               /\ \E status \in FinalStatus(p) :
                    k.returned[w] = <<E_SUCCESS, pcb[p].pid, status>>
               /\ \A c \in Pcb \ {w} : Len(k.returned[c]) # 3
               /\ ~ Used(k.pcb, p) /\ \A c \in Pcb \ {p} : Used(pcb, c) => Used(k.pcb, c)
    <3>1. PICK p, w \in Pcb :
               /\ Used(pcb, p) /\ pcb[w].pid = pcb[p].ppid
               /\ \E status \in FinalStatus(p) :
                    k.returned[w] = <<E_SUCCESS, pcb[p].pid, status>>
               /\ \A c \in Pcb \ {w} : Len(k.returned[c]) # 3
               /\ ~ Used(k.pcb, p) /\ \A c \in Pcb \ {p} : Used(pcb, c) => Used(k.pcb, c)
      BY <2>4
    <3>2. Len(k.returned[w]) = 3
      BY <3>1
    <3>3. told = {w}
      BY <2>1, <3>1, <3>2
    <3>4. Reaped = {p}
      BY <2>2, <3>1
    <3>5. Cardinality({p}) = 1 /\ Cardinality({w}) = 1
      BY FS_Singleton
    <3>6. \A x \in Reaped, y \in told :
            /\ pcb[y].pid = pcb[x].ppid
            /\ \E status \in FinalStatus(x) :
                 returned'[y] = <<E_SUCCESS, pcb[x].pid, status>>
      BY <2>1, <3>1, <3>3, <3>4
    <3> HIDE DEF told
    <3>7. Cardinality(told) = Cardinality(Reaped) /\ Cardinality(told) <= 1
      BY <3>3, <3>4, <3>5
    <3> QED
      BY <3>6, <3>7 DEF Reporting, told
  <2> QED
    BY <1>1, <2>3, <2>4 DEF Reports
<1>2. Kept /\ [Next]_vars => [Reporting]_vars
  <2> SUFFICES ASSUME Kept, Next PROVE Reporting
    OBVIOUS
  <2>1. \E k \in KernelState : Becomes(k) /\ Ended(k)
    BY StepEnds DEF Ends
  <2> QED
    BY <1>1, <2>1 DEF Ended
<1> QED
  BY <1>2, KernelKept, PTL DEF Spec, ReapedByParent

(* A clock interrupt leaves nobody asleep whose time has come, and no      *)
(* other step moves the clock.                                             *)
THEOREM TickWakesAll == Spec => TickWakesDue
<1>1. Kept /\ [Next]_vars => [WakingDue]_vars
  <2> SUFFICES ASSUME Kept, Next, now' # now
               PROVE  \A p \in Pcb : pcb'[p].state = PS_SLEEPING => pcb'[p].wakeup > now'
    BY DEF WakingDue
  <2>1. ~ Ends
    BY DEF Ends, Quiet, Becomes
  <2>2. PICK k \in KernelState : Becomes(k) /\ Awake(k)
    BY <2>1, StepEnds
  <2> QED
    BY <2>2 DEF Becomes, Awake
<1> QED
  BY <1>1, KernelKept, PTL DEF Spec, TickWakesDue

(* A process that wakes at the tick at which the quantum runs out is ahead *)
(* of the preempted process in the ready queue.                            *)
THEOREM WokenGoFirst == Spec => AwakenedFirst
<1>1. Kept /\ [Next]_vars => [WakingFirst]_vars
  <2> SUFFICES ASSUME Kept, Next, NEW p \in Pcb,
                      pcb[p].state = PS_SLEEPING, pcb'[p].state = PS_READY,
                      pcb[current].state = PS_RUNNING, pcb'[current].state = PS_READY,
                      pcb'[p].prio = pcb'[current].prio
               PROVE  AheadIn(queue'[Ready(pcb'[p].prio)], p, current)
    BY DEF WakingFirst, Before, AheadIn
  <2>1. ~ Ends
    BY DEF Ends, Quiet, Becomes
  <2>2. PICK k \in KernelState : Becomes(k) /\ Preferred(k)
    BY <2>1, StepEnds
  <2>3. p # current
    BY DEF PS_SLEEPING, PS_RUNNING
  <2>4. queue' = k.queue /\ pcb' = k.pcb
    BY <2>2 DEF Becomes
  <2> QED
    BY <2>2, <2>3, <2>4 DEF Preferred
<1> QED
  BY <1>1, KernelKept, PTL DEF Spec, AwakenedFirst

=============================================================================
