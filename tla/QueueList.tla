----------------------------- MODULE QueueList -----------------------------
(***************************************************************************)
(* queue.c as it is written: queues that are singly linked lists with a    *)
(* head, a tail and a size, and one free list of qnodes for all of them.   *)
(*                                                                         *)
(* A qnode is a number, NULL is 0.  A failed check of the code, which      *)
(* panics, is the status "panic".                                          *)
(*                                                                         *)
(* An operator named Op_Something is Op with a plausible mistake, as in    *)
(* KernelOps.                                                              *)
(***************************************************************************)
EXTENDS Naturals, Sequences, FiniteSetsExt

CONSTANTS
  N_QNODES,     \* qnodes in the system
  Queue,        \* the queues
  Sorted,       \* those that have a comparison function
  Data,         \* what is put on them
  wakeup        \* the field of each datum that _cmp_wakeup compares

ASSUME QueueListConstants ==
  /\ N_QNODES \in Nat \ {0}
  /\ Sorted \subseteq Queue
  /\ wakeup \in [Data -> Nat]

NULL  == 0
Qnode == 1 .. N_QNODES

VARIABLES
  next, data,   \* the fields of the qnodes
  free,         \* _free_qnodes
  que,          \* the queues: [head, tail, size]
  result        \* what the last operation returned: [status, data]

vars == <<next, data, free, que, result>>

Returns(status, d) == result' = [status |-> status, data |-> d]

(* The qnodes from n on, in the order in which a traversal meets them.     *)
Chain(n) ==
  LET at[i \in Qnode] ==
        IF i = 1 THEN n ELSE IF at[i - 1] = NULL THEN NULL ELSE next[at[i - 1]]
      length == Cardinality({i \in Qnode : at[i] # NULL})
  IN  [i \in 1 .. length |-> at[i]]

(* _qn_init releases the qnodes one by one.                                *)
Init ==
  /\ next = [n \in Qnode |-> n - 1]
  /\ free = N_QNODES
  /\ data = [n \in Qnode |-> NULL]
  /\ que = [q \in Queue |-> [head |-> NULL, tail |-> NULL, size |-> 0]]
  /\ result = [status |-> "E_SUCCESS", data |-> <<>>]

-----------------------------------------------------------------------------
(* _q_enque.                                                               *)

(* _cmp_wakeup(d, e) >= 0, which the traversal skips.                      *)
NotBefore_Strict(d, e) == wakeup[d] > wakeup[e]
NotBefore(d, e) == wakeup[d] >= wakeup[e]

(* How many qnodes the traversal of a sorted queue passes.                 *)
Passed(q, d) ==
  LET chain == Chain(que[q].head)
      stop  == {i \in 1 .. Len(chain) : ~ NotBefore(d, data[chain[i]])}
  IN  IF stop = {} THEN Len(chain) ELSE Min(stop) - 1

First(q, new) ==
  /\ que' = [que EXCEPT ![q] = [head |-> new, tail |-> new, size |-> 1]]
  /\ next' = [next EXCEPT ![new] = NULL]
  /\ Returns("E_SUCCESS", <<>>)

AtTail(q, new) ==
  /\ next' = [next EXCEPT ![new] = NULL, ![que[q].tail] = new]
  /\ que' = [que EXCEPT ![q].tail = new, ![q].size = @ + 1]
  /\ Returns("E_SUCCESS", <<>>)

InOrder(q, new, d) ==
  LET chain == Chain(que[q].head)
      n     == Passed(q, d)
      curr  == IF n = Len(chain) THEN NULL ELSE chain[n + 1]
      prev  == IF n = 0 THEN NULL ELSE chain[n]
  IN  IF prev = NULL /\ curr = NULL
      THEN Returns("panic", <<>>) /\ UNCHANGED <<next, que>>
      ELSE /\ next' = IF prev = NULL THEN [next EXCEPT ![new] = curr]
                      ELSE [next EXCEPT ![new] = curr, ![prev] = new]
           /\ que' = [que EXCEPT
                        ![q].head = IF prev = NULL THEN new ELSE @,
                        ![q].tail = IF prev # NULL /\ curr = NULL THEN new ELSE @,
                        ![q].size = @ + 1]
           /\ Returns("E_SUCCESS", <<>>)

Enque(q, d) ==
  IF free = NULL
  THEN Returns("E_NO_QNODES", <<>>) /\ UNCHANGED <<next, data, free, que>>
  ELSE /\ free' = next[free]
       /\ data' = [data EXCEPT ![free] = d]
       /\ \/ que[q].size = 0 /\ First(q, free)
          \/ que[q].size # 0 /\ q \notin Sorted /\ AtTail(q, free)
          \/ que[q].size # 0 /\ q \in Sorted /\ InOrder(q, free, d)

-----------------------------------------------------------------------------
(* _q_peek, _q_deque and _q_remove; _qn_dealloc puts the qnode in front of *)
(* the free list.                                                          *)

Peek(q) ==
  /\ IF que[q].size = 0 THEN Returns("E_EMPTY_QUEUE", <<>>)
     ELSE IF que[q].head = NULL \/ que[q].tail = NULL THEN Returns("panic", <<>>)
     ELSE Returns("E_SUCCESS", <<data[que[q].head]>>)
  /\ UNCHANGED <<next, data, free, que>>

Deque(q) ==
  LET qn   == que[q].head
      left == [head |-> next[qn], tail |-> IF next[qn] = NULL THEN NULL ELSE que[q].tail,
               size |-> que[q].size - 1]
  IN  IF que[q].size = 0 \/ qn = NULL \/ que[q].tail = NULL THEN Peek(q)
      ELSE /\ que' = [que EXCEPT ![q] = left]
           /\ next' = [next EXCEPT ![qn] = free]
           /\ data' = [data EXCEPT ![qn] = NULL]
           /\ free' = qn
           /\ IF left.head = NULL /\ left.size # 0 THEN Returns("panic", <<>>)
              ELSE Returns("E_SUCCESS", <<data[qn]>>)

Unlinked(q, prev, curr) ==
  [head |-> IF prev = NULL THEN next[curr] ELSE que[q].head,
   tail |-> IF que[q].tail = curr THEN prev ELSE que[q].tail,
   size |-> que[q].size - 1]

Remove(q, d) ==
  LET chain == Chain(que[q].head)
      found == {i \in 1 .. Len(chain) : data[chain[i]] = d}
      i     == Min(found)
      prev  == IF i = 1 THEN NULL ELSE chain[i - 1]
      cut   == IF prev = NULL THEN next ELSE [next EXCEPT ![prev] = next[chain[i]]]
  IN  IF found = {}
      THEN Returns("E_NO_PROCESS", <<>>) /\ UNCHANGED <<next, data, free, que>>
      ELSE /\ que' = [que EXCEPT ![q] = Unlinked(q, prev, chain[i])]
           /\ next' = [cut EXCEPT ![chain[i]] = free]
           /\ data' = [data EXCEPT ![chain[i]] = NULL]
           /\ free' = chain[i]
           /\ Returns("E_SUCCESS", <<>>)

-----------------------------------------------------------------------------
Next ==
  \E q \in Queue :
    \/ Peek(q) \/ Deque(q)
    \/ \E d \in Data : Enque(q, d) \/ Remove(q, d)

Spec == Init /\ [][Next]_vars

-----------------------------------------------------------------------------
(* The data that a queue holds, in the order of its list.                  *)
Contents == [q \in Queue |-> LET list == Chain(que[q].head)
                             IN  [i \in DOMAIN list |-> data[list[i]]]]

Abstract == INSTANCE QueueSpec WITH
  POOL  <- N_QNODES,
  Key   <- LAMBDA q, d : IF q \in Sorted THEN wakeup[d] ELSE 0,
  items <- Contents

(* The lists implement the sequences that the model of the kernel works    *)
(* with: same order, same results, same pool, and no internal check fails, *)
(* whatever the sequence of operations.                                    *)
ImplementsQueues == Abstract!Spec
=============================================================================
