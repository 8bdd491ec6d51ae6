----------------------------- MODULE QueueSpec -----------------------------
(***************************************************************************)
(* What the queue module promises its callers: queues that are sequences,  *)
(* kept in the order of a key where they have one, drawing on a pool.      *)
(* KernelOps.tla uses the queues in this form; QueueList.tla shows that    *)
(* the linked lists of queue.c implement it.                               *)
(*                                                                         *)
(* This is a statement of intent: it translates no code.                   *)
(***************************************************************************)
EXTENDS Naturals, SequencesExt, FiniteSetsExt

CONSTANTS
  Queue,        \* the queues
  Data,         \* what is put on them
  POOL,         \* entries that all of them together can hold
  Key(_, _)     \* the order of a queue; the same for all data if it has none

VARIABLES
  items,        \* the contents of each queue
  result        \* what the last operation returned: [status, data]

Used == Cardinality(UNION {{q} \X (1 .. Len(items[q])) : q \in Queue})

Returns(status, data) == result' = [status |-> status, data |-> data]

Init ==
  /\ items = [q \in Queue |-> <<>>]
  /\ result = [status |-> "E_SUCCESS", data |-> <<>>]

(* Data go before those with a greater key, and after those with the same. *)
Enque(q, d) ==
  LET after == {i \in 1 .. Len(items[q]) : Key(q, d) < Key(q, items[q][i])}
      place == IF after = {} THEN Len(items[q]) + 1 ELSE Min(after)
  IN  IF Used = POOL
      THEN Returns("E_NO_QNODES", <<>>) /\ UNCHANGED items
      ELSE /\ items' = [items EXCEPT ![q] = InsertAt(@, place, d)]
           /\ Returns("E_SUCCESS", <<>>)

Peek(q) ==
  /\ IF items[q] = <<>> THEN Returns("E_EMPTY_QUEUE", <<>>)
                        ELSE Returns("E_SUCCESS", <<Head(items[q])>>)
  /\ UNCHANGED items

Deque(q) ==
  IF items[q] = <<>>
  THEN Returns("E_EMPTY_QUEUE", <<>>) /\ UNCHANGED items
  ELSE /\ Returns("E_SUCCESS", <<Head(items[q])>>)
       /\ items' = [items EXCEPT ![q] = Tail(@)]

Extract(q, d) ==
  IF d \notin ToSet(items[q])
  THEN Returns("E_NO_PROCESS", <<>>) /\ UNCHANGED items
  ELSE /\ Returns("E_SUCCESS", <<>>)
       /\ items' = [items EXCEPT ![q] = RemoveFirst(@, d)]

Next ==
  \E q \in Queue :
    \/ Peek(q) \/ Deque(q)
    \/ \E d \in Data : Enque(q, d) \/ Extract(q, d)

Spec == Init /\ [][Next]_<<items, result>>
=============================================================================
