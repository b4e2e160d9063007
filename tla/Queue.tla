------------------------------- MODULE Queue --------------------------------
(***************************************************************************)
(* queue.c: the fixed-size ring buffer that carries uplink messages from   *)
(* the UE receive threads to the subframe and slot tasks.                  *)
(*                                                                         *)
(* Each operation holds q->mutex from its first to its last access to the  *)
(* queue, so one operation is one step here, whatever the calling thread.  *)
(* The mutex is a default one: pthread_mutex_lock cannot fail on it, and   *)
(* the "mutex_lock failed" returns are never taken.                        *)
(***************************************************************************)
EXTENDS Integers, Sequences

CONSTANTS
  Items,          \* the pointers callers queue (put_queue and requeue assert they are not NULL)
  NULL,
  MAX_QUEUE_SIZE

ASSUME QueueAssumption ==
  /\ MAX_QUEUE_SIZE \in Nat \ {0}
  /\ NULL \notin Items

VARIABLES
  items,       \* the ring of slots
  read_index,  \* slot of the oldest item
  write_index, \* slot the next put_queue fills
  num_items,
  call,        \* the last function called, and
  reply        \* what it returned to its caller

vars == <<items, read_index, write_index, num_items, call, reply>>

Calls == {"init_queue", "put_queue", "get_queue", "requeue", "unqueue", "unqueue_matching"}

Index == 0 .. MAX_QUEUE_SIZE - 1

(* The slots after and before i, and the slot k places after i. *)
Succ(i) == (i + 1) % MAX_QUEUE_SIZE
Pred(i) == (i + MAX_QUEUE_SIZE - 1) % MAX_QUEUE_SIZE
Plus(i, k) == (i + k) % MAX_QUEUE_SIZE

init_queue ==
  /\ items = [i \in Index |-> NULL]
  /\ read_index = 0
  /\ write_index = 0
  /\ num_items = 0
  /\ call = "init_queue"
  /\ reply = NULL

-----------------------------------------------------------------------------
(* Plausible defects of the operations below, for the mutation checks. *)

PutOverwrites(item) ==
  /\ items' = [items EXCEPT ![write_index] = item]
  /\ write_index' = Succ(write_index)
  /\ num_items' = num_items + 1
  /\ call' = "put_queue"
  /\ reply' = TRUE
  /\ UNCHANGED read_index

GetLeavesPointer ==
  IF num_items > 0
  THEN /\ call' = "get_queue"
       /\ reply' = items[read_index]
       /\ read_index' = Succ(read_index)
       /\ num_items' = num_items - 1
       /\ UNCHANGED <<items, write_index>>
  ELSE call' = "get_queue" /\ reply' = NULL /\ UNCHANGED <<items, read_index, write_index, num_items>>

RequeueAtTail(item) ==
  IF num_items >= MAX_QUEUE_SIZE
  THEN call' = "requeue" /\ reply' = FALSE /\ UNCHANGED <<items, read_index, write_index, num_items>>
  ELSE /\ items' = [items EXCEPT ![write_index] = item]
       /\ write_index' = Succ(write_index)
       /\ num_items' = num_items + 1
       /\ call' = "requeue"
       /\ reply' = TRUE
       /\ UNCHANGED read_index

-----------------------------------------------------------------------------
put_queue(item) ==
  IF num_items >= MAX_QUEUE_SIZE
  THEN call' = "put_queue" /\ reply' = FALSE /\ UNCHANGED <<items, read_index, write_index, num_items>>
  ELSE /\ items' = [items EXCEPT ![write_index] = item]
       /\ write_index' = Succ(write_index)
       /\ num_items' = num_items + 1
       /\ call' = "put_queue"
       /\ reply' = TRUE
       /\ UNCHANGED read_index

get_queue ==
  IF num_items > 0
  THEN /\ call' = "get_queue"
       /\ reply' = items[read_index]
       /\ items' = [items EXCEPT ![read_index] = NULL]
       /\ read_index' = Succ(read_index)
       /\ num_items' = num_items - 1
       /\ UNCHANGED write_index
  ELSE call' = "get_queue" /\ reply' = NULL /\ UNCHANGED <<items, read_index, write_index, num_items>>

requeue(item) ==
  IF num_items >= MAX_QUEUE_SIZE
  THEN call' = "requeue" /\ reply' = FALSE /\ UNCHANGED <<items, read_index, write_index, num_items>>
  ELSE /\ items' = [items EXCEPT ![Pred(read_index)] = item]
       /\ read_index' = Pred(read_index)
       /\ num_items' = num_items + 1
       /\ call' = "requeue"
       /\ reply' = TRUE
       /\ UNCHANGED write_index

unqueue ==
  IF num_items > 0
  THEN /\ call' = "unqueue"
       /\ reply' = items[Pred(write_index)]
       /\ items' = [items EXCEPT ![Pred(write_index)] = NULL]
       /\ write_index' = Pred(write_index)
       /\ num_items' = num_items - 1
       /\ UNCHANGED read_index
  ELSE call' = "unqueue" /\ reply' = NULL /\ UNCHANGED <<items, read_index, write_index, num_items>>

(* How far back from write_index a slot lies: 1 is the newest item's slot. *)
DepthOf(i) ==
  IF i < write_index THEN write_index - i ELSE write_index + MAX_QUEUE_SIZE - i

(* The slots that the loop of unqueue_matching visits and the matcher      *)
(* accepts.  "wanted" is the set of candidates the matcher returns true on.*)
Candidates(max_depth, wanted) ==
  {i \in Index : /\ DepthOf(i) <= num_items
                 /\ DepthOf(i) <= max_depth
                 /\ items[i] \in wanted}

(* A plausible defect of the inner loop: write_index is not moved back. *)
CloseGapKeepsWriteIndex(depth) ==
  /\ items' = [i \in Index |->
                 IF DepthOf(i) > depth THEN items[i]
                 ELSE IF DepthOf(i) = 1 THEN NULL
                 ELSE items[Succ(i)]]
  /\ num_items' = num_items - 1
  /\ UNCHANGED <<read_index, write_index>>

(* The inner loop: every item newer than the removed one moves down a slot. *)
CloseGap(depth) ==
  /\ items' = [i \in Index |->
                 IF DepthOf(i) > depth THEN items[i]
                 ELSE IF DepthOf(i) = 1 THEN NULL
                 ELSE items[Succ(i)]]
  /\ write_index' = Pred(write_index)
  /\ num_items' = num_items - 1
  /\ UNCHANGED read_index

unqueue_matching(max_depth, wanted) ==
  \/ /\ Candidates(max_depth, wanted) = {}
     /\ call' = "unqueue_matching"
     /\ reply' = NULL
     /\ UNCHANGED <<items, read_index, write_index, num_items>>
  \/ \E i \in Candidates(max_depth, wanted) :
       /\ \A j \in Candidates(max_depth, wanted) : DepthOf(i) <= DepthOf(j)
       /\ call' = "unqueue_matching"
       /\ reply' = items[i]
       /\ CloseGap(DepthOf(i))

(* A max_depth above MAX_QUEUE_SIZE behaves like MAX_QUEUE_SIZE. *)
Next ==
  \/ \E item \in Items : put_queue(item)
  \/ \E item \in Items : requeue(item)
  \/ get_queue
  \/ unqueue
  \/ \E max_depth \in 0 .. MAX_QUEUE_SIZE, wanted \in SUBSET Items :
       unqueue_matching(max_depth, wanted)

Spec == init_queue /\ [][Next]_vars

-----------------------------------------------------------------------------
(* Type of the fields of queue_t; the counter never leaves the ring's size, *)
(* although put_queue and requeue increment it from different threads.      *)
TypeOK ==
  /\ items \in [Index -> Items \cup {NULL}]
  /\ read_index \in Index
  /\ write_index \in Index
  /\ num_items \in 0 .. MAX_QUEUE_SIZE
  /\ call \in Calls
  /\ reply \in Items \cup {NULL} \cup BOOLEAN

(* Slot i holds one of the num_items queued items. *)
Occupied(i) ==
  (IF read_index <= i THEN i - read_index ELSE i + MAX_QUEUE_SIZE - read_index) < num_items

(* The ring is consistent: write_index is num_items slots after read_index *)
(* and a slot holds a pointer exactly when it lies between the two.  This  *)
(* is what lets the three fields be updated independently by calls at both *)
(* ends.                                                                   *)
RingInv ==
  /\ write_index = Plus(read_index, num_items)
  /\ \A i \in Index : items[i] # NULL <=> Occupied(i)

(* None of the assertions in queue.c can fail: put_queue and requeue write *)
(* to an empty slot (lines 56 and 107), get_queue reads a full one (79).   *)
AssertsHold ==
  /\ num_items < MAX_QUEUE_SIZE => items[write_index] = NULL
  /\ num_items < MAX_QUEUE_SIZE => items[Pred(read_index)] = NULL
  /\ num_items > 0 => items[read_index] # NULL

(* The ring implements the bounded double-ended queue that queue.h         *)
(* documents: what each call returns and keeps, in order.                  *)
Contents == [k \in 1 .. num_items |-> items[Plus(read_index, k - 1)]]

Deque == INSTANCE BoundedDeque WITH contents <- Contents

ImplementsDeque == Deque!Spec
=============================================================================
