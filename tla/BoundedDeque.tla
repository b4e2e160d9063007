---------------------------- MODULE BoundedDeque ----------------------------
(***************************************************************************)
(* What queue.h promises of a queue_t: a bounded double-ended sequence of  *)
(* items.  Every operation is one atomic step, because queue.c runs each   *)
(* of them under the queue's mutex.  "call" and "reply" are the last       *)
(* function called and what it returned.                                   *)
(***************************************************************************)
EXTENDS Naturals, Sequences

CONSTANTS
  Items,         \* the pointers a caller may queue
  NULL,          \* the null pointer
  MAX_QUEUE_SIZE \* capacity of a queue

VARIABLES
  contents, \* the queued items, oldest first
  call,     \* the last function called, and
  reply     \* its result

vars == <<contents, call, reply>>

Full == Len(contents) = MAX_QUEUE_SIZE

Init ==
  /\ contents = <<>>
  /\ call = "init_queue"
  /\ reply = NULL

(* A full queue refuses the item and keeps its contents. *)
Put(item) ==
  /\ contents' = IF Full THEN contents ELSE Append(contents, item)
  /\ call' = "put_queue"
  /\ reply' = ~Full

Get ==
  IF contents = <<>>
  THEN call' = "get_queue" /\ reply' = NULL /\ UNCHANGED contents
  ELSE call' = "get_queue" /\ reply' = contents[1] /\ contents' = Tail(contents)

(* The item goes back to the end that Get reads. *)
Requeue(item) ==
  /\ contents' = IF Full THEN contents ELSE <<item>> \o contents
  /\ call' = "requeue"
  /\ reply' = ~Full

Unqueue ==
  IF contents = <<>>
  THEN call' = "unqueue" /\ reply' = NULL /\ UNCHANGED contents
  ELSE /\ call' = "unqueue"
       /\ reply' = contents[Len(contents)]
       /\ contents' = SubSeq(contents, 1, Len(contents) - 1)

(* The positions among the newest max_depth ones that hold a wanted item. *)
Matching(max_depth, wanted) ==
  {k \in 1..Len(contents) : k + max_depth > Len(contents) /\ contents[k] \in wanted}

(* The newest match leaves the queue, the others keep their order. *)
UnqueueMatching(max_depth, wanted) ==
  \/ /\ Matching(max_depth, wanted) = {}
     /\ call' = "unqueue_matching"
     /\ reply' = NULL
     /\ UNCHANGED contents
  \/ \E k \in Matching(max_depth, wanted) :
       /\ \A j \in Matching(max_depth, wanted) : j <= k
       /\ call' = "unqueue_matching"
       /\ reply' = contents[k]
       /\ contents' = SubSeq(contents, 1, k - 1)
                        \o SubSeq(contents, k + 1, Len(contents))

Next ==
  \/ \E item \in Items : Put(item) \/ Requeue(item)
  \/ Get
  \/ Unqueue
  \/ \E max_depth \in 0 .. MAX_QUEUE_SIZE, wanted \in SUBSET Items :
       UnqueueMatching(max_depth, wanted)

Spec == Init /\ [][Next]_vars
=============================================================================
