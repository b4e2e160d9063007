---------------------------- MODULE QueueProofs -----------------------------
(***************************************************************************)
(* Proofs about Queue for every ring size and every set of pointers.       *)
(***************************************************************************)
EXTENDS Queue, SequenceTheorems, TLAPS

(* Indices are added modulo the ring's size; below twice the size the      *)
(* remainder is a single subtraction, which is all queue.c ever needs.     *)
LEMMA ModSmall ==
  ASSUME NEW a \in 0 .. 2 * MAX_QUEUE_SIZE - 1
  PROVE  a % MAX_QUEUE_SIZE = IF a < MAX_QUEUE_SIZE THEN a ELSE a - MAX_QUEUE_SIZE
  BY QueueAssumption

(* One step round the ring, forwards and backwards, without division. *)
LEMMA IndexSteps ==
  ASSUME NEW i \in Index
  PROVE  /\ Succ(i) \in Index
         /\ Succ(i) = IF i = MAX_QUEUE_SIZE - 1 THEN 0 ELSE i + 1
         /\ Pred(i) \in Index
         /\ Pred(i) = IF i = 0 THEN MAX_QUEUE_SIZE - 1 ELSE i - 1
  BY QueueAssumption, ModSmall DEF Index, Succ, Pred

(* A position at most one ring ahead, without division. *)
LEMMA PlusValue ==
  ASSUME NEW i \in Index, NEW k \in 0 .. MAX_QUEUE_SIZE
  PROVE  /\ Plus(i, k) \in Index
         /\ Plus(i, k) = IF i + k < MAX_QUEUE_SIZE THEN i + k ELSE i + k - MAX_QUEUE_SIZE
  BY QueueAssumption, ModSmall DEF Index, Plus

-----------------------------------------------------------------------------
(* The type invariant is not inductive alone: that get_queue returns a     *)
(* queued pointer, and that the counter stays in range, hold with it; that *)
(* the ring stays consistent needs both conjuncts of RingInv.              *)
Inv == TypeOK /\ RingInv

(* What Inv says of the indices, without remainders. *)
LinearInv ==
  /\ MAX_QUEUE_SIZE \in Nat \ {0}
  /\ read_index \in 0 .. MAX_QUEUE_SIZE - 1
  /\ write_index \in 0 .. MAX_QUEUE_SIZE - 1
  /\ num_items \in 0 .. MAX_QUEUE_SIZE
  /\ write_index = IF read_index + num_items < MAX_QUEUE_SIZE
                   THEN read_index + num_items
                   ELSE read_index + num_items - MAX_QUEUE_SIZE
  /\ \A i \in 0 .. MAX_QUEUE_SIZE - 1 : items[i] # NULL <=> Occupied(i)

(* The invariant in linear arithmetic says the same as the one with remainders. *)
LEMMA InvLinear == Inv <=> TypeOK /\ LinearInv
  <1>1. ASSUME TypeOK
        PROVE  Plus(read_index, num_items) = IF read_index + num_items < MAX_QUEUE_SIZE
                   THEN read_index + num_items
                   ELSE read_index + num_items - MAX_QUEUE_SIZE
    BY <1>1, PlusValue DEF TypeOK, Calls
  <1> QED BY <1>1, QueueAssumption DEF Inv, RingInv, LinearInv, TypeOK, Calls, Index

(* The slots next to both ends of the queue, without division. *)
LEMMA Neighbours ==
  ASSUME TypeOK
  PROVE  /\ Succ(write_index) = IF write_index = MAX_QUEUE_SIZE - 1 THEN 0 ELSE write_index + 1
         /\ Succ(read_index) = IF read_index = MAX_QUEUE_SIZE - 1 THEN 0 ELSE read_index + 1
         /\ Pred(write_index) = IF write_index = 0 THEN MAX_QUEUE_SIZE - 1 ELSE write_index - 1
         /\ Pred(read_index) = IF read_index = 0 THEN MAX_QUEUE_SIZE - 1 ELSE read_index - 1
  BY IndexSteps DEF TypeOK, Calls

(* init_queue makes a consistent empty ring. *)
LEMMA InitInv == init_queue => Inv
  <1> SUFFICES ASSUME init_queue PROVE TypeOK /\ LinearInv
    BY InvLinear
  <1> QED BY QueueAssumption DEF init_queue, TypeOK, Calls, LinearInv, Occupied, Index

(* put_queue keeps the ring consistent. *)
LEMMA PutInv ==
  ASSUME TypeOK, LinearInv, NEW item \in Items, put_queue(item)
  PROVE  TypeOK' /\ LinearInv'
  <1>1. CASE num_items >= MAX_QUEUE_SIZE
    BY <1>1 DEF put_queue, TypeOK, Calls, LinearInv, Occupied
  <1>2. CASE num_items < MAX_QUEUE_SIZE
    <2>1. /\ items' = [items EXCEPT ![write_index] = item]
          /\ write_index' = Succ(write_index)
          /\ num_items' = num_items + 1
          /\ call' = "put_queue"
          /\ reply' = TRUE
          /\ read_index' = read_index
      BY <1>2 DEF put_queue, LinearInv
    <2>2. TypeOK'
      BY <1>2, <2>1, Neighbours DEF TypeOK, Calls, LinearInv, Index
    <2>3. LinearInv'
      BY <1>2, <2>1, Neighbours, QueueAssumption DEF TypeOK, Calls, LinearInv, Occupied, Index
    <2> QED BY <2>2, <2>3
  <1> QED BY <1>1, <1>2 DEF LinearInv

(* get_queue keeps the ring consistent. *)
LEMMA GetInv ==
  ASSUME TypeOK, LinearInv, get_queue
  PROVE  TypeOK' /\ LinearInv'
  <1>1. CASE ~(num_items > 0)
    BY <1>1 DEF get_queue, TypeOK, Calls, LinearInv, Occupied
  <1>2. CASE num_items > 0
    <2>1. /\ items' = [items EXCEPT ![read_index] = NULL]
          /\ read_index' = Succ(read_index)
          /\ num_items' = num_items - 1
          /\ call' = "get_queue"
          /\ reply' = items[read_index]
          /\ write_index' = write_index
      BY <1>2 DEF get_queue, LinearInv
    <2>2. TypeOK'
      BY <1>2, <2>1, Neighbours DEF TypeOK, Calls, LinearInv, Index
    <2>3. LinearInv'
      BY <1>2, <2>1, Neighbours, QueueAssumption DEF TypeOK, Calls, LinearInv, Occupied, Index
    <2> QED BY <2>2, <2>3
  <1> QED BY <1>1, <1>2

(* requeue keeps the ring consistent. *)
LEMMA RequeueInv ==
  ASSUME TypeOK, LinearInv, NEW item \in Items, requeue(item)
  PROVE  TypeOK' /\ LinearInv'
  <1>1. CASE num_items >= MAX_QUEUE_SIZE
    BY <1>1 DEF requeue, TypeOK, Calls, LinearInv, Occupied
  <1>2. CASE num_items < MAX_QUEUE_SIZE
    <2> DEFINE r == IF read_index = 0 THEN MAX_QUEUE_SIZE - 1 ELSE read_index - 1
    <2>1. /\ items' = [items EXCEPT ![r] = item]
          /\ read_index' = r
          /\ num_items' = num_items + 1
          /\ call' = "requeue"
          /\ reply' = TRUE
          /\ write_index' = write_index
      BY <1>2, Neighbours DEF requeue, LinearInv
    <2>2. TypeOK'
      BY <1>2, <2>1 DEF TypeOK, Calls, LinearInv, Index
    <2>3. ASSUME NEW i \in 0 .. MAX_QUEUE_SIZE - 1
          PROVE  (items[i] # NULL <=> Occupied(i))'
      <3>1. items[i] # NULL <=> Occupied(i)
        BY DEF LinearInv
      <3>2. items'[i] = IF i = r THEN item ELSE items[i]
        BY <2>1 DEF TypeOK, Calls, Index
      <3> QED BY <1>2, <2>1, <3>1, <3>2, QueueAssumption DEF LinearInv, Occupied
    <2>4. LinearInv'
      BY <1>2, <2>1, <2>2, <2>3 DEF LinearInv
    <2> QED BY <2>2, <2>4
  <1> QED BY <1>1, <1>2 DEF LinearInv

(* unqueue keeps the ring consistent. *)
LEMMA UnqueueInv ==
  ASSUME TypeOK, LinearInv, unqueue
  PROVE  TypeOK' /\ LinearInv'
  <1>1. CASE ~(num_items > 0)
    BY <1>1 DEF unqueue, TypeOK, Calls, LinearInv, Occupied
  <1>2. CASE num_items > 0
    <2>1. /\ items' = [items EXCEPT ![Pred(write_index)] = NULL]
          /\ write_index' = Pred(write_index)
          /\ num_items' = num_items - 1
          /\ call' = "unqueue"
          /\ reply' = items[Pred(write_index)]
          /\ read_index' = read_index
      BY <1>2 DEF unqueue, LinearInv
    <2>2. TypeOK'
      BY <1>2, <2>1, Neighbours DEF TypeOK, Calls, LinearInv, Index
    <2>3. LinearInv'
      BY <1>2, <2>1, Neighbours, QueueAssumption DEF TypeOK, Calls, LinearInv, Occupied, Index
    <2> QED BY <2>2, <2>3
  <1> QED BY <1>1, <1>2

(* Closing the gap of a removed item keeps the ring consistent. *)
LEMMA CloseGapInv ==
  ASSUME TypeOK, LinearInv, NEW i \in Index, DepthOf(i) <= num_items,
         CloseGap(DepthOf(i)), call' = "unqueue_matching", reply' = items[i]
  PROVE  TypeOK' /\ LinearInv'
  <1>1. \A j \in Index : Succ(j) \in Index
                         /\ Succ(j) = IF j = MAX_QUEUE_SIZE - 1 THEN 0 ELSE j + 1
    BY IndexSteps
  <1>2. num_items > 0
    BY DEF DepthOf, TypeOK, Calls, LinearInv, Index
  <1>3. TypeOK'
    <2>1. items' \in [Index -> Items \cup {NULL}]
      <3> DEFINE gap(j) == IF DepthOf(j) > DepthOf(i) THEN items[j]
                           ELSE IF DepthOf(j) = 1 THEN NULL ELSE items[Succ(j)]
      <3>1. \A j \in Index : gap(j) \in Items \cup {NULL}
        BY <1>1 DEF TypeOK, Calls
      <3>2. items' = [j \in Index |-> gap(j)]
        BY DEF CloseGap
      <3> HIDE DEF gap
      <3> QED BY <3>1, <3>2
    <2>2. /\ read_index' \in Index
          /\ write_index' \in Index
          /\ num_items' \in 0 .. MAX_QUEUE_SIZE
      <3>1. /\ read_index' = read_index
            /\ write_index' = Pred(write_index)
            /\ num_items' = num_items - 1
        BY DEF CloseGap
      <3> QED BY <1>2, <3>1, Neighbours DEF TypeOK, Calls, LinearInv, Index
    <2>3. call' \in Calls /\ reply' \in Items \cup {NULL} \cup BOOLEAN
      BY DEF TypeOK, Calls
    <2> QED BY <2>1, <2>2, <2>3 DEF TypeOK, Calls
  <1>4. ASSUME NEW j \in 0 .. MAX_QUEUE_SIZE - 1
        PROVE  (items[j] # NULL <=> Occupied(j))'
    <2> DEFINE k == IF j = MAX_QUEUE_SIZE - 1 THEN 0 ELSE j + 1
    <2>1. /\ items'[j] = IF DepthOf(j) > DepthOf(i) THEN items[j]
                         ELSE IF DepthOf(j) = 1 THEN NULL ELSE items[k]
          /\ read_index' = read_index
          /\ num_items' = num_items - 1
      BY <1>1 DEF CloseGap, Index
    <2>2. /\ items[j] # NULL <=> Occupied(j)
          /\ items[k] # NULL <=> Occupied(k)
      BY DEF LinearInv
    <2> QED BY <2>1, <2>2 DEF LinearInv, Occupied, DepthOf, Index
  <1>5. LinearInv'
    <2>1. /\ read_index' = read_index
          /\ num_items' = num_items - 1
          /\ write_index' = IF write_index = 0 THEN MAX_QUEUE_SIZE - 1 ELSE write_index - 1
      BY Neighbours DEF CloseGap
    <2> QED BY <1>2, <1>4, <2>1 DEF LinearInv
  <1> QED BY <1>3, <1>5

(* unqueue_matching keeps the ring consistent. *)
LEMMA UnqueueMatchingInv ==
  ASSUME TypeOK, LinearInv, NEW max_depth, NEW wanted, unqueue_matching(max_depth, wanted)
  PROVE  TypeOK' /\ LinearInv'
  <1>1. CASE Candidates(max_depth, wanted) = {}
    <2>1. call' = "unqueue_matching" /\ reply' = NULL /\ UNCHANGED <<items, read_index, write_index, num_items>>
      BY <1>1 DEF unqueue_matching
    <2> QED BY <2>1 DEF TypeOK, Calls, LinearInv, Occupied
  <1>2. CASE Candidates(max_depth, wanted) # {}
    <2>1. PICK i \in Candidates(max_depth, wanted) :
            call' = "unqueue_matching" /\ reply' = items[i] /\ CloseGap(DepthOf(i))
      BY <1>2 DEF unqueue_matching
    <2> QED BY <2>1, CloseGapInv DEF Candidates
  <1> QED BY <1>1, <1>2

(* The inductive invariant holds throughout. *)
LEMMA InvHolds == Spec => []Inv
  <1>1. init_queue => TypeOK /\ LinearInv
    BY InitInv, InvLinear
  <1>2. TypeOK /\ LinearInv /\ [Next]_vars => TypeOK' /\ LinearInv'
    <2> SUFFICES ASSUME TypeOK, LinearInv, [Next]_vars
                 PROVE  TypeOK' /\ LinearInv'
      OBVIOUS
    <2>1. ASSUME NEW item \in Items, put_queue(item) PROVE TypeOK' /\ LinearInv'
      BY <2>1, PutInv
    <2>2. ASSUME NEW item \in Items, requeue(item) PROVE TypeOK' /\ LinearInv'
      BY <2>2, RequeueInv
    <2>3. CASE get_queue
      BY <2>3, GetInv
    <2>4. CASE unqueue
      BY <2>4, UnqueueInv
    <2>5. ASSUME NEW max_depth \in 0 .. MAX_QUEUE_SIZE, NEW wanted \in SUBSET Items,
                 unqueue_matching(max_depth, wanted)
          PROVE  TypeOK' /\ LinearInv'
      BY <2>5, UnqueueMatchingInv
    <2>6. CASE UNCHANGED vars
      BY <2>6 DEF vars, TypeOK, Calls, LinearInv, Occupied
    <2> QED BY <2>1, <2>2, <2>3, <2>4, <2>5, <2>6 DEF Next
  <1> QED BY <1>1, <1>2, InvLinear, PTL DEF Spec

(* The counter and the indices stay inside the ring, whatever its size and *)
(* whichever threads call.                                                 *)
THEOREM TypeCorrect == Spec => []TypeOK
  <1>1. Inv => TypeOK
    BY DEF Inv
  <1> QED BY <1>1, InvHolds, PTL

(* The ring stays consistent under any interleaving of put_queue,          *)
(* get_queue, requeue, unqueue and unqueue_matching, whatever its size.    *)
THEOREM RingConsistent == Spec => []RingInv
  <1>1. Inv => RingInv
    BY DEF Inv
  <1> QED BY <1>1, InvHolds, PTL

(* The assertions of put_queue, get_queue and requeue never fail. *)
THEOREM NoAssertFails == Spec => []AssertsHold
  <1>1. Inv => AssertsHold
    <2> SUFFICES ASSUME TypeOK, LinearInv PROVE AssertsHold
      BY InvLinear
    <2> QED BY Neighbours DEF AssertsHold, TypeOK, Calls, LinearInv, Occupied, Index
  <1> QED BY <1>1, InvHolds, PTL

-----------------------------------------------------------------------------
(* The items of a ring of n items that starts in slot r, oldest first. *)
Ring(slots, r, n) == [k \in 1 .. n |-> slots[Plus(r, k - 1)]]

(* The slot of the k-th of them, without division. *)
SlotOf(r, k) == IF r + k - 1 < MAX_QUEUE_SIZE THEN r + k - 1 ELSE r + k - 1 - MAX_QUEUE_SIZE

(* A ring is read as a sequence. *)
LEMMA RingIsSequence ==
  ASSUME NEW slots, NEW r \in Index, NEW n \in 0 .. MAX_QUEUE_SIZE,
         \A k \in 1 .. n : slots[SlotOf(r, k)] \in Items
  PROVE  /\ Ring(slots, r, n) \in Seq(Items)
         /\ Len(Ring(slots, r, n)) = n
         /\ \A k \in 1 .. n : Ring(slots, r, n)[k] = slots[SlotOf(r, k)]
  <1>1. \A k \in 1 .. n : Plus(r, k - 1) = SlotOf(r, k)
    BY PlusValue, QueueAssumption DEF SlotOf
  <1>2. /\ Ring(slots, r, n) = [k \in 1 .. n |-> slots[Plus(r, k - 1)]]
        /\ \A k \in 1 .. n : slots[Plus(r, k - 1)] \in Items
        /\ n \in Nat
    BY <1>1, QueueAssumption DEF Ring
  <1>3. Ring(slots, r, n) \in [1 .. n -> Items]
    BY <1>2
  <1> QED BY <1>1, <1>2, <1>3

ContentsAreSlots ==
  /\ Contents \in Seq(Items)
  /\ Len(Contents) = num_items
  /\ \A k \in 1 .. num_items : /\ Contents[k] = items[SlotOf(read_index, k)]
                               /\ Contents[k] \in Items

(* The queued items of a consistent ring. *)
LEMMA ContentsOfRing == TypeOK /\ LinearInv => ContentsAreSlots
  <1> SUFFICES ASSUME TypeOK, LinearInv PROVE ContentsAreSlots
    OBVIOUS
  <1>1. Contents = Ring(items, read_index, num_items)
    BY DEF Contents, Ring
  <1>2. \A k \in 1 .. num_items : items[SlotOf(read_index, k)] \in Items
    <2> SUFFICES ASSUME NEW k \in 1 .. num_items PROVE items[SlotOf(read_index, k)] \in Items
      OBVIOUS
    <2> DEFINE i == SlotOf(read_index, k)
    <2>1. i \in 0 .. MAX_QUEUE_SIZE - 1 /\ Occupied(i)
      BY DEF LinearInv, SlotOf, Occupied
    <2>2. items[i] # NULL
      BY <2>1 DEF LinearInv
    <2>3. items[i] \in Items \cup {NULL}
      BY <2>1 DEF TypeOK, Index
    <2> QED BY <2>2, <2>3
  <1>3. read_index \in Index /\ num_items \in 0 .. MAX_QUEUE_SIZE
    BY DEF TypeOK
  <1> QED BY <1>1, <1>2, <1>3, RingIsSequence DEF ContentsAreSlots

(* The items after a step form a sequence that is known by its members. *)
LEMMA NextContents ==
  ASSUME TypeOK', LinearInv', NEW s \in Seq(Items), Len(s) = num_items',
         \A k \in 1 .. num_items' : s[k] = items'[SlotOf(read_index', k)]
  PROVE  Contents' = s
  <1>1. ContentsAreSlots'
    BY ContentsOfRing, PTL
  <1> QED BY <1>1, SeqEqual DEF ContentsAreSlots

(* The abstract state does not change when the ring does not. *)
LEMMA SameContents ==
  ASSUME UNCHANGED <<items, read_index, num_items>>
  PROVE  Contents' = Contents
  BY DEF Contents

(* put_queue adds the newest item, or refuses it. *)
LEMMA PutIsPut ==
  ASSUME TypeOK, LinearInv, NEW item \in Items, put_queue(item)
  PROVE  Deque!Put(item)
  <1>1. ContentsAreSlots
    BY ContentsOfRing
  <1>2. TypeOK' /\ LinearInv'
    BY PutInv
  <1>3. CASE num_items >= MAX_QUEUE_SIZE
    <2>1. call' = "put_queue" /\ reply' = FALSE /\ UNCHANGED <<items, read_index, num_items>>
      BY <1>3 DEF put_queue
    <2>2. Len(Contents) = MAX_QUEUE_SIZE
      BY <1>1, <1>3 DEF ContentsAreSlots, LinearInv
    <2> QED BY <2>1, <2>2, SameContents DEF Deque!Put, Deque!Full
  <1>4. CASE num_items < MAX_QUEUE_SIZE
    <2>1. /\ items' = [items EXCEPT ![write_index] = item]
          /\ num_items' = num_items + 1
          /\ call' = "put_queue"
          /\ reply' = TRUE
          /\ read_index' = read_index
      BY <1>4 DEF put_queue, LinearInv
    <2>2. Len(Contents) # MAX_QUEUE_SIZE
      BY <1>1, <1>4 DEF ContentsAreSlots, LinearInv
    <2> DEFINE s == Append(Contents, item)
    <2>3. /\ s \in Seq(Items) /\ Len(s) = num_items + 1
          /\ \A k \in 1 .. num_items + 1 :
               s[k] = IF k = num_items + 1 THEN item ELSE Contents[k]
      BY <1>1 DEF ContentsAreSlots, LinearInv
    <2> HIDE DEF s
    <2>4. ASSUME NEW k \in 1 .. num_items' PROVE s[k] = items'[SlotOf(read_index', k)]
      <3>1. SlotOf(read_index, k) \in Index
            /\ (SlotOf(read_index, k) = write_index <=> k = num_items + 1)
        BY <1>4, <2>1, <2>4 DEF SlotOf, LinearInv, Index
      <3>2. items'[SlotOf(read_index, k)]
              = IF k = num_items + 1 THEN item ELSE items[SlotOf(read_index, k)]
        BY <2>1, <3>1 DEF TypeOK
      <3>3. k # num_items + 1 => k \in 1 .. num_items
        BY <2>1, <2>4 DEF LinearInv
      <3> QED BY <1>1, <2>1, <2>3, <3>2, <3>3 DEF ContentsAreSlots
    <2>5. Contents' = s
      BY <1>2, <2>1, <2>3, <2>4, NextContents
    <2> QED BY <2>1, <2>2, <2>5 DEF s, Deque!Put, Deque!Full
  <1> QED BY <1>3, <1>4 DEF LinearInv

(* get_queue takes the oldest item. *)
LEMMA GetIsGet ==
  ASSUME TypeOK, LinearInv, get_queue
  PROVE  Deque!Get
  <1>1. ContentsAreSlots
    BY ContentsOfRing
  <1>2. TypeOK' /\ LinearInv'
    BY GetInv
  <1>3. CASE ~(num_items > 0)
    <2>1. call' = "get_queue" /\ reply' = NULL /\ UNCHANGED <<items, read_index, num_items>>
      BY <1>3 DEF get_queue
    <2>2. Contents = <<>>
      BY <1>1, <1>3, EmptySeq DEF ContentsAreSlots, LinearInv
    <2> QED BY <2>1, <2>2, SameContents DEF Deque!Get
  <1>4. CASE num_items > 0
    <2>1. /\ items' = [items EXCEPT ![read_index] = NULL]
          /\ read_index' = Succ(read_index)
          /\ num_items' = num_items - 1
          /\ call' = "get_queue"
          /\ reply' = items[read_index]
      BY <1>4 DEF get_queue, LinearInv
    <2>2. Contents # <<>>
      BY <1>1, <1>4, EmptySeq DEF ContentsAreSlots, LinearInv
    <2>3. SlotOf(read_index, 1) = read_index /\ 1 \in 1 .. num_items
      BY <1>4 DEF SlotOf, LinearInv
    <2>4. reply' = Contents[1]
      BY <1>1, <2>1, <2>3 DEF ContentsAreSlots
    <2> DEFINE s == Tail(Contents)
    <2>5. /\ s \in Seq(Items) /\ Len(s) = num_items - 1
          /\ \A k \in 1 .. num_items - 1 : s[k] = Contents[k + 1]
      BY <1>1, <2>2, HeadTailProperties DEF ContentsAreSlots
    <2> HIDE DEF s
    <2>6. ASSUME NEW k \in 1 .. num_items' PROVE s[k] = items'[SlotOf(read_index', k)]
      <3>1. /\ k \in 1 .. num_items - 1 /\ k + 1 \in 1 .. num_items
            /\ SlotOf(read_index, k + 1) \in Index
            /\ SlotOf(read_index, k + 1) # read_index
        BY <1>4, <2>1, <2>6 DEF SlotOf, LinearInv, Index
      <3>2. SlotOf(read_index', k) = SlotOf(read_index, k + 1)
        BY <1>4, <2>1, <2>6, Neighbours DEF SlotOf, LinearInv
      <3>3. items'[SlotOf(read_index, k + 1)] = items[SlotOf(read_index, k + 1)]
        BY <2>1, <3>1 DEF TypeOK
      <3> QED BY <1>1, <2>5, <3>1, <3>2, <3>3 DEF ContentsAreSlots
    <2>7. Contents' = s
      BY <1>2, <2>1, <2>5, <2>6, NextContents
    <2> QED BY <2>1, <2>2, <2>4, <2>7 DEF s, Deque!Get
  <1> QED BY <1>3, <1>4

(* requeue puts the item back in front of the oldest, or refuses it. *)
LEMMA RequeueIsRequeue ==
  ASSUME TypeOK, LinearInv, NEW item \in Items, requeue(item)
  PROVE  Deque!Requeue(item)
  <1>1. ContentsAreSlots
    BY ContentsOfRing
  <1>2. TypeOK' /\ LinearInv'
    BY RequeueInv
  <1>3. CASE num_items >= MAX_QUEUE_SIZE
    <2>1. call' = "requeue" /\ reply' = FALSE /\ UNCHANGED <<items, read_index, num_items>>
      BY <1>3 DEF requeue
    <2>2. Len(Contents) = MAX_QUEUE_SIZE
      BY <1>1, <1>3 DEF ContentsAreSlots, LinearInv
    <2> QED BY <2>1, <2>2, SameContents DEF Deque!Requeue, Deque!Full
  <1>4. CASE num_items < MAX_QUEUE_SIZE
    <2>1. /\ items' = [items EXCEPT ![Pred(read_index)] = item]
          /\ read_index' = Pred(read_index)
          /\ num_items' = num_items + 1
          /\ call' = "requeue"
          /\ reply' = TRUE
      BY <1>4 DEF requeue, LinearInv
    <2>2. Len(Contents) # MAX_QUEUE_SIZE
      BY <1>1, <1>4 DEF ContentsAreSlots, LinearInv
    <2> DEFINE s == <<item>> \o Contents
    <2>3. /\ s \in Seq(Items) /\ Len(s) = num_items + 1
          /\ \A k \in 1 .. num_items + 1 : s[k] = IF k = 1 THEN item ELSE Contents[k - 1]
      <3>1. <<item>> \in Seq(Items) /\ Len(<<item>>) = 1 /\ <<item>>[1] = item
        OBVIOUS
      <3> QED BY <1>1, <3>1, ConcatProperties DEF ContentsAreSlots, LinearInv
    <2> HIDE DEF s
    <2>4. ASSUME NEW k \in 1 .. num_items' PROVE s[k] = items'[SlotOf(read_index', k)]
      <3>1. /\ SlotOf(read_index', k) \in Index
            /\ SlotOf(read_index', k) = Pred(read_index) <=> k = 1
            /\ k # 1 => /\ k - 1 \in 1 .. num_items
                        /\ SlotOf(read_index', k) = SlotOf(read_index, k - 1)
        BY <1>4, <2>1, <2>4, Neighbours DEF SlotOf, LinearInv, Index
      <3>2. items'[SlotOf(read_index', k)]
              = IF k = 1 THEN item ELSE items[SlotOf(read_index', k)]
        BY <2>1, <3>1 DEF TypeOK
      <3> QED BY <1>1, <2>1, <2>3, <2>4, <3>1, <3>2 DEF ContentsAreSlots
    <2>5. Contents' = s
      BY <1>2, <2>1, <2>3, <2>4, NextContents
    <2> QED BY <2>1, <2>2, <2>5 DEF s, Deque!Requeue, Deque!Full
  <1> QED BY <1>3, <1>4 DEF LinearInv

(* unqueue takes the newest item. *)
LEMMA UnqueueIsUnqueue ==
  ASSUME TypeOK, LinearInv, unqueue
  PROVE  Deque!Unqueue
  <1>1. ContentsAreSlots
    BY ContentsOfRing
  <1>2. TypeOK' /\ LinearInv'
    BY UnqueueInv
  <1>3. CASE ~(num_items > 0)
    <2>1. call' = "unqueue" /\ reply' = NULL /\ UNCHANGED <<items, read_index, num_items>>
      BY <1>3 DEF unqueue
    <2>2. Contents = <<>>
      BY <1>1, <1>3, EmptySeq DEF ContentsAreSlots, LinearInv
    <2> QED BY <2>1, <2>2, SameContents DEF Deque!Unqueue
  <1>4. CASE num_items > 0
    <2>1. /\ items' = [items EXCEPT ![Pred(write_index)] = NULL]
          /\ num_items' = num_items - 1
          /\ call' = "unqueue"
          /\ reply' = items[Pred(write_index)]
          /\ read_index' = read_index
      BY <1>4 DEF unqueue, LinearInv
    <2>2. Contents # <<>> /\ Len(Contents) = num_items /\ num_items \in 1 .. num_items
      BY <1>1, <1>4, EmptySeq DEF ContentsAreSlots, LinearInv
    <2>3. SlotOf(read_index, num_items) = Pred(write_index)
      BY <1>4, Neighbours DEF SlotOf, LinearInv
    <2>4. reply' = Contents[Len(Contents)]
      BY <1>1, <2>1, <2>2, <2>3 DEF ContentsAreSlots
    <2> DEFINE s == SubSeq(Contents, 1, Len(Contents) - 1)
    <2>5. /\ s \in Seq(Items) /\ Len(s) = num_items - 1
          /\ \A k \in 1 .. num_items - 1 : s[k] = Contents[k]
      <3>1. /\ 1 \in Int /\ num_items - 1 \in Int
            /\ \A k \in 1 .. num_items - 1 : Contents[k] \in Items
        BY <1>1 DEF ContentsAreSlots, LinearInv
      <3>2. /\ SubSeq(Contents, 1, num_items - 1) \in Seq(Items)
            /\ Len(SubSeq(Contents, 1, num_items - 1))
                 = IF 1 <= num_items - 1 THEN num_items - 1 - 1 + 1 ELSE 0
            /\ \A k \in 1 .. num_items - 1 - 1 + 1 :
                 SubSeq(Contents, 1, num_items - 1)[k] = Contents[1 + k - 1]
        BY <3>1, SubSeqProperties
      <3> QED BY <1>4, <2>2, <3>1, <3>2 DEF LinearInv
    <2> HIDE DEF s
    <2>6. ASSUME NEW k \in 1 .. num_items' PROVE s[k] = items'[SlotOf(read_index', k)]
      <3>1. /\ k \in 1 .. num_items - 1 /\ k \in 1 .. num_items
            /\ SlotOf(read_index, k) \in Index
            /\ SlotOf(read_index, k) # Pred(write_index)
        <4>1. k \in 1 .. num_items - 1 /\ k \in 1 .. num_items
          BY <1>4, <2>1, <2>6 DEF LinearInv
        <4>2. SlotOf(read_index, k) # SlotOf(read_index, num_items)
              /\ SlotOf(read_index, k) \in Index
          BY <4>1 DEF SlotOf, LinearInv, Index
        <4> QED BY <4>1, <4>2, <2>3
      <3>2. items'[SlotOf(read_index, k)] = items[SlotOf(read_index, k)]
        BY <2>1, <3>1 DEF TypeOK
      <3> QED BY <1>1, <2>1, <2>5, <3>1, <3>2 DEF ContentsAreSlots
    <2>7. Contents' = s
      BY <1>2, <2>1, <2>5, <2>6, NextContents
    <2> QED BY <2>1, <2>2, <2>4, <2>7 DEF s, Deque!Unqueue
  <1> QED BY <1>3, <1>4

(* Counted from the newest item, as unqueue_matching does, or from the     *)
(* oldest one, as positions in a sequence do: the slots are the same.      *)
LEMMA DepthAndPosition ==
  ASSUME TypeOK, LinearInv
  PROVE  /\ \A k \in 1 .. num_items : /\ SlotOf(read_index, k) \in Index
                                     /\ DepthOf(SlotOf(read_index, k)) = num_items + 1 - k
         /\ \A i \in Index : /\ DepthOf(i) \in 1 .. MAX_QUEUE_SIZE
                             /\ DepthOf(i) <= num_items =>
                                  SlotOf(read_index, num_items + 1 - DepthOf(i)) = i
  BY DEF SlotOf, DepthOf, LinearInv, Index

(* Closing the gap of the item at depth num_items + 1 - p removes the p-th *)
(* item and keeps the order of the others.                                 *)
LEMMA CloseGapRemoves ==
  ASSUME TypeOK, LinearInv, TypeOK', LinearInv', NEW p \in 1 .. num_items,
         CloseGap(num_items + 1 - p)
  PROVE  Contents' = SubSeq(Contents, 1, p - 1) \o SubSeq(Contents, p + 1, Len(Contents))
  <1>1. ContentsAreSlots
    BY ContentsOfRing
  <1>2. /\ num_items \in Nat /\ p - 1 \in Nat /\ num_items - p \in Nat /\ p \in Nat
        /\ Len(Contents) = num_items
    BY <1>1 DEF ContentsAreSlots, LinearInv
  <1> DEFINE a == SubSeq(Contents, 1, p - 1)
             b == SubSeq(Contents, p + 1, num_items)
             s == a \o b
  <1>3. /\ a \in Seq(Items) /\ Len(a) = p - 1
        /\ \A k \in 1 .. p - 1 : a[k] = Contents[k]
    <2>1. /\ 1 \in Int /\ p - 1 \in Int
          /\ \A k \in 1 .. p - 1 : Contents[k] \in Items
      BY <1>1, <1>2 DEF ContentsAreSlots
    <2>2. /\ a \in Seq(Items)
          /\ Len(a) = IF 1 <= p - 1 THEN p - 1 - 1 + 1 ELSE 0
          /\ \A k \in 1 .. p - 1 - 1 + 1 : a[k] = Contents[1 + k - 1]
      BY <2>1, SubSeqProperties
    <2> HIDE DEF a
    <2> QED BY <1>2, <2>1, <2>2
  <1>4. /\ b \in Seq(Items) /\ Len(b) = num_items - p
        /\ \A k \in 1 .. num_items - p : b[k] = Contents[p + k]
    <2>1. /\ p + 1 \in Int /\ num_items \in Int
          /\ \A k \in p + 1 .. num_items : Contents[k] \in Items
      BY <1>1, <1>2 DEF ContentsAreSlots
    <2>2. /\ b \in Seq(Items)
          /\ Len(b) = IF p + 1 <= num_items THEN num_items - (p + 1) + 1 ELSE 0
          /\ \A k \in 1 .. num_items - (p + 1) + 1 : b[k] = Contents[p + 1 + k - 1]
      BY <2>1, SubSeqProperties
    <2> HIDE DEF b
    <2> QED BY <1>2, <2>1, <2>2
  <1> HIDE DEF a, b
  <1>5. /\ s \in Seq(Items) /\ Len(s) = num_items - 1
        /\ \A k \in 1 .. num_items - 1 : s[k] = IF k < p THEN Contents[k] ELSE Contents[k + 1]
    <2>1. /\ s \in Seq(Items) /\ Len(s) = Len(a) + Len(b)
          /\ \A k \in 1 .. Len(a) + Len(b) :
               s[k] = IF k <= Len(a) THEN a[k] ELSE b[k - Len(a)]
      BY <1>3, <1>4, ConcatProperties
    <2> HIDE DEF s
    <2>2. Len(a) + Len(b) = num_items - 1
      BY <1>2, <1>3, <1>4
    <2>3. ASSUME NEW k \in 1 .. num_items - 1
          PROVE  s[k] = IF k < p THEN Contents[k] ELSE Contents[k + 1]
      <3>1. CASE k < p
        BY <3>1, <1>2, <1>3, <2>1, <2>2
      <3>2. CASE k >= p
        <4>1. k - (p - 1) \in 1 .. num_items - p /\ p + (k - (p - 1)) = k + 1
          BY <3>2, <1>2
        <4>2. /\ ~(k <= Len(a)) /\ k \in 1 .. Len(a) + Len(b) /\ ~(k < p)
              /\ k - Len(a) = k - (p - 1)
          BY <3>2, <1>2, <1>3, <2>2
        <4>3. s[k] = b[k - (p - 1)]
          BY <2>1, <4>2
        <4>4. b[k - (p - 1)] = Contents[k + 1]
          BY <1>4, <4>1
        <4> QED BY <4>2, <4>3, <4>4
      <3> QED BY <3>1, <3>2, <1>2
    <2> QED BY <2>1, <2>2, <2>3
  <1> HIDE DEF s
  <1>6. read_index' = read_index /\ num_items' = num_items - 1
    BY DEF CloseGap
  <1>7. ASSUME NEW k \in 1 .. num_items' PROVE s[k] = items'[SlotOf(read_index', k)]
    <2> DEFINE i == SlotOf(read_index, k)
    <2>1. /\ k \in 1 .. num_items - 1 /\ k \in 1 .. num_items /\ k + 1 \in 1 .. num_items
      BY <1>2, <1>6, <1>7
    <2>2. i \in Index /\ DepthOf(i) = num_items + 1 - k
      BY <2>1, DepthAndPosition
    <2>3. Succ(i) = SlotOf(read_index, k + 1)
      <3>1. Succ(i) = IF i = MAX_QUEUE_SIZE - 1 THEN 0 ELSE i + 1
        BY <2>2, IndexSteps
      <3> QED BY <2>1, <3>1 DEF SlotOf, LinearInv
    <2> HIDE DEF i
    <2>4. items'[i] = IF DepthOf(i) > num_items + 1 - p THEN items[i]
                      ELSE IF DepthOf(i) = 1 THEN NULL ELSE items[Succ(i)]
      BY <2>2 DEF CloseGap
    <2>5. items'[i] = IF k < p THEN items[i] ELSE items[Succ(i)]
      BY <1>2, <2>1, <2>2, <2>4
    <2>6. items[i] = Contents[k] /\ items[Succ(i)] = Contents[k + 1]
      BY <1>1, <2>1, <2>3 DEF ContentsAreSlots, i
    <2> QED BY <1>5, <1>6, <2>1, <2>5, <2>6 DEF i
  <1>8. Contents' = s
    BY <1>5, <1>6, <1>7, NextContents
  <1> QED BY <1>2, <1>8 DEF s, a, b

(* unqueue_matching takes the newest of the matching items. *)
LEMMA UnqueueMatchingIsUnqueueMatching ==
  ASSUME TypeOK, LinearInv, NEW max_depth \in 0 .. MAX_QUEUE_SIZE, NEW wanted,
         unqueue_matching(max_depth, wanted)
  PROVE  Deque!UnqueueMatching(max_depth, wanted)
  <1>1. ContentsAreSlots
    BY ContentsOfRing
  <1>2. TypeOK' /\ LinearInv'
    BY UnqueueMatchingInv
  <1>3. num_items \in Nat /\ max_depth \in Nat /\ Len(Contents) = num_items
    BY <1>1 DEF ContentsAreSlots, LinearInv
  <1> DEFINE C == Candidates(max_depth, wanted)
             K == Deque!Matching(max_depth, wanted)
  <1>4. ASSUME NEW k \in K
        PROVE  k \in 1 .. num_items /\ SlotOf(read_index, k) \in C
               /\ DepthOf(SlotOf(read_index, k)) = num_items + 1 - k
    <2>1. k \in 1 .. num_items /\ k + max_depth > num_items /\ Contents[k] \in wanted
      BY <1>3, <1>4 DEF Deque!Matching
    <2>2. /\ SlotOf(read_index, k) \in Index
          /\ DepthOf(SlotOf(read_index, k)) = num_items + 1 - k
      BY <2>1, DepthAndPosition
    <2>3. items[SlotOf(read_index, k)] \in wanted
      BY <1>1, <2>1 DEF ContentsAreSlots
    <2>4. num_items + 1 - k <= num_items /\ num_items + 1 - k <= max_depth
      BY <1>3, <2>1
    <2> QED BY <2>1, <2>2, <2>3, <2>4 DEF Candidates
  <1>5. ASSUME NEW i \in C
        PROVE  num_items + 1 - DepthOf(i) \in K /\ DepthOf(i) \in Nat
               /\ Contents[num_items + 1 - DepthOf(i)] = items[i]
    <2>1. i \in Index /\ DepthOf(i) <= num_items /\ DepthOf(i) <= max_depth /\ items[i] \in wanted
      BY <1>5 DEF Candidates
    <2>2. DepthOf(i) \in 1 .. MAX_QUEUE_SIZE
          /\ SlotOf(read_index, num_items + 1 - DepthOf(i)) = i
      BY <2>1, DepthAndPosition
    <2>3. num_items + 1 - DepthOf(i) \in 1 .. num_items /\ DepthOf(i) \in Nat
          /\ num_items + 1 - DepthOf(i) + max_depth > num_items
      BY <1>3, <2>1, <2>2, QueueAssumption
    <2>4. Contents[num_items + 1 - DepthOf(i)] = items[i]
      BY <1>1, <2>2, <2>3 DEF ContentsAreSlots
    <2> QED BY <1>3, <2>1, <2>3, <2>4 DEF Deque!Matching
  <1>6. CASE C = {}
    <2>1. call' = "unqueue_matching" /\ reply' = NULL /\ UNCHANGED <<items, read_index, num_items>>
      BY <1>6 DEF unqueue_matching
    <2>2. K = {}
      BY <1>4, <1>6
    <2> QED BY <2>1, <2>2, SameContents DEF Deque!UnqueueMatching
  <1>7. CASE C # {}
    <2>1. PICK i \in C : /\ \A j \in C : DepthOf(i) <= DepthOf(j)
                         /\ call' = "unqueue_matching"
                         /\ reply' = items[i]
                         /\ CloseGap(DepthOf(i))
      BY <1>7 DEF unqueue_matching
    <2> DEFINE k == num_items + 1 - DepthOf(i)
    <2>2. k \in K /\ Contents[k] = items[i] /\ DepthOf(i) \in Nat
      BY <1>5
    <2>3. k \in 1 .. num_items /\ num_items + 1 - k = DepthOf(i)
      BY <1>3, <1>4, <2>2
    <2> HIDE DEF K, C
    <2>4. ASSUME NEW j \in K PROVE j <= k
      <3>1. j \in 1 .. num_items /\ DepthOf(i) <= num_items + 1 - j
        BY <1>4, <2>1, <2>4
      <3> QED BY <1>3, <2>2, <3>1
    <2> HIDE DEF k
    <2>5. CloseGap(num_items + 1 - k)
      BY <2>1, <2>3
    <2>6. Contents' = SubSeq(Contents, 1, k - 1) \o SubSeq(Contents, k + 1, Len(Contents))
      BY <1>2, <2>3, <2>5, CloseGapRemoves
    <2> QED BY <2>1, <2>2, <2>4, <2>6 DEF K, Deque!UnqueueMatching
  <1> QED BY <1>6, <1>7

(* The ring with its indices and its counter is the bounded double-ended   *)
(* sequence that queue.h documents: whatever the interleaving of calls,    *)
(* each returns what the sequence would, the others keep their order, and  *)
(* only a full queue refuses an item.                                      *)
THEOREM RingIsDeque == Spec => ImplementsDeque
  <1>1. init_queue => Deque!Init
    <2> SUFFICES ASSUME init_queue PROVE Deque!Init
      OBVIOUS
    <2>1. TypeOK /\ LinearInv
      BY InitInv, InvLinear
    <2>2. ContentsAreSlots
      BY <2>1, ContentsOfRing
    <2>3. Contents = <<>>
      BY <2>2, EmptySeq DEF ContentsAreSlots, init_queue
    <2> QED BY <2>3 DEF init_queue, Deque!Init
  <1>2. Inv /\ [Next]_vars => [Deque!Next]_(Deque!vars)
    <2> SUFFICES ASSUME Inv, [Next]_vars PROVE [Deque!Next]_(Deque!vars)
      OBVIOUS
    <2>1. TypeOK /\ LinearInv
      BY InvLinear
    <2>2. ASSUME NEW item \in Items, put_queue(item) PROVE Deque!Next
      BY <2>1, <2>2, PutIsPut DEF Deque!Next
    <2>3. ASSUME NEW item \in Items, requeue(item) PROVE Deque!Next
      BY <2>1, <2>3, RequeueIsRequeue DEF Deque!Next
    <2>4. CASE get_queue
      BY <2>1, <2>4, GetIsGet DEF Deque!Next
    <2>5. CASE unqueue
      BY <2>1, <2>5, UnqueueIsUnqueue DEF Deque!Next
    <2>6. ASSUME NEW max_depth \in 0 .. MAX_QUEUE_SIZE, NEW wanted \in SUBSET Items,
                 unqueue_matching(max_depth, wanted)
          PROVE  Deque!Next
      BY <2>1, <2>6, UnqueueMatchingIsUnqueueMatching DEF Deque!Next
    <2>7. CASE UNCHANGED vars
      BY <2>7, SameContents DEF vars, Deque!vars
    <2> QED BY <2>2, <2>3, <2>4, <2>5, <2>6, <2>7 DEF Next
  <1> QED BY <1>1, <1>2, InvHolds, PTL DEF Spec, ImplementsDeque, Deque!Spec

=============================================================================
