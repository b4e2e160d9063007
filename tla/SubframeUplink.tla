--------------------------- MODULE SubframeUplink ---------------------------
(***************************************************************************)
(* The uplink half of the LTE proxy: one receive thread per UE queues what *)
(* the UE sends, and the subframe task empties the queues once per         *)
(* subframe, aggregates messages of one type and sends them to the eNB.    *)
(*                                                                         *)
(* The threads share only the queues (msgs_from_ue), which are bounded     *)
(* double-ended queues here: module Queue shows that the ring buffer       *)
(* implements them.  Between two accesses to a queue the subframe task     *)
(* works on its own data, so get_queue or requeue together with the local  *)
(* work that follows it is one step.                                       *)
(*                                                                         *)
(* A message buffer is the pair <<ue, n>>: the n-th message of that UE.    *)
(* Subframes are counted without wrapping; what the code stores in sfn_sf  *)
(* is the count modulo PERIOD.                                             *)
(***************************************************************************)
EXTENDS Integers, Sequences, FiniteSets, FiniteSetsExt

CONSTANTS
  num_ues,
  RACH, CRC, RX, CQI, HARQ, SR, \* message ids
  Ids,               \* the ids get_sfnsf knows
  RachShift,         \* a RACH goes out so many subframes later (5 in LTE, 0 in NR)
  NONE,              \* no message, no master
  MAX_QUEUE_SIZE,
  MAX_SUBFRAME_MSGS,
  MAX_PDU,           \* entries of the list of an aggregate (NFAPI_CRC_IND_MAX_PDU etc.)
  STALE,             \* get_sf_delta above this discards a message (200 in the code)
  PERIOD,            \* subframes before sfn_sf wraps (10240 in the code)
  Loads,             \* what UEs may do in a behaviour, records of
                     \*   kinds  what they send: an id, can the body be unpacked, how many PDUs,
                     \*          is the first PDU of a type the code knows (UCI)
                     \*   lags   how far behind the tick they label (negative: ahead of it)
                     \*   msgs   bound: messages of each UE, up to MaxMsgs
                     \*   last   bound: last subframe in which they send
  Unreliable,        \* UEs whose receive thread may end
  MaxMsgs,           \* bound: messages of one UE
  MaxTick            \* bound: last subframe of a behaviour

ASSUME UplinkAssumption ==
  /\ num_ues \in Nat \ {0}
  /\ MAX_QUEUE_SIZE \in Nat \ {0}
  /\ MAX_SUBFRAME_MSGS \in Nat \ {0}
  /\ PERIOD \in Nat \ {0}
  /\ STALE \in Nat
  /\ RachShift \in Nat /\ MaxMsgs \in Nat /\ MaxTick \in Nat
  /\ MAX_PDU \in Nat \ {0}
  /\ \A l \in Loads :
       /\ l.lags \subseteq Int /\ l.last \in Nat
       /\ \A u \in 1 .. num_ues : l.msgs[u] \in 0 .. MaxMsgs
       /\ \A kind \in l.kinds : kind.ok \in BOOLEAN /\ kind.pdus \in 0 .. MAX_PDU /\ kind.typed \in BOOLEAN

UEs == 1 .. num_ues
Buffers == UEs \X (1 .. MaxMsgs)

ASSUME NoneAssumption == NONE \notin Int /\ NONE \notin Buffers

(* Why a buffer was freed; a live buffer has its magic number. *)
Freed == {"forwarded", "queue_full", "invalid", "stale", "too_many_from_ue",
          "requeue_failed", "too_many_of_one_id", "undecodable", "too_many_PDUs", "no_P7"}
Fates == Freed \cup {"unsent", "live"}

VARIABLES
  load,             \* the load of this behaviour, one of Loads
  sent,             \* per UE, the messages it has sent: a kind and a subframe label
  fate,             \* what became of each buffer
  receiving,        \* UEs whose receive thread is still running
  p7_config_g,      \* TRUE once start_request has published the P7 configuration
  msgs_from_ue,     \* the queues, as sequences of buffers
  tick,             \* subframes started so far
  pc,               \* where the subframe task is
  i,                \* UE whose queue is being emptied
  msg,              \* buffer taken from a queue and about to be put back
  master_sfn_sf,    \* label of the first message of this subframe
  subframe_msgs,    \* per UE, the buffers collected in this subframe
  are_queues_empty,
  indication,       \* what the last id's aggregation sent to the eNB: buffer and sfn_sf
  number_of_pdus,   \* the number of PDUs the last aggregate announced
  backlog           \* per UE, messages it had sent when this subframe began (history)

threadVars == <<load, sent, receiving>>
taskVars == <<tick, pc, i, msg, master_sfn_sf, subframe_msgs, are_queues_empty, indication,
              number_of_pdus, backlog>>
vars == <<threadVars, fate, p7_config_g, msgs_from_ue, taskVars>>

M(b) == sent[b[1]][b[2]]

(* Every buffer of the set B is freed for the given reason. *)
Free(B, why) == fate' = [b \in Buffers |-> IF b \in B THEN why ELSE fate[b]]

sfn_sf(t) == t % PERIOD

get_sf_delta_swapped(a, b) == b - a
get_sf_delta(a, b) == a - b

sfn_sf_add(label, add_val) == (label + add_val) % PERIOD

get_sfnsf_ok(b) == M(b).id \in Ids

-----------------------------------------------------------------------------
Init ==
  /\ load \in Loads
  /\ sent = [u \in UEs |-> <<>>]
  /\ fate = [b \in Buffers |-> "unsent"]
  /\ receiving = UEs
  /\ p7_config_g = FALSE
  /\ msgs_from_ue = [u \in UEs |-> <<>>]
  /\ tick = 0
  /\ pc = "tick"
  /\ i = 1
  /\ msg = NONE
  /\ master_sfn_sf = NONE
  /\ subframe_msgs = [u \in UEs |-> <<>>]
  /\ are_queues_empty = TRUE
  /\ indication = <<>>
  /\ number_of_pdus = 0
  /\ backlog = [u \in UEs |-> 0]

(* A failed assertion or abort() in the task ends the process. *)
Running == pc # "aborted"

(* start_request publishes the P7 configuration to the task. *)
start_request ==
  /\ Running
  /\ ~p7_config_g
  /\ p7_config_g' = TRUE
  /\ UNCHANGED <<threadVars, fate, msgs_from_ue, taskVars>>

(* A UE's datagram is copied to a fresh buffer and queued, or freed when   *)
(* the queue is full.  Dummy datagrams of length 4 change nothing.         *)
oai_subframe_handle_msg_from_ue(u, kind, label) ==
  LET b == <<u, Len(sent[u]) + 1>>
      full == Len(msgs_from_ue[u]) >= MAX_QUEUE_SIZE
  IN /\ sent' = [sent EXCEPT ![u] = Append(@, [id |-> kind.id, ok |-> kind.ok, pdus |-> kind.pdus,
                                                  typed |-> kind.typed, tick |-> label])]
     /\ msgs_from_ue' = IF full THEN msgs_from_ue
                        ELSE [msgs_from_ue EXCEPT ![u] = Append(@, b)]
     /\ Free({b}, IF full THEN "queue_full" ELSE "live")

receive_message_from_ue(u) ==
  /\ Running
  /\ u \in receiving
  /\ Len(sent[u]) < load.msgs[u]
  /\ tick <= load.last
  /\ \E kind \in load.kinds, lag \in load.lags :
       /\ lag <= tick
       /\ oai_subframe_handle_msg_from_ue(u, kind, tick - lag)
  /\ UNCHANGED <<load, receiving, p7_config_g, taskVars>>

(* A failed recvfrom or an undecodable header ends the UE's thread for good. *)
ReceiveThreadEnds(u) ==
  /\ Running
  /\ u \in receiving \cap Unreliable
  /\ tick <= load.last
  /\ receiving' = receiving \ {u}
  /\ UNCHANGED <<load, sent, fate, p7_config_g, msgs_from_ue, taskVars>>

-----------------------------------------------------------------------------
(* Top of the subframe task's loop up to the call of dequeue_ue_msgs: the  *)
(* next subframe is announced to the UEs and the collection starts empty.  *)
StartSubframe ==
  /\ pc = "tick"
  /\ tick < MaxTick
  /\ tick' = tick + 1
  /\ pc' = "dequeue"
  /\ i' = 1
  /\ master_sfn_sf' = NONE
  /\ subframe_msgs' = [u \in UEs |-> <<>>]
  /\ are_queues_empty' = TRUE
  /\ backlog' = [u \in UEs |-> Len(sent[u])]
  /\ UNCHANGED <<threadVars, fate, p7_config_g, msgs_from_ue, msg, indication, number_of_pdus>>

(* The inner loop of dequeue_ue_msgs is left: on to the next UE's queue. *)
NextUe ==
  IF i = num_ues THEN pc' = "aggregate" /\ UNCHANGED i
                 ELSE pc' = "dequeue" /\ i' = i + 1

EmptyQueue ==
  /\ pc = "dequeue"
  /\ msgs_from_ue[i] = <<>>
  /\ NextUe
  /\ UNCHANGED <<threadVars, fate, p7_config_g, msgs_from_ue, tick, msg, master_sfn_sf,
                 subframe_msgs, are_queues_empty, indication, number_of_pdus, backlog>>

(* A defect: every label is accepted, whatever the first message carried. *)
AnyLabel(b) == sfn_sf(M(b).tick)

(* The label of this subframe's work: that of the first valid message. *)
Master(b) == IF master_sfn_sf = NONE THEN sfn_sf(M(b).tick) ELSE master_sfn_sf

(* Defects of Collect: no bound check, and a bound check that does not free. *)
CollectUnbounded(b) ==
  /\ subframe_msgs' = [subframe_msgs EXCEPT ![i] = Append(@, b)]
  /\ UNCHANGED fate

CollectLeaks(b) ==
  IF Len(subframe_msgs[i]) = MAX_SUBFRAME_MSGS
  THEN UNCHANGED <<fate, subframe_msgs>>
  ELSE /\ subframe_msgs' = [subframe_msgs EXCEPT ![i] = Append(@, b)]
       /\ UNCHANGED fate

(* A message with the right label joins the collection unless it is stale *)
(* or its UE already has MAX_SUBFRAME_MSGS there.                          *)
Collect(b) ==
  IF Len(subframe_msgs[i]) = MAX_SUBFRAME_MSGS
  THEN Free({b}, "too_many_from_ue") /\ UNCHANGED subframe_msgs
  ELSE /\ subframe_msgs' = [subframe_msgs EXCEPT ![i] = Append(@, b)]
       /\ UNCHANGED fate

GetMessage ==
  /\ pc = "dequeue"
  /\ msgs_from_ue[i] # <<>>
  /\ LET b == Head(msgs_from_ue[i]) IN
       /\ msgs_from_ue' = [msgs_from_ue EXCEPT ![i] = Tail(@)]
       /\ master_sfn_sf' = IF get_sfnsf_ok(b) THEN Master(b) ELSE master_sfn_sf
       /\ \/ /\ ~get_sfnsf_ok(b)
             /\ Free({b}, "invalid")
             /\ UNCHANGED <<pc, msg, subframe_msgs>>
          \/ /\ get_sfnsf_ok(b)
             /\ Master(b) # sfn_sf(M(b).tick)
             /\ msg' = b
             /\ pc' = "requeue"
             /\ UNCHANGED <<fate, subframe_msgs>>
          \/ /\ get_sfnsf_ok(b)
             /\ Master(b) = sfn_sf(M(b).tick)
             /\ UNCHANGED <<pc, msg>>
             /\ IF get_sf_delta(sfn_sf(tick), sfn_sf(M(b).tick)) > STALE
                THEN Free({b}, "stale") /\ UNCHANGED subframe_msgs
                ELSE Collect(b)
  /\ UNCHANGED <<threadVars, p7_config_g, tick, i, are_queues_empty, indication,
                 number_of_pdus, backlog>>

(* requeue: back to the head of the queue, where the next get_queue takes  *)
(* it.  The receive thread may have filled the queue since get_queue.      *)
requeue_at_tail(b) ==
  IF Len(msgs_from_ue[i]) >= MAX_QUEUE_SIZE
  THEN Free({b}, "requeue_failed") /\ UNCHANGED msgs_from_ue
  ELSE msgs_from_ue' = [msgs_from_ue EXCEPT ![i] = Append(@, b)] /\ UNCHANGED fate

requeue(b) ==
  IF Len(msgs_from_ue[i]) >= MAX_QUEUE_SIZE
  THEN Free({b}, "requeue_failed") /\ UNCHANGED msgs_from_ue
  ELSE msgs_from_ue' = [msgs_from_ue EXCEPT ![i] = <<b>> \o @] /\ UNCHANGED fate

(* The flag tells the task not to sleep; the break leaves this UE's queue. *)
FlagKept == UNCHANGED are_queues_empty
QueueNotEmpty == are_queues_empty' = FALSE

NoBreak == pc' = "dequeue" /\ UNCHANGED i
Break == NextUe

(* The message has another label than the first one of this subframe. *)
RequeueMessage ==
  /\ pc = "requeue"
  /\ requeue(msg)
  /\ msg' = NONE
  /\ QueueNotEmpty
  /\ Break
  /\ UNCHANGED <<threadVars, p7_config_g, tick, master_sfn_sf, subframe_msgs, indication,
                 number_of_pdus, backlog>>

-----------------------------------------------------------------------------
SetOf(s) == {s[k] : k \in 1 .. Len(s)}
Collected == (UNION {SetOf(subframe_msgs[u]) : u \in UEs}) \ {NONE}

(* The entries of subframe_msgs in the order of the loops over the UEs and  *)
(* their msgs arrays; NONE is a null pointer.                               *)
Entries == 0 .. num_ues * MAX_SUBFRAME_MSGS - 1
Entry(n) ==
  LET u == (n \div MAX_SUBFRAME_MSGS) + 1
      k == (n % MAX_SUBFRAME_MSGS) + 1
  IN IF k <= Len(subframe_msgs[u]) THEN subframe_msgs[u][k] ELSE NONE

(* The id of the first buffer that has not been handled. *)
FoundId == M(Entry(Min({n \in Entries : Entry(n) # NONE}))).id

(* The numbers of a finite set in increasing order, and the members of a    *)
(* sequence that lie in S in their order.                                   *)
InOrder(S) == [k \in 1 .. Cardinality(S) |-> CHOOSE n \in S : Cardinality({m \in S : m <= n}) = k]
Members(s, S) ==
  LET places == InOrder({k \in 1 .. Len(s) : s[k] \in S})
  IN [k \in 1 .. Len(places) |-> s[places[k]]]

(* The buffers with an id in the order of the loops. *)
WithId(id) ==
  LET places == InOrder({n \in Entries : Entry(n) # NONE /\ M(Entry(n)).id = id})
  IN [k \in 1 .. Len(places) |-> Entry(places[k])]

(* Without a P7 configuration the P7 library refuses every indication. *)
Sent == IF p7_config_g THEN "forwarded" ELSE "no_P7"

(* RACH messages are sent one by one and an undecodable one is skipped. *)
oai_subframe_aggregate_rach_ind(batch) ==
  [fates |-> [k \in DOMAIN batch |-> IF M(batch[k]).ok THEN Sent ELSE "undecodable"],
   pdus |-> 0,
   aborts |-> FALSE]

(* The PDUs of the first k messages of a batch. *)
PdusUpTo(batch, k) ==
  LET sum[j \in 0 .. Len(batch)] == IF j = 0 THEN 0 ELSE sum[j - 1] + M(batch[j]).pdus
  IN sum[k]

(* A defect: a message that does not fit as a whole is not looked at. *)
ReachedIfFits(batch) == {k \in DOMAIN batch : PdusUpTo(batch, k) <= MAX_PDU}

(* The messages an aggregator looks at: it stops once its list is full. *)
Reached(batch) == {k \in DOMAIN batch : PdusUpTo(batch, k - 1) < MAX_PDU}

(* The places in a batch of the messages without PDUs. *)
Empty(batch) == {k \in DOMAIN batch : M(batch[k]).pdus = 0}

(* The loop the other aggregators share.  The first undecodable message    *)
(* ends it and nothing is sent; the announced number of PDUs is the sum    *)
(* over the messages reached, also where the list could not hold them all. *)
(* The aggregator aborts on a decodable message at one of the places in    *)
(* "fatal": RX and CQI on one without PDUs.  "packed" says that the codec  *)
(* asserts the announced number when it packs the aggregate.               *)
Aggregate(batch, fatal, packed) ==
  LET bad == {k \in Reached(batch) : ~M(batch[k]).ok}
      stops == {k \in Reached(batch) \cap fatal : M(batch[k]).ok}
      announced == PdusUpTo(batch, Max(Reached(batch)))
  IN IF \E k \in bad : \A j \in stops : k < j
     THEN [fates |-> [k \in DOMAIN batch |-> "undecodable"], pdus |-> 0, aborts |-> FALSE]
     ELSE [fates |-> [k \in DOMAIN batch |-> IF k \in Reached(batch) THEN Sent ELSE "too_many_PDUs"],
           pdus |-> IF stops = {} THEN announced ELSE 0,
           aborts |-> stops # {} \/ (packed /\ announced > MAX_PDU)]

oai_subframe_aggregate_crc_ind(batch) == Aggregate(batch, {}, p7_config_g)
oai_subframe_aggregate_rx_ind(batch) == Aggregate(batch, Empty(batch), TRUE)
oai_subframe_aggregate_cqi_ind(batch) == Aggregate(batch, Empty(batch), p7_config_g)
oai_subframe_aggregate_harq_ind(batch) == Aggregate(batch, {}, FALSE)
oai_subframe_aggregate_sr_ind(batch) == Aggregate(batch, {}, FALSE)

oai_subframe_aggregate_message_id(id, batch) ==
  CASE id = RACH -> oai_subframe_aggregate_rach_ind(batch)
    [] id = CRC -> oai_subframe_aggregate_crc_ind(batch)
    [] id = RX -> oai_subframe_aggregate_rx_ind(batch)
    [] id = CQI -> oai_subframe_aggregate_cqi_ind(batch)
    [] id = HARQ -> oai_subframe_aggregate_harq_ind(batch)
    [] id = SR -> oai_subframe_aggregate_sr_ind(batch)

(* Each buffer sent with the sfn_sf it is sent under.  A RACH goes out as  *)
(* if the UE had sent it RachShift subframes later; an aggregate carries   *)
(* the sfn_sf of its last message.                                         *)
Indication(id, batch) ==
  [k \in 1 .. Len(batch) |->
     [msg |-> batch[k],
      sfn_sf |-> IF id = RACH THEN sfn_sf_add(sfn_sf(M(batch[k]).tick), RachShift)
                 ELSE sfn_sf(M(batch[Len(batch)]).tick)]]

(* One turn of the loop of oai_subframe_aggregate_messages.  All buffers   *)
(* with the found id leave the collection and are freed; the first         *)
(* MAX_SUBFRAME_MSGS of them, the batch, have been handed to the           *)
(* aggregator.                                                             *)
TakeOut(all, batch, result) ==
  /\ \/ /\ ~result.aborts
        /\ fate' = [b \in Buffers |->
                      IF b \in SetOf(batch)
                      THEN result.fates[CHOOSE k \in DOMAIN batch : batch[k] = b]
                      ELSE IF b \in SetOf(all) THEN "too_many_of_one_id"
                      ELSE fate[b]]
        /\ indication' = Indication(FoundId, Members(batch, {b \in Buffers : fate'[b] = "forwarded"}))
        /\ subframe_msgs' = [u \in UEs |-> [k \in 1 .. Len(subframe_msgs[u]) |->
                                IF subframe_msgs[u][k] \in SetOf(all) THEN NONE ELSE subframe_msgs[u][k]]]
        /\ UNCHANGED pc
     \/ /\ result.aborts
        /\ pc' = "aborted"
        /\ UNCHANGED <<fate, indication, subframe_msgs>>
  /\ number_of_pdus' = result.pdus

AggregateFound(Aggregator(_, _)) ==
  /\ pc = "aggregate"
  /\ Collected # {}
  /\ \E all \in {WithId(FoundId)} :
     \E batch \in {SubSeq(all, 1, Min({Len(all), MAX_SUBFRAME_MSGS}))} :
     \E result \in {Aggregator(FoundId, batch)} :
       TakeOut(all, batch, result)
  /\ UNCHANGED <<threadVars, p7_config_g, msgs_from_ue, tick, i, msg, master_sfn_sf,
                 are_queues_empty, backlog>>

oai_subframe_aggregate_messages == AggregateFound(oai_subframe_aggregate_message_id)

(* The collection is used up: back to the top of the task's loop, where    *)
(* the arrays go out of scope.                                             *)
EndSubframe ==
  /\ pc = "aggregate"
  /\ Collected = {}
  /\ pc' = "tick"
  /\ subframe_msgs' = [u \in UEs |-> <<>>]
  /\ UNCHANGED <<threadVars, fate, p7_config_g, msgs_from_ue, tick, i, msg, master_sfn_sf,
                 are_queues_empty, indication, number_of_pdus, backlog>>

-----------------------------------------------------------------------------
SubframeTask ==
  \/ StartSubframe
  \/ EmptyQueue
  \/ GetMessage
  \/ RequeueMessage
  \/ oai_subframe_aggregate_messages
  \/ EndSubframe

Next ==
  \/ start_request
  \/ \E u \in UEs : receive_message_from_ue(u)
  \/ \E u \in UEs : ReceiveThreadEnds(u)
  \/ SubframeTask

Spec == Init /\ [][Next]_vars

(* The subframe task is a real-time thread that never blocks outside the   *)
(* queues' short critical sections: it keeps running.  Nothing is assumed  *)
(* of the UEs or of the VNF.                                               *)
FairSpec == Spec /\ WF_vars(SubframeTask)

-----------------------------------------------------------------------------
Messages ==
  [id : UNION {{kind.id : kind \in l.kinds} : l \in Loads}, ok : BOOLEAN, pdus : 0 .. MAX_PDU,
   typed : BOOLEAN, tick : Nat]

(* Types, including the sizes of the arrays the code indexes: the queue's  *)
(* ring and the msgs arrays of subframe_msgs_t.                            *)
TypeOK ==
  /\ load \in Loads
  /\ sent \in [UEs -> Seq(Messages)]
  /\ msgs_from_ue \in [UEs -> Seq(Buffers)]
  /\ subframe_msgs \in [UEs -> Seq(Buffers \cup {NONE})]
  /\ \A u \in UEs : /\ Len(sent[u]) <= MaxMsgs
                    /\ Len(msgs_from_ue[u]) <= MAX_QUEUE_SIZE
                    /\ Len(subframe_msgs[u]) <= MAX_SUBFRAME_MSGS
  /\ fate \in [Buffers -> Fates]
  /\ receiving \subseteq UEs
  /\ p7_config_g \in BOOLEAN
  /\ tick \in 0 .. MaxTick
  /\ pc \in {"tick", "dequeue", "requeue", "aggregate", "aborted"}
  /\ i \in UEs
  /\ msg \in Buffers \cup {NONE}
  /\ master_sfn_sf \in (0 .. PERIOD - 1) \cup {NONE}
  /\ are_queues_empty \in BOOLEAN
  /\ indication \in Seq([msg : Buffers, sfn_sf : 0 .. PERIOD - 1])
  /\ Len(indication) <= MAX_SUBFRAME_MSGS
  /\ number_of_pdus \in Nat
  /\ backlog \in [UEs -> 0 .. MaxMsgs]

(* The places that hold the pointer b. *)
Holders(b) ==
  LET u == b[1] IN
    {<<"queue", k>> : k \in {k \in 1 .. Len(msgs_from_ue[u]) : msgs_from_ue[u][k] = b}}
    \cup {<<"collected", k>> : k \in {k \in 1 .. Len(subframe_msgs[u]) : subframe_msgs[u][k] = b}}
    \cup (IF msg = b THEN {<<"in_hand", 1>>} ELSE {})

(* Every buffer a receive thread has queued and nobody has freed is held   *)
(* by exactly one of its UE's queue, the task's hand and the collection,   *)
(* and no freed buffer is held anywhere: the magic-number assertions of    *)
(* dequeue_ue_msgs and oai_subframe_aggregate_messages never fail, and no  *)
(* buffer leaks or is freed twice.                                         *)
OneOwner ==
  \A b \in Buffers : Cardinality(Holders(b)) = IF fate[b] = "live" THEN 1 ELSE 0

(* All the work of one subframe concerns one sfn_sf, and every PDU of an   *)
(* aggregate reaches the eNB under the sfn_sf its UE gave it (shifted for  *)
(* a RACH), although the aggregate carries only its last message's.    *)
OneLabelPerSubframe ==
  /\ \A b \in Collected : sfn_sf(M(b).tick) = master_sfn_sf
  /\ \A e \in SetOf(indication) :
       e.sfn_sf = sfn_sf_add(sfn_sf(M(e.msg).tick), IF M(e.msg).id = RACH THEN RachShift ELSE 0)

(* The eNB sees the messages of one id of one UE in the order the UE sent  *)
(* them, across subframes, put-backs and concurrent arrivals: none is      *)
(* forwarded while an earlier one still waits, nor out of order within an  *)
(* indication.                                                             *)
NoOvertaking ==
  /\ \A b, c \in Buffers :
       /\ b[1] = c[1] /\ b[2] < c[2]
       /\ fate[b] = "live" /\ fate[c] = "forwarded"
       => M(b).id # M(c).id
  /\ \A j, k \in 1 .. Len(indication) :
       j < k /\ indication[j].msg[1] = indication[k].msg[1]
       => indication[j].msg[2] < indication[k].msg[2]

(* Only messages that really are more than STALE subframes old are         *)
(* discarded as stale, also where sfn_sf wraps.  The one exception is a    *)
(* label ahead of the task in the next round of sfn_sf, which get_sf_delta *)
(* takes for one of nearly a whole round ago.                              *)
OnlyOldIsStale ==
  [][\A b \in Buffers :
       fate[b] = "live" /\ fate'[b] = "stale" =>
         \/ tick - M(b).tick > STALE
         \/ M(b).tick > tick /\ M(b).tick \div PERIOD # tick \div PERIOD]_vars

(* The task sleeps at the end of a subframe only if it has taken every     *)
(* message that was waiting when the subframe began; otherwise it catches  *)
(* up at once.                                                             *)
NoSleepOnBacklog ==
  pc = "aggregate" /\ are_queues_empty =>
    \A u \in UEs : \A b \in SetOf(msgs_from_ue[u]) : b[2] > backlog[u]

(* A decodable message is left out of an aggregate for want of room only   *)
(* if the messages that went in before it really fill the list, whatever   *)
(* mixture of empty, small and large bodies the UEs sent.                  *)
CutOnlyWhenFull ==
  [][\A b \in Buffers :
       fate[b] = "live" /\ fate'[b] = "too_many_PDUs" =>
         LET taken == {c \in Buffers : /\ fate[c] = "live"
                                       /\ fate'[c] \in {"forwarded", "no_P7"}
                                       /\ M(c).id = M(b).id}
         IN MapThenSumSet(LAMBDA c : M(c).pdus, taken) >= MAX_PDU]_vars

(* Every queued message is eventually taken and its buffer freed, unless   *)
(* an aggregator's abort ends the process.                                 *)
EveryMessageHandled ==
  \A b \in Buffers : fate[b] = "live" ~> (fate[b] \in Freed \/ pc = "aborted")

(* The codec asserts (nfapi_p7.c:2487, 2540, 2813) that an indication it   *)
(* packs announces no more PDUs than its list has room for.                *)
AnnouncedFitsList ==
  indication # <<>> \/ pc = "aborted" => number_of_pdus <= MAX_PDU
=============================================================================
