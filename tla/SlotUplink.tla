----------------------------- MODULE SlotUplink -----------------------------
(* The uplink half of the NR proxy.  The receive threads, the queues, the   *)
(* dequeueing and the loop over the ids are the LTE code once more, with    *)
(* slots for subframes (msgs_from_nr_ue for msgs_from_ue, sfn_slot for      *)
(* sfn_sf), so they are the actions of SubframeUplink under other names.    *)
(* What differs are the ids, the aggregators and the RACH, which keeps its  *)
(* slot (RachShift is 0).  RX stands for RX_DATA.indication.                *)
EXTENDS SubframeUplink

CONSTANTS
  UCI, SRS   \* the NR ids besides RACH, CRC and RX

oai_slot_handle_msg_from_ue(u, kind, label) == oai_subframe_handle_msg_from_ue(u, kind, label)

receive_message_from_nr_ue(u) == receive_message_from_ue(u)

(* nr_start_request publishes p7_nr_config_g. *)
nr_start_request == start_request

-----------------------------------------------------------------------------
(* Top of the loop of oai_slot_task. *)
StartSlot == StartSubframe

dequeue_ue_slot_msgs == EmptyQueue \/ GetMessage \/ RequeueMessage

oai_slot_aggregate_rach_ind(batch) == oai_subframe_aggregate_rach_ind(batch)

(* The places in a batch of the messages whose first PDU is of no known     *)
(* type: unpack_nr_uci_indication_body warns and lets it pass, and          *)
(* get_nr_uci_rnti has no RNTI for it.                                      *)
Untyped(batch) == {k \in DOMAIN batch : M(batch[k]).pdus > 0 /\ ~M(batch[k]).typed}

(* The others sum up PDUs in a list; the NR codec asserts nothing about the *)
(* announced number.  RX_DATA and UCI abort on a message without PDUs, UCI  *)
(* also on one whose first PDU has no RNTI.                                 *)
oai_slot_aggregate_crc_ind(batch) == Aggregate(batch, {}, FALSE)
oai_slot_aggregate_rx_data_ind(batch) == Aggregate(batch, Empty(batch), FALSE)
oai_slot_aggregate_uci_ind(batch) == Aggregate(batch, Empty(batch) \cup Untyped(batch), FALSE)
oai_slot_aggregate_srs_ind(batch) == Aggregate(batch, {}, FALSE)

\* defect: the SRS indications go to the aggregator that needs PDUs
SrsAsUci(id, batch) ==
  IF id = RACH THEN oai_slot_aggregate_rach_ind(batch) ELSE oai_slot_aggregate_uci_ind(batch)

oai_slot_aggregate_message_id(id, batch) ==
  CASE id = RACH -> oai_slot_aggregate_rach_ind(batch)
    [] id = CRC -> oai_slot_aggregate_crc_ind(batch)
    [] id = RX -> oai_slot_aggregate_rx_data_ind(batch)
    [] id = UCI -> oai_slot_aggregate_uci_ind(batch)
    [] id = SRS -> oai_slot_aggregate_srs_ind(batch)

oai_slot_aggregate_messages == AggregateFound(oai_slot_aggregate_message_id)

oai_slot_task ==
  \/ StartSlot
  \/ dequeue_ue_slot_msgs
  \/ oai_slot_aggregate_messages
  \/ EndSubframe

SlotNext ==
  \/ nr_start_request
  \/ \E u \in UEs : receive_message_from_nr_ue(u)
  \/ \E u \in UEs : ReceiveThreadEnds(u)
  \/ oai_slot_task

SlotSpec == Init /\ [][SlotNext]_vars

(* The slot task is a real-time thread and never blocks outside the queues' *)
(* critical sections; the barrier of NSA mode is module NsaBarrier.         *)
FairSlotSpec == SlotSpec /\ WF_vars(oai_slot_task)

-----------------------------------------------------------------------------
(* The task stops for good only over two sorts of message, both of which    *)
(* the unpacker lets through: one without PDUs whose type must have some    *)
(* (RX_DATA, UCI), and a UCI message whose first PDU is of a type the code  *)
(* has no RNTI for.  Nothing else a UE sends, in any order, with any number *)
(* of PDUs and beside undecodable messages, ends the process.               *)
AbortsOnlyOnEmptyOrUntyped ==
  pc = "aborted" =>
    \E b \in Collected : /\ M(b).ok
                         /\ \/ M(b).id \in {RX, UCI} /\ M(b).pdus = 0
                            \/ M(b).id = UCI /\ M(b).pdus > 0 /\ ~M(b).typed
=============================================================================
