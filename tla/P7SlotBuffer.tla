---------------------------- MODULE P7SlotBuffer ----------------------------
(* The slot buffer of the PNF P7 library (NR), the counterpart of P7Buffer.  *)
(* Only UL_TTI and UL_DCI requests are stored; DL_TTI and TX_DATA requests   *)
(* go straight to the UEs.  The window test accepts everything.              *)
(*                                                                           *)
(* nr_start_request leaves all the callbacks of the PHY NULL.  pnf_p7_slot_- *)
(* ind compares sfn and slot of a request with the (shifted) slot only to    *)
(* choose between calling one with the request or with a dummy, so the       *)
(* comparison and slot_shift decide nothing: a request goes to the UEs when  *)
(* it is stored, and is freed with the entry of its slot.                    *)
EXTENDS Integers

CONSTANTS
    SlotsPerFrame,  \* 20, also the number of entries that are used
    Frames,         \* 1024
    Ahead,          \* slot_ahead (6): pnf_p7->sfn/slot is so far ahead of the slot indication
    Window,         \* slot_buffer_size
    Period,         \* timing_info_period
    Heap,           \* memory blocks for requests, numbered from 1
    TtiLeads, DciLeads,   \* how far ahead of the slot indication the VNF sends
    Deltas          \* values of delta_sfn_slot in DL_NODE_SYNC

M == Frames * SlotsPerFrame   \* NFAPI_MAX_SFNSLOTDEC

ASSUME SlotAssumption ==
    /\ SlotsPerFrame \in Nat \ {0} /\ Frames \in Nat \ {0} /\ Ahead \in 0..(SlotsPerFrame - 1)
    /\ Heap \subseteq Nat \ {0} /\ TtiLeads \subseteq Nat /\ DciLeads \subseteq Nat

VARIABLES
    rx,            \* slot of the last slot indication
    tx,            \* pnf_p7->sfn and slot
    slot_shift,
    slot_buffer,   \* the entries, with a request of each kind
    period_counter,
    heap,          \* allocated blocks
    freed,         \* requests the last step freed in the turn of a slot: kind, their slot, that slot
    sent,          \* what the last step sent to the UEs and the VNF
    dropped        \* stored requests the last step freed or forgot outside of a turn

vars == <<rx, tx, slot_shift, slot_buffer, period_counter, heap, freed, sent, dropped>>

SlotKinds == {"ul_tti_req", "ul_dci_req"}
NoReq == [slot |-> -1, block |-> 0]
EmptyEntry == [kind \in SlotKinds |-> NoReq]

sfnslot_add_slot(d, n) == (d + n) % M

Init ==
    /\ rx \in 0..(M - 1) /\ tx = sfnslot_add_slot(rx, Ahead)
    /\ slot_shift = 0 /\ period_counter = 0
    /\ slot_buffer = [i \in 0..(SlotsPerFrame - 1) |-> EmptyEntry]
    /\ heap = {} /\ freed = {} /\ sent = {} /\ dropped = {}

----------------------------------------------------------------------------
(* The P7 thread.                                                           *)

(* Each of its three branches says yes. *)
is_nr_p7_request_in_window(d) == tx <= d + Window \/ tx + M <= d + Window \/ TRUE

Lost(kind, r) == IF r = NoReq THEN {} ELSE {[kind |-> kind, slot |-> r.slot]}

\* defect: the old request is overwritten without being freed
StoreSlotOver(kind, r) ==
    LET i == r.slot % SlotsPerFrame
    IN  /\ slot_buffer' = [slot_buffer EXCEPT ![i][kind] = r]
        /\ heap' = heap \cup {r.block}
        /\ dropped' = {} /\ sent' = {kind}

(* pnf_handle_ul_tti_request, pnf_handle_ul_dci_request: an old request of  *)
(* the kind is freed, the new one stored and sent to the UEs.               *)
StoreSlot(kind, r) ==
    LET i == r.slot % SlotsPerFrame
        old == slot_buffer[i][kind]
    IN  /\ slot_buffer' = [slot_buffer EXCEPT ![i][kind] = r]
        /\ heap' = (heap \cup {r.block}) \ {old.block}
        /\ dropped' = IF old.slot = r.slot THEN {} ELSE Lost(kind, old)
        /\ sent' = {kind}

HandleSlotRequest(kind, d) ==
    /\ \E b \in Heap \ heap :
         /\ \A c \in Heap \ heap : b <= c
         /\ is_nr_p7_request_in_window(d)
         /\ StoreSlot(kind, [slot |-> d, block |-> b])
    /\ freed' = {}
    /\ UNCHANGED <<rx, tx, slot_shift, period_counter>>

Request ==
    \/ \E lead \in TtiLeads : HandleSlotRequest("ul_tti_req", (rx + lead) % M)
    \/ \E lead \in DciLeads : HandleSlotRequest("ul_dci_req", (rx + lead) % M)

(* pnf_handle_dl_tti_request, pnf_handle_tx_data_request: unpack, send to   *)
(* the UEs, free.                                                           *)
Forward ==
    /\ \E kind \in {"dl_tti_req", "tx_data_req"} : sent' = {kind}
    /\ freed' = {} /\ dropped' = {}
    /\ UNCHANGED <<rx, tx, slot_shift, slot_buffer, period_counter, heap>>

DlNodeSync ==
    /\ \E delta \in Deltas : slot_shift' = IF delta # 0 THEN delta ELSE slot_shift
    /\ sent' = {"ul_node_sync"} /\ freed' = {} /\ dropped' = {}
    /\ UNCHANGED <<rx, tx, slot_buffer, period_counter, heap>>

----------------------------------------------------------------------------
(* The slot task: pnf_p7_slot_ind.                                          *)

Taken(kind, r, d) == IF r = NoReq THEN {} ELSE {[kind |-> kind, slot |-> r.slot, at |-> d]}

\* defect: UL_DCI requests are taken from the entry of the received slot
UseEntriesAtRx(d) ==
    LET i == d % SlotsPerFrame
        tti == slot_buffer[i]["ul_tti_req"]
        dci == slot_buffer[i]["ul_dci_req"]
    IN  /\ freed' = Taken("ul_dci_req", dci, tx') \cup Taken("ul_tti_req", tti, d)
        /\ dropped' = {}
        /\ slot_buffer' = [slot_buffer EXCEPT ![i] = EmptyEntry]
        /\ heap' = heap \ {tti.block, dci.block}

(* The UL_DCI request in the entry of the transmit slot and the UL_TTI      *)
(* request in that of the received slot are freed; then the entry of the    *)
(* received slot is reset, whatever UL_DCI request it holds.                *)
UseEntries(d) ==
    LET t == tx' % SlotsPerFrame
        i == d % SlotsPerFrame
        dci == slot_buffer[t]["ul_dci_req"]
        buffer1 == [slot_buffer EXCEPT ![t]["ul_dci_req"] = NoReq]
        tti == buffer1[i]["ul_tti_req"]
    IN  /\ freed' = Taken("ul_dci_req", dci, tx') \cup Taken("ul_tti_req", tti, d)
        /\ dropped' = Lost("ul_dci_req", buffer1[i]["ul_dci_req"])
        /\ slot_buffer' = [buffer1 EXCEPT ![i] = EmptyEntry]
        /\ heap' = heap \ {tti.block, dci.block}

SlotInd ==
    LET d == sfnslot_add_slot(rx, 1)
    IN  /\ rx' = d
        /\ tx' = sfnslot_add_slot(d, Ahead)
        /\ UseEntries(d)
        /\ slot_shift' = 0
        /\ period_counter' = IF period_counter = Period THEN 0 ELSE period_counter + 1
        /\ sent' = IF period_counter = Period THEN {"timing_info"} ELSE {}

Next == Request \/ Forward \/ DlNodeSync \/ SlotInd

Spec == Init /\ [][Next]_vars

----------------------------------------------------------------------------
(* Properties.                                                              *)

Places == {p \in (DOMAIN slot_buffer) \X SlotKinds : slot_buffer[p[1]][p[2]] # NoReq}
At(p) == slot_buffer[p[1]][p[2]]

(* A request the handlers stored is freed in the turn of its own slot, and  *)
(* not overwritten or forgotten before: pnf_p7_slot_ind goes by the place   *)
(* in the ring alone and looks at an entry at two times, six slots apart.   *)
(* It needs the VNF to send at most one ring ahead and UL_DCI before its    *)
(* transmit slot.                                                           *)
FreedInItsSlot ==
    /\ dropped = {}
    /\ \A f \in freed : f.slot = f.at

(* Every allocated request is at exactly one place of the buffer: nothing   *)
(* leaks and nothing is freed twice, although the reset of an entry does    *)
(* not free what the entry holds.                                           *)
OneOwner ==
    /\ heap = {At(p).block : p \in Places}
    /\ \A p, q \in Places : At(p).block = At(q).block => p = q
============================================================================
