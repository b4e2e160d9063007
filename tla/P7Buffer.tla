------------------------------ MODULE P7Buffer ------------------------------
(* The subframe buffer of the PNF P7 library (LTE).  The P7 thread stores    *)
(* the requests of the VNF in a ring of subframe_buffer_size entries if they *)
(* fall into the timing window; the subframe task calls                      *)
(* nfapi_pnf_p7_subframe_ind every millisecond, which takes the requests of  *)
(* a subframe out of the ring, hands those to the PHY whose kind has a       *)
(* callback, and frees them all.  Both hold pnf_p7->mutex for the whole of   *)
(* their work, so each is one action.  The UEs get a request when it is      *)
(* stored, not in its turn.                                                  *)
(*                                                                           *)
(* A subframe number occurs in two forms: decimal (0 .. Frames * SfPerFrame) *)
(* and as on the wire, frame and subframe in two fields (sfn_sf).            *)
EXTENDS Integers, FiniteSets, Functions

CONSTANTS
    SfPerFrame,   \* 10
    Frames,       \* 1024
    SfField,      \* 16, the values of the subframe field
    Size,         \* subframe_buffer_size, also the timing window
    SfAhead,      \* sf_ahead (4): the turn of DL requests comes so much earlier
    Period,       \* timing_info_period
    Heap,         \* memory blocks for requests, numbered from 1
    TxLeads, UlLeads,   \* how far ahead of the PNF the VNF sends DL and UL requests
    Deltas        \* values of delta_sfn_sf in DL_NODE_SYNC

M == Frames * SfPerFrame   \* NFAPI_MAX_SFNSFDEC

ASSUME NumberingAssumption ==
    /\ SfPerFrame \in Nat \ {0} /\ Frames \in Nat \ {0} /\ SfField \in Nat /\ SfPerFrame <= SfField
ASSUME WindowAssumption == Size \in Nat \ {0} /\ Size < Frames * SfPerFrame
ASSUME BufferAssumption ==
    /\ SfAhead \in Nat /\ Period \in Nat /\ Heap \subseteq Nat \ {0}
    /\ TxLeads \subseteq Int /\ UlLeads \subseteq Int /\ Deltas \subseteq Int

TxKinds == {"dl_config_req", "tx_req", "hi_dci0_req", "ue_release_req"}
UlKinds == {"ul_config_req", "lbt_dl_config_req"}
Kinds == TxKinds \cup UlKinds
ToUes == {"dl_config_req", "tx_req", "hi_dci0_req", "ul_config_req"}   \* also sent to the UEs when stored

(* The kinds start_request gives the PHY a callback for; those of the other  *)
(* kinds are NULL.  dummy_subframe has only a DL_CONFIG.request, which would *)
(* need a callback too, so dummies never reach the PHY and are left out.     *)
Callbacks == {"lbt_dl_config_req"}

Dec(x) == (x \div SfField) * SfPerFrame + (x % SfField)            \* NFAPI_SFNSF2DEC
SfnSf(d) == (d \div SfPerFrame) * SfField + (d % SfPerFrame)       \* NFAPI_SFNSFDEC2SFNSF
Labels == {SfnSf(d) : d \in 0..(M - 1)}

sfnsf_add_sf(x, n) == SfnSf((Dec(x) + n) % M)

VARIABLES
    sfn_sf,           \* current subframe
    sfn_sf_shift,
    subframe_buffer,  \* 0..Size-1 -> its subframe and one request of each kind
    aperiodic_send, period_counter,   \* timing info
    heap,             \* allocated blocks
    freed,            \* requests the last step freed in their turn: kind, their subframe, the subframe of the turn
    toPhy,            \* those of them handed to the PHY before
    sent,             \* what the last step sent to the UEs and the VNF
    dropped,          \* accepted requests the last step freed or forgot outside of a turn
    shifted,          \* history: has a shift been applied?
    unreported        \* subframes since the oldest late request that no timing info followed

vars == <<sfn_sf, sfn_sf_shift, subframe_buffer, aperiodic_send, period_counter, heap,
          freed, toPhy, sent, dropped, shifted, unreported>>

NoReq == [sfn_sf |-> -1, block |-> 0]
EmptyBuffer == [sfn_sf |-> -1, req |-> [k \in Kinds |-> NoReq]]

Init ==
    /\ sfn_sf \in Labels /\ sfn_sf_shift = 0
    /\ subframe_buffer = [i \in 0..(Size - 1) |-> [EmptyBuffer EXCEPT !.sfn_sf = 0]]
    /\ aperiodic_send = FALSE /\ period_counter = 0
    /\ heap = {} /\ freed = {} /\ toPhy = {} /\ sent = {} /\ dropped = {}
    /\ shifted = FALSE /\ unreported = 0

----------------------------------------------------------------------------
(* The P7 thread.                                                           *)

\* defect: a window that reaches past the wrap is not looked at
InWindowNoWrap(x) ==
    LET recv == Dec(x) cur == Dec(sfn_sf)
    IN  recv > cur /\ recv - cur <= Size

\* defect: a window of one subframe too many
InWindowTooWide(x) ==
    LET recv == Dec(x) cur == Dec(sfn_sf)
    IN  IF recv <= cur
        THEN (cur + Size) % M < cur /\ recv <= (cur + Size + 1) % M
        ELSE recv - cur <= Size + 1

is_p7_request_in_window(x) ==
    LET recv == Dec(x) cur == Dec(sfn_sf)
    IN  IF recv <= cur
        THEN (cur + Size) % M < cur /\ recv <= (cur + Size) % M
        ELSE recv - cur <= Size

(* UE_RELEASE.request is answered with OK, in time or not. *)
Answer(kind) == IF kind = "ue_release_req" THEN {"ue_release_response"} ELSE {}

\* defect: the old request is overwritten without being freed
StoreOver(kind, r) ==
    LET i == Dec(r.sfn_sf) % Size
    IN  /\ subframe_buffer' = [subframe_buffer EXCEPT ![i].sfn_sf = r.sfn_sf, ![i].req[kind] = r]
        /\ heap' = heap \cup {r.block}
        /\ dropped' = {} /\ sent' = {}
        /\ UNCHANGED <<aperiodic_send, unreported>>

\* defect: the entry keeps the number of its last subframe
StoreNoNumber(kind, r) ==
    LET i == Dec(r.sfn_sf) % Size
        old == subframe_buffer[i].req[kind]
    IN  /\ subframe_buffer' = [subframe_buffer EXCEPT ![i].req[kind] = r]
        /\ heap' = (heap \cup {r.block}) \ {old.block}
        /\ dropped' = IF old.sfn_sf \in {-1, r.sfn_sf} THEN {} ELSE {old}
        /\ sent' = {}
        /\ UNCHANGED <<aperiodic_send, unreported>>

(* An old request of the kind is freed; the entry takes the number of the   *)
(* new request and keeps its requests of the other kinds.                   *)
Store(kind, r) ==
    LET i == Dec(r.sfn_sf) % Size
        old == subframe_buffer[i].req[kind]
    IN  /\ subframe_buffer' = [subframe_buffer EXCEPT ![i].sfn_sf = r.sfn_sf, ![i].req[kind] = r]
        /\ heap' = (heap \cup {r.block}) \ {old.block}
        /\ dropped' = IF old.sfn_sf \in {-1, r.sfn_sf} THEN {} ELSE {old}
        /\ sent' = ({kind} \cap ToUes) \cup Answer(kind)
        /\ UNCHANGED <<aperiodic_send, unreported>>

\* defect: a late request is not reported
RefuseSilently(kind) ==
    /\ unreported' = IF unreported = 0 THEN 1 ELSE unreported
    /\ dropped' = {} /\ sent' = Answer(kind)
    /\ UNCHANGED <<subframe_buffer, heap, aperiodic_send>>

Refuse(kind) ==
    /\ aperiodic_send' = TRUE
    /\ unreported' = IF unreported = 0 THEN 1 ELSE unreported
    /\ dropped' = {} /\ sent' = Answer(kind)
    /\ UNCHANGED <<subframe_buffer, heap>>

(* pnf_handle_*_request: allocate, unpack, and store or refuse. *)
HandleRequest(kind, x) ==
    /\ \E b \in Heap \ heap :
         /\ \A c \in Heap \ heap : b <= c
         /\ IF is_p7_request_in_window(x) THEN Store(kind, [sfn_sf |-> x, block |-> b]) ELSE Refuse(kind)
    /\ freed' = {} /\ toPhy' = {}
    /\ UNCHANGED <<sfn_sf, sfn_sf_shift, period_counter, shifted>>

Request ==
    \/ \E k \in TxKinds, lead \in TxLeads : HandleRequest(k, SfnSf((Dec(sfn_sf) + lead) % M))
    \/ \E k \in UlKinds, lead \in UlLeads : HandleRequest(k, SfnSf((Dec(sfn_sf) + lead) % M))

(* pnf_handle_dl_node_sync; the times of the answer are left out. *)
DlNodeSync ==
    /\ \E delta \in Deltas : sfn_sf_shift' = IF delta # 0 THEN delta ELSE sfn_sf_shift
    /\ freed' = {} /\ toPhy' = {} /\ dropped' = {} /\ sent' = {"ul_node_sync"}
    /\ UNCHANGED <<sfn_sf, subframe_buffer, aperiodic_send, period_counter, heap, shifted, unreported>>

----------------------------------------------------------------------------
(* The subframe task: pnf_p7_subframe_ind.                                  *)

(* The number after the shift: a decimal number that goes on as an sfn_sf.  *)
Shifted(x) ==
    LET d == Dec(x) + sfn_sf_shift
    IN  IF sfn_sf_shift = 0 THEN x
        ELSE IF d < 0 THEN d + M ELSE IF d > M THEN d - M ELSE d

Stored(e, kinds) == {k \in kinds : e.req[k] # NoReq}
Blocks(e, kinds) == {e.req[k].block : k \in Stored(e, kinds)}
Taken(e, kinds, x) == {[kind |-> k, label |-> e.req[k].sfn_sf, at |-> x] : k \in Stored(e, kinds)}
Cleared(e, kinds) == [e EXCEPT !.req = [k \in Kinds |-> IF k \in kinds THEN NoReq ELSE @[k]]]

(* An entry without requests is reset; hi_dci0_req is not looked at. *)
ResetIfEmpty(e) == IF Stored(e, Kinds \ {"hi_dci0_req"}) = {} THEN EmptyBuffer ELSE e

(* The turn of the DL requests of the subframe sf_ahead later and of the UL *)
(* requests of the (shifted) subframe: they go to the PHY if their kind has *)
(* a callback, and are freed.                                               *)
PassOn(x) ==
    LET tx == sfnsf_add_sf(x, SfAhead)
        ul == Shifted(x)
        t == Dec(tx) % Size
        u == Dec(ul) % Size
        txKinds == IF subframe_buffer[t].sfn_sf = tx THEN TxKinds ELSE {}
        buffer1 == [subframe_buffer EXCEPT ![t] = Cleared(@, txKinds)]
        ulKinds == IF buffer1[u].sfn_sf = ul THEN UlKinds ELSE {}
        entry == Cleared(buffer1[u], ulKinds)
    IN  /\ freed' = Taken(subframe_buffer[t], txKinds, tx) \cup Taken(buffer1[u], ulKinds, ul)
        /\ toPhy' = {f \in freed' : f.kind \in Callbacks}
        /\ subframe_buffer' = [buffer1 EXCEPT ![u] = ResetIfEmpty(entry)]
        /\ heap' = heap \ (Blocks(subframe_buffer[t], txKinds) \cup Blocks(buffer1[u], ulKinds))
        /\ dropped' = {entry.req[k] : k \in Stored(entry, Kinds) \ Stored(ResetIfEmpty(entry), Kinds)}

(* Timing info goes out when the period is over or a request was late. *)
TimingInfo ==
    IF period_counter = Period
    THEN /\ period_counter' = 0 /\ aperiodic_send' = aperiodic_send /\ unreported' = 0
         /\ sent' = {"timing_info"}
    ELSE /\ period_counter' = period_counter + 1
         /\ aperiodic_send' = FALSE
         /\ unreported' = IF aperiodic_send \/ unreported = 0 THEN 0 ELSE unreported + 1
         /\ sent' = IF aperiodic_send THEN {"timing_info"} ELSE {}

SubframeInd ==
    LET x == sfnsf_add_sf(sfn_sf, 1)
    IN  /\ sfn_sf' = x
        /\ PassOn(x)
        /\ sfn_sf_shift' = 0 /\ shifted' = (shifted \/ sfn_sf_shift # 0)
        /\ TimingInfo

Next == Request \/ DlNodeSync \/ SubframeInd

Spec == Init /\ [][Next]_vars

----------------------------------------------------------------------------
(* Properties.                                                              *)

AllStored == {subframe_buffer[i].req[k] : i \in DOMAIN subframe_buffer, k \in Kinds} \ {NoReq}

Requests == [sfn_sf : Labels, block : Heap]
Entries == [sfn_sf : Labels \cup {-1}, req : [Kinds -> Requests \cup {NoReq}]]

(* Type correctness: numbers on the wire form, one request or none of each  *)
(* kind, counters in their range.                                           *)
TypeOK ==
    /\ sfn_sf \in Labels /\ sfn_sf_shift \in Int /\ heap \subseteq Heap
    /\ subframe_buffer \in [0..(Size - 1) -> Entries]
    /\ period_counter \in 0..Period /\ unreported \in Nat
    /\ aperiodic_send \in BOOLEAN /\ shifted \in BOOLEAN

(* is_p7_request_in_window accepts exactly the next Size subframes, counted *)
(* modulo NFAPI_MAX_SFNSFDEC, although it compares plain numbers by cases.  *)
WindowIsDistance ==
    \A x \in Labels : is_p7_request_in_window(x) <=> (Dec(x) - Dec(sfn_sf)) % M \in 1..Size

(* A request that is freed in the turn of a subframe, and handed to the PHY *)
(* if its kind has a callback, is a request for that subframe: an entry of  *)
(* the ring that changed its number holds no request of the subframe        *)
(* before.  It ends with the first shift, which leaves the requests of a    *)
(* subframe behind in the ring.                                             *)
FreedInItsTurn == ~shifted => \A f \in freed \cup toPhy : f.label = f.at

(* A request in the ring is allocated and at one place only: none is freed  *)
(* twice or used after it was freed, also after shifts.  None is forgotten  *)
(* either, until the first shift: after it the reset of an entry may hit    *)
(* one that still holds a HI_DCI0 request.                                  *)
OneOwner ==
    /\ {r.block : r \in AllStored} \subseteq heap
    /\ ~shifted => heap = {r.block : r \in AllStored}
    /\ \A i, j \in DOMAIN subframe_buffer, k, l \in Kinds :
         /\ subframe_buffer[i].req[k] # NoReq
         /\ subframe_buffer[i].req[k].block = subframe_buffer[j].req[l].block
         => <<i, k>> = <<j, l>>

(* A request that was accepted into the buffer stays there until the turn   *)
(* of its subframe comes: it is not overwritten, freed or forgotten before, *)
(* as long as no shift makes pnf_p7_subframe_ind pass over a subframe.      *)
KeptUntilItsTurn == ~shifted => dropped = {}

(* A late request is answered by timing info in the next subframe.          *)
LateReported == unreported <= 1
============================================================================
