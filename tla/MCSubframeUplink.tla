-------------------------- MODULE MCSubframeUplink --------------------------
(* SubframeUplink with two UEs and small arrays, and the loads of its runs. *)
EXTENDS SubframeUplink

CONSTANTS UNKNOWN

LteIds == {RACH, CRC, RX, CQI, HARQ, SR}

Kind(id, ok, pdus) == [id |-> id, ok |-> ok, pdus |-> pdus, typed |-> TRUE]

(* Two ids, so that one subframe sends several indications, and labels of   *)
(* two subframes while sfn_sf wraps.                                        *)
OrderLoad ==
  [kinds |-> {Kind(RACH, TRUE, 1), Kind(CRC, TRUE, 1)}, lags |-> {0, 2}, msgs |-> <<2, 2>>, last |-> 3]

(* Labels ahead of the tick. *)
AheadLoad == [kinds |-> {Kind(CRC, TRUE, 1)}, lags |-> {-1, 0}, msgs |-> <<2, 1>>, last |-> 2]

(* One UE fills its queue; an id get_sfnsf refuses and undecodable bodies. *)
LimitLoad ==
  [kinds |-> {Kind(CRC, TRUE, 1), Kind(CRC, FALSE, 1), Kind(UNKNOWN, TRUE, 1)},
   lags |-> {0, 1}, msgs |-> <<3, 1>>, last |-> 1]

(* Every id, with bodies that are empty, small, as large as the list, or bad. *)
BodyLoad ==
  [kinds |-> {Kind(id, TRUE, n) : id \in LteIds, n \in {0, MAX_PDU - 1, MAX_PDU}}
               \cup {Kind(id, FALSE, 1) : id \in {RACH, RX, SR}},
   lags |-> {0}, msgs |-> <<1, 1>>, last |-> 1]

AllLoads == {OrderLoad, AheadLoad, LimitLoad, BodyLoad}

(* Two messages that do not fit into one list. *)
LargeLoads == {[kinds |-> {Kind(CRC, TRUE, MAX_PDU - 1)}, lags |-> {0}, msgs |-> <<1, 1>>, last |-> 1]}
=============================================================================
