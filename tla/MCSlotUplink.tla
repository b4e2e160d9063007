---------------------------- MODULE MCSlotUplink ----------------------------
(* SlotUplink with two UEs and arrays of one entry. *)
EXTENDS SlotUplink

CONSTANTS UNKNOWN

NrIds == {RACH, CRC, RX, UCI, SRS}

Kind(id, ok, pdus) == [id |-> id, ok |-> ok, pdus |-> pdus, typed |-> TRUE]
UntypedUci == [Kind(UCI, TRUE, 1) EXCEPT !.typed = FALSE]

(* Labels of several slots, behind and ahead of the task. *)
LabelLoad == [kinds |-> {Kind(CRC, TRUE, 1)}, lags |-> {-1, 0, 1}, msgs |-> <<2, 1>>, last |-> 1]

(* Every id, with bodies that are empty, of one or as large as the list, *)
(* bad, or of an unknown type.                                           *)
SlotBodyLoad ==
  [kinds |-> {Kind(RACH, TRUE, 1), Kind(CRC, TRUE, 1), Kind(CRC, TRUE, MAX_PDU), Kind(RX, TRUE, 0),
              Kind(UCI, TRUE, 1), Kind(UCI, FALSE, 1), UntypedUci, Kind(SRS, TRUE, 0), Kind(UNKNOWN, TRUE, 1)},
   lags |-> {0}, msgs |-> <<1, 1>>, last |-> 1]

SlotLoads == {LabelLoad, SlotBodyLoad}
=============================================================================
