---------------------------- MODULE MCTransport -----------------------------
(* P7Transport with messages of one to three segments. *)
EXTENDS P7Transport

CONSTANTS t1, t2

(* The PNF sends from two threads at once over a network that does no harm. *)
TwoThreads ==
    [sender |-> "PNF", threads |-> {t1, t2}, lengths |-> {4, 6}, messages |-> 4,
     reorder |-> FALSE, faults |-> 0, kinds |-> {}]

(* More messages than sequence numbers, and one datagram lost or doubled. *)
Faulty(lengths, kinds) ==
    [sender |-> "VNF", threads |-> {t1}, lengths |-> lengths, messages |-> 7,
     reorder |-> TRUE, faults |-> 1, kinds |-> kinds]

AllScenarios == {TwoThreads, Faulty({4, 6}, {"lose", "duplicate"}), Faulty({4, 8}, {"lose"})}

(* The theorems of P7TransportProofs apply to this instance. *)
ASSUME Covered ==
    \A s \in AllScenarios : (Roomy(s) \/ Steady(s)) /\ (s.reorder \/ Orderly(s))
=============================================================================
