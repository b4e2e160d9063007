-------------------------- MODULE NsaBarrierProofs --------------------------
(***************************************************************************)
(* The safety of the meeting of the two tasks, for every PERIOD.           *)
(***************************************************************************)
EXTENDS NsaBarrier, TLAPS

(* Quotient and remainder. *)
LEMMA DivMod ==
  ASSUME NEW a \in Int, NEW b \in Nat \ {0}
  PROVE a \div b \in Int /\ a % b \in 0 .. b - 1 /\ a = (a \div b) * b + (a % b)
  OBVIOUS

(* Quotient and remainder are unique. *)
LEMMA DivModUnique ==
  ASSUME NEW a \in Int, NEW b \in Nat \ {0}, NEW q \in Int, NEW r \in 0 .. b - 1, a = q * b + r
  PROVE a \div b = q /\ a % b = r
  OBVIOUS

(* Numbers less than m apart, forwards and backwards round the circle. *)
LEMMA Wrap ==
  ASSUME NEW m \in Nat \ {0}, NEW a \in 0 .. m - 1
  PROVE /\ \A n \in 0 .. m : (a + n) % m = IF a + n < m THEN a + n ELSE a + n - m
        /\ \A b \in 0 .. m - 1 : (a - b) % m = IF a >= b THEN a - b ELSE a - b + m
  OBVIOUS

-----------------------------------------------------------------------------

(* The slot task has counted a whole pair exactly while it is in a meeting. *)
SlotTickInv == InMeeting(NR) <=> slot_tick = NR_PROXY_DONE

(* A task that arrives second does not wait, so a meeting has one member. *)
OneInMeeting == \A t \in Tasks : InMeeting(t) => ~InMeeting(Other(t))

Inv == TypeOK /\ SlotTickInv /\ OneInMeeting /\ BitsBelongToWaiter /\ NoLostWakeup

(* The remainder of a division lies below the divisor. *)
LEMMA ModRange ==
  ASSUME NEW n \in Nat, NEW d \in Nat \ {0}
  PROVE n % d \in 0 .. d - 1
  OBVIOUS

(* The two tasks are each other's Other. *)
LEMMA TwoTasks ==
  /\ Tasks = {LTE, NR}
  /\ LTE # NR
  /\ Other(LTE) = NR /\ Other(NR) = LTE
  BY BarrierAssumption DEF Tasks, Other

(* Initially nobody is in a meeting. *)
LEMMA InitInv == Init => Inv
  <1> SUFFICES ASSUME Init PROVE Inv
    OBVIOUS
  <1>1. TypeOK
    BY BarrierAssumption DEF Init, TypeOK
  <1>2. \A t \in Tasks : ~InMeeting(t)
    BY DEF Init, InMeeting
  <1>3. SlotTickInv
    BY <1>2, TwoTasks DEF Init, SlotTickInv, NR_PROXY_DONE
  <1>4. BitsBelongToWaiter
    BY <1>2 DEF Init, BitsBelongToWaiter
  <1>5. NoLostWakeup /\ OneInMeeting
    BY <1>2 DEF NoLostWakeup, OneInMeeting, InMeeting
  <1> QED
    BY <1>1, <1>3, <1>4, <1>5 DEF Inv

(* A task that takes the next number enters no meeting. *)
LEMMA BeginInv ==
  ASSUME Inv, NEW t \in Tasks, Begin(t)
  PROVE Inv'
  <1> USE TwoTasks
  <1>1. sfn_sf' \in 0 .. PERIOD - 1 /\ sfn_slot' \in 0 .. 2 * PERIOD - 1
    <2>1. (sfn_sf + 1) % PERIOD \in 0 .. PERIOD - 1
      BY ModRange, BarrierAssumption DEF Inv, TypeOK
    <2>2. (sfn_slot + 1) % (2 * PERIOD) \in 0 .. 2 * PERIOD - 1
      BY ModRange, BarrierAssumption DEF Inv, TypeOK
    <2> QED
      BY <2>1, <2>2 DEF Begin, sfn_sf_counter, sfn_slot_counter, Inv, TypeOK
  <1>2. TypeOK'
    BY <1>1 DEF Begin, Inv, TypeOK
  <1>3. \A u \in Tasks : /\ InMeeting(u)' <=> InMeeting(u)
                         /\ state'[u] = "waiting" <=> state[u] = "waiting"
    BY DEF Begin, Inv, TypeOK, InMeeting
  <1>4. sf_slot_tick' = sf_slot_tick /\ slot_tick' = slot_tick
    BY DEF Begin
  <1> QED
    BY <1>2, <1>3, <1>4 DEF Inv, SlotTickInv, OneInMeeting, BitsBelongToWaiter, NoLostWakeup

(* The first slot of a pair enters no meeting and leaves the pair open. *)
LEMMA FirstSlotInv ==
  ASSUME Inv, FirstSlot
  PROVE Inv'
  <1> USE TwoTasks
  <1>1. slot_tick \in 0 .. 1
    BY DEF FirstSlot, Inv, TypeOK, SlotTickInv, InMeeting, NR_PROXY_DONE
  <1>2. slot_tick' = 1
    BY <1>1 DEF FirstSlot, NR_PROXY_DONE
  <1>3. TypeOK'
    BY <1>2 DEF FirstSlot, Inv, TypeOK
  <1>4. \A u \in Tasks : /\ InMeeting(u)' <=> InMeeting(u)
                         /\ state'[u] = "waiting" <=> state[u] = "waiting"
    BY DEF FirstSlot, Inv, TypeOK, InMeeting
  <1>5. SlotTickInv'
    BY <1>2, <1>4 DEF SlotTickInv, FirstSlot, InMeeting, NR_PROXY_DONE
  <1> QED
    BY <1>3, <1>4, <1>5 DEF Inv, FirstSlot, OneInMeeting, BitsBelongToWaiter, NoLostWakeup

(* The second task to arrive wakes the first and stays out of the meeting. *)
LEMMA ArriveSecondInv ==
  ASSUME Inv, NEW t \in Tasks, ArriveSecond(t)
  PROVE Inv'
  <1> USE TwoTasks
  <1>1. laps' \in [Tasks -> 0 .. PERIOD - 1]
    <2>1. (laps[t] + 1) % PERIOD \in 0 .. PERIOD - 1
      BY ModRange, BarrierAssumption DEF Inv, TypeOK
    <2> QED
      BY <2>1 DEF ArriveSecond, Arrives, Inv, TypeOK
  <1>2. sf_slot_tick' = {LTE, NR} /\ UNCHANGED <<sfn_sf, sfn_slot>>
    BY DEF ArriveSecond, Arrives, BOTH_LTE_NR_DONE
  <1>3. /\ state \in [Tasks -> {"top", "work", "waiting", "woken"}]
        /\ state[t] = "work"
        /\ state' = [state EXCEPT ![t] = "top", ![Other(t)] = Broadcast(t)]
    BY DEF ArriveSecond, Arrives, Inv, TypeOK
  <1>4. /\ state' \in [Tasks -> {"top", "work", "waiting", "woken"}]
        /\ state'[t] = "top"
        /\ state'[Other(t)] = IF state[Other(t)] = "waiting" THEN "woken" ELSE state[Other(t)]
    BY <1>3 DEF Broadcast
  <1>5. \A u \in Tasks : InMeeting(u)' <=> InMeeting(u)
    BY <1>3, <1>4 DEF InMeeting
  <1>6. InMeeting(Other(t))
    <2>1. Other(t) \in sf_slot_tick
      BY <1>2 DEF ArriveSecond, Arrives
    <2>2. ~InMeeting(t)
      BY <1>3 DEF InMeeting
    <2>3. \E u \in Tasks : InMeeting(u)
      BY <2>1 DEF Inv, BitsBelongToWaiter
    <2> QED
      BY <2>2, <2>3
  <1>7. \A u \in Tasks : state'[u] # "waiting"
    BY <1>4
  <1>8. slot_tick' = IF t = NR THEN 0 ELSE slot_tick
    BY DEF ArriveSecond, NewPair
  <1>9. TypeOK'
    BY <1>1, <1>2, <1>4, <1>8 DEF Inv, TypeOK
  <1>10. SlotTickInv'
    <2>1. CASE t = NR
      BY <2>1, <1>4, <1>8 DEF SlotTickInv, InMeeting, NR_PROXY_DONE
    <2>2. CASE t = LTE
      BY <2>2, <1>5, <1>8 DEF Inv, SlotTickInv, NR_PROXY_DONE
    <2> QED
      BY <2>1, <2>2
  <1>11. BitsBelongToWaiter'
    BY <1>2, <1>5, <1>6 DEF BitsBelongToWaiter
  <1>12. NoLostWakeup'
    BY <1>7 DEF NoLostWakeup
  <1>13. OneInMeeting'
    BY <1>5 DEF Inv, OneInMeeting
  <1> QED
    BY <1>9, <1>10, <1>11, <1>12, <1>13 DEF Inv

(* The first task to arrive finds no bit set and nobody in a meeting. *)
LEMMA ArriveFirstInv ==
  ASSUME Inv, NEW t \in Tasks, ArriveFirst(t)
  PROVE Inv'
  <1> USE TwoTasks
  <1>1. /\ state \in [Tasks -> {"top", "work", "waiting", "woken"}]
        /\ state[t] = "work"
        /\ state' = [state EXCEPT ![t] = "waiting"]
        /\ sf_slot_tick' = sf_slot_tick \cup {t}
        /\ sf_slot_tick' # {LTE, NR}
        /\ sf_slot_tick \subseteq Tasks
    BY DEF ArriveFirst, Arrives, Inv, TypeOK, BOTH_LTE_NR_DONE
  <1>2. Other(t) \notin sf_slot_tick
    BY <1>1
  <1>3. ~InMeeting(t) /\ ~InMeeting(Other(t))
    BY <1>1, <1>2 DEF Inv, BitsBelongToWaiter, InMeeting
  <1>4. sf_slot_tick = {}
    BY <1>3 DEF Inv, BitsBelongToWaiter
  <1>5. /\ state'[t] = "waiting" /\ state'[Other(t)] = state[Other(t)]
        /\ state' \in [Tasks -> {"top", "work", "waiting", "woken"}]
    BY <1>1
  <1>6. InMeeting(t)' /\ ~InMeeting(Other(t))'
    BY <1>3, <1>5 DEF InMeeting
  <1>7. laps' = laps /\ UNCHANGED <<sfn_sf, sfn_slot>>
    BY <1>4 DEF ArriveFirst, Arrives, Inv, TypeOK
  <1>8. slot_tick' = IF t = NR THEN NR_PROXY_DONE ELSE slot_tick
    BY DEF ArriveFirst, Arrives, NR_PROXY_DONE
  <1>9. TypeOK'
    BY <1>1, <1>5, <1>7, <1>8 DEF Inv, TypeOK, NR_PROXY_DONE
  <1>10. SlotTickInv'
    BY <1>3, <1>6, <1>8 DEF Inv, SlotTickInv, NR_PROXY_DONE
  <1>11. BitsBelongToWaiter'
    BY <1>1, <1>6 DEF BitsBelongToWaiter
  <1>12. NoLostWakeup'
    <2>1. sf_slot_tick' = {t}
      BY <1>1, <1>4
    <2>2. state'[Other(t)] # "waiting"
      BY <1>6 DEF InMeeting
    <2> QED
      BY <2>1, <2>2, <1>6 DEF NoLostWakeup
  <1>13. OneInMeeting'
    BY <1>6 DEF OneInMeeting
  <1> QED
    BY <1>9, <1>10, <1>11, <1>12, <1>13 DEF Inv

(* A spurious wake-up keeps the task in its meeting. *)
LEMMA SpuriousWakeupInv ==
  ASSUME Inv, NEW t \in Tasks, SpuriousWakeup(t)
  PROVE Inv'
  <1> USE TwoTasks
  <1>1. /\ state \in [Tasks -> {"top", "work", "waiting", "woken"}]
        /\ state[t] = "waiting"
        /\ state' = [state EXCEPT ![t] = "woken"]
        /\ UNCHANGED <<sfn_sf, sfn_slot, sf_slot_tick, slot_tick, laps>>
    BY DEF SpuriousWakeup, Inv, TypeOK
  <1>2. \A u \in Tasks : InMeeting(u)' <=> InMeeting(u)
    BY <1>1 DEF InMeeting
  <1>3. \A u \in Tasks : state'[u] = "waiting" => state[u] = "waiting"
    BY <1>1
  <1>4. TypeOK'
    BY <1>1 DEF Inv, TypeOK
  <1> QED
    BY <1>1, <1>2, <1>3, <1>4 DEF Inv, SlotTickInv, OneInMeeting, BitsBelongToWaiter, NoLostWakeup

(* A woken task goes back to waiting, or clears the bits and leaves.  It   *)
(* is alone in the meeting, because a task that arrives second never waits.*)
LEMMA ResumeInv ==
  ASSUME Inv, NEW t \in Tasks, Resume(t)
  PROVE Inv'
  <1> USE TwoTasks
  <1>1. /\ state \in [Tasks -> {"top", "work", "waiting", "woken"}]
        /\ state[t] = "woken"
        /\ sf_slot_tick \subseteq Tasks
        /\ UNCHANGED <<sfn_sf, sfn_slot, laps>>
    BY DEF Resume, Inv, TypeOK
  <1>2. t \in sf_slot_tick /\ ~InMeeting(Other(t))
    BY <1>1 DEF Inv, BitsBelongToWaiter, OneInMeeting, InMeeting
  <1>3. CASE ~WaitIsOver /\ state' = [state EXCEPT ![t] = "waiting"]
             /\ UNCHANGED <<sf_slot_tick, slot_tick>>
    <2>1. sf_slot_tick = {t}
      BY <1>1, <1>2, <1>3 DEF WaitIsOver, BOTH_LTE_NR_DONE
    <2>2. \A u \in Tasks : InMeeting(u)' <=> InMeeting(u)
      BY <1>1, <1>3 DEF InMeeting
    <2>3. state'[Other(t)] # "waiting"
      BY <1>1, <1>2, <1>3 DEF InMeeting
    <2>4. NoLostWakeup'
      BY <1>2, <1>3, <2>1, <2>2, <2>3 DEF NoLostWakeup
    <2>5. TypeOK'
      BY <1>1, <1>3 DEF Inv, TypeOK
    <2> QED
      BY <1>3, <2>2, <2>4, <2>5 DEF Inv, SlotTickInv, OneInMeeting, BitsBelongToWaiter
  <1>4. CASE WaitIsOver /\ state' = [state EXCEPT ![t] = "top"] /\ ClearBits /\ NewPair(t)
    <2>1. /\ state' \in [Tasks -> {"top", "work", "waiting", "woken"}]
          /\ state'[t] = "top" /\ state'[Other(t)] = state[Other(t)]
      BY <1>1, <1>4
    <2>2. \A u \in Tasks : ~InMeeting(u)'
      BY <1>2, <2>1 DEF InMeeting
    <2>3. sf_slot_tick' = {} /\ slot_tick' = IF t = NR THEN 0 ELSE slot_tick
      BY <1>4 DEF ClearBits, NewPair
    <2>4. TypeOK'
      BY <1>1, <2>1, <2>3 DEF Inv, TypeOK
    <2>5. SlotTickInv'
      BY <1>2, <2>2, <2>3 DEF Inv, SlotTickInv, NR_PROXY_DONE
    <2>6. BitsBelongToWaiter' /\ NoLostWakeup' /\ OneInMeeting'
      BY <2>2, <2>3 DEF BitsBelongToWaiter, NoLostWakeup, OneInMeeting, InMeeting
    <2> QED
      BY <2>4, <2>5, <2>6 DEF Inv
  <1> QED
    BY <1>3, <1>4 DEF Resume

(* The inductive invariant holds throughout. *)
LEMMA InvHolds == Spec => []Inv
  <1>1. Inv /\ [Next]_vars => Inv'
    <2> SUFFICES ASSUME Inv, [Next]_vars PROVE Inv'
      OBVIOUS
    <2>1. CASE UNCHANGED vars
      BY <2>1 DEF vars, Inv, TypeOK, SlotTickInv, OneInMeeting, BitsBelongToWaiter,
                  NoLostWakeup, InMeeting
    <2>2. ASSUME NEW t \in Tasks, Step(t) PROVE Inv'
      BY <2>2, BeginInv, FirstSlotInv, ArriveSecondInv, ArriveFirstInv, ResumeInv DEF Step
    <2>3. ASSUME NEW t \in Tasks, SpuriousWakeup(t) PROVE Inv'
      BY <2>3, SpuriousWakeupInv
    <2> QED
      BY <2>1, <2>2, <2>3 DEF Next
  <1> QED
    BY InitInv, <1>1, PTL DEF Spec

(* The counters of the two tasks stay in their ranges; slot_tick never     *)
(* passes the value that oai_slot_task compares it with.                   *)
THEOREM TypeCorrect == Spec => []TypeOK
  <1>1. Inv => TypeOK
    BY DEF Inv
  <1> QED
    BY InvHolds, <1>1, PTL

(* Whatever the schedule and however often one task laps the other, no     *)
(* task is left in pthread_cond_wait with the bit it waits for set, and    *)
(* the two tasks never wait for each other.                                *)
THEOREM WakeupNotLost == Spec => []NoLostWakeup
  <1>1. Inv => NoLostWakeup
    BY DEF Inv
  <1> QED
    BY InvHolds, <1>1, PTL

(* The reset "sf_slot_tick = 0" happens once per meeting and only when     *)
(* its task leaves.                                                        *)
THEOREM BitsCleared == Spec => []BitsBelongToWaiter
  <1>1. Inv => BitsBelongToWaiter
    BY DEF Inv
  <1> QED
    BY InvHolds, <1>1, PTL

-----------------------------------------------------------------------------
(* What the two numbers leave unexplained: the difference of the meetings  *)
(* they tell of, less the laps and the meetings not yet left.  Both        *)
(* numbers and the laps wrap, so it is a multiple of the period.           *)
Drift ==
  TwiceMeetingsOfNr - 2 * MeetingsOfLte
    - 2 * (laps[NR] - laps[LTE] + Pending(LTE) - Pending(NR))

DriftInv == \E q \in Int : Drift = q * (2 * PERIOD)

(* The state behind Drift. *)
LEMMA DriftTypes ==
  ASSUME TypeOK
  PROVE /\ sfn_sf \in Int /\ sfn_slot \in Int /\ slot_tick \in Int
        /\ laps[LTE] \in Int /\ laps[NR] \in Int /\ PERIOD \in Int
        /\ B(state[LTE] # "top") \in Int /\ B(state[NR] = "work") \in Int
        /\ Pending(LTE) \in Int /\ Pending(NR) \in Int
  BY TwoTasks, BarrierAssumption DEF TypeOK, Pending, B

(* Taking the next number leaves Drift alone, but for a number that wraps. *)
LEMMA BeginDrift ==
  ASSUME Inv, NEW t \in Tasks, Begin(t)
  PROVE Drift' \in {Drift, Drift + 2 * PERIOD, Drift - 2 * PERIOD}
  <1> USE TwoTasks
  <1>1. TypeOK
    BY DEF Inv
  <1>2. /\ sfn_sf \in 0 .. PERIOD - 1 /\ sfn_slot \in 0 .. 2 * PERIOD - 1
        /\ slot_tick \in Int /\ laps[LTE] \in Int /\ laps[NR] \in Int
        /\ Pending(LTE) \in Int /\ Pending(NR) \in Int
        /\ PERIOD \in Nat \ {0} /\ 2 * PERIOD \in Nat \ {0}
    BY <1>1, DriftTypes, BarrierAssumption DEF TypeOK
  <1>3. /\ state \in [Tasks -> {"top", "work", "waiting", "woken"}] /\ state[t] = "top"
        /\ state' = [state EXCEPT ![t] = "work"]
        /\ UNCHANGED <<sf_slot_tick, slot_tick, laps>>
    BY <1>1 DEF Begin, TypeOK
  <1>4. state'[t] = "work" /\ state'[Other(t)] = state[Other(t)]
    BY <1>3
  <1>5. Pending(LTE)' = Pending(LTE) /\ Pending(NR)' = Pending(NR)
    BY <1>3, <1>4 DEF Pending, InMeeting, B
  <1> DEFINE L == laps[NR] - laps[LTE] + Pending(LTE) - Pending(NR)
             w == B(state[NR] = "work")
             v == B(state[LTE] # "top")
  <1>6. L \in Int /\ L' = L /\ w \in Int /\ v \in Int
    BY <1>2, <1>3, <1>5 DEF B
  <1>7. /\ Drift = sfn_slot - slot_tick - w - 2 * (sfn_sf - v) - 2 * L
        /\ Drift' = sfn_slot' - slot_tick' - w' - 2 * (sfn_sf' - v') - 2 * L'
    BY DEF Drift, TwiceMeetingsOfNr, MeetingsOfLte
  <1>8. CASE t = LTE
    <2>1. sfn_slot' = sfn_slot /\ sfn_sf' = (sfn_sf + 1) % PERIOD
      BY <1>8 DEF Begin, sfn_sf_counter
    <2>2. sfn_sf' = sfn_sf + 1 \/ sfn_sf' = sfn_sf + 1 - PERIOD
      BY <1>2, <2>1, Wrap
    <2>3. v = 0 /\ v' = 1 /\ w' = w
      BY <1>3, <1>4, <1>8 DEF B
    <2> HIDE DEF L, v, w
    <2>4. /\ Drift = sfn_slot - slot_tick - w - 2 * sfn_sf - 2 * L
          /\ Drift' = sfn_slot - slot_tick - w - 2 * (sfn_sf' - 1) - 2 * L
      BY <1>2, <1>3, <1>6, <1>7, <2>1, <2>3
    <2>5. CASE sfn_sf' = sfn_sf + 1
      BY <1>2, <1>6, <2>4, <2>5
    <2>6. CASE sfn_sf' = sfn_sf + 1 - PERIOD
      BY <1>2, <1>6, <2>4, <2>6
    <2> QED
      BY <2>2, <2>5, <2>6
  <1>9. CASE t = NR
    <2>1. sfn_sf' = sfn_sf /\ sfn_slot' = (sfn_slot + 1) % (2 * PERIOD)
      BY <1>9 DEF Begin, sfn_slot_counter
    <2>2. sfn_slot' = sfn_slot + 1 \/ sfn_slot' = sfn_slot + 1 - 2 * PERIOD
      BY <1>2, <2>1, Wrap
    <2>3. w = 0 /\ w' = 1 /\ v' = v
      BY <1>3, <1>4, <1>9 DEF B
    <2> HIDE DEF L, v, w
    <2>4. /\ Drift = sfn_slot - slot_tick - 2 * (sfn_sf - v) - 2 * L
          /\ Drift' = sfn_slot' - slot_tick - 1 - 2 * (sfn_sf - v) - 2 * L
      BY <1>2, <1>3, <1>6, <1>7, <2>1, <2>3
    <2>5. CASE sfn_slot' = sfn_slot + 1
      BY <1>2, <1>6, <2>4, <2>5
    <2>6. CASE sfn_slot' = sfn_slot + 1 - 2 * PERIOD
      BY <1>2, <1>6, <2>4, <2>6
    <2> QED
      BY <2>2, <2>5, <2>6
  <1> QED
    BY <1>8, <1>9

(* The first slot of a pair moves from one summand to the other. *)
LEMMA FirstSlotDrift ==
  ASSUME Inv, FirstSlot
  PROVE Drift' = Drift
  <1> USE TwoTasks
  <1>1. TypeOK
    BY DEF Inv
  <1>2. /\ state \in [Tasks -> {"top", "work", "waiting", "woken"}] /\ state[NR] = "work"
        /\ state' = [state EXCEPT ![NR] = "top"] /\ slot_tick' = slot_tick + 1
        /\ UNCHANGED <<sfn_sf, sfn_slot, sf_slot_tick, laps>>
    BY <1>1 DEF FirstSlot, TypeOK
  <1>3. state'[NR] = "top" /\ state'[LTE] = state[LTE]
    BY <1>2
  <1>4. \A u \in Tasks : Pending(u)' = Pending(u)
    BY <1>2, <1>3 DEF Pending, InMeeting, B
  <1>5. /\ B(state[NR] = "work") = 1 /\ B(state[NR] = "work")' = 0
        /\ B(state[LTE] # "top")' = B(state[LTE] # "top")
    BY <1>2, <1>3 DEF B
  <1> QED
    BY <1>1, <1>2, <1>4, <1>5, DriftTypes DEF Drift, TwiceMeetingsOfNr, MeetingsOfLte

(* The second task to arrive leaves a meeting that the first has still to  *)
(* leave, or has passed it and counts a lap.                               *)
LEMMA ArriveSecondDrift ==
  ASSUME Inv, NEW t \in Tasks, ArriveSecond(t)
  PROVE Drift' \in {Drift, Drift + 2 * PERIOD, Drift - 2 * PERIOD}
  <1> USE TwoTasks
  <1>1. TypeOK
    BY DEF Inv
  <1>2. /\ sfn_sf \in Int /\ sfn_slot \in Int /\ slot_tick \in Int
        /\ laps \in [Tasks -> 0 .. PERIOD - 1]
        /\ PERIOD \in Nat \ {0}
        /\ UNCHANGED <<sfn_sf, sfn_slot>>
    BY <1>1, DriftTypes, BarrierAssumption DEF TypeOK, ArriveSecond, Arrives
  <1>3. /\ state \in [Tasks -> {"top", "work", "waiting", "woken"}] /\ state[t] = "work"
        /\ state' = [state EXCEPT ![t] = "top", ![Other(t)] = Broadcast(t)]
        /\ sf_slot_tick' = sf_slot_tick \cup {t} /\ sf_slot_tick' = {LTE, NR}
        /\ sf_slot_tick \subseteq {LTE, NR}
    BY <1>1 DEF ArriveSecond, Arrives, TypeOK, BOTH_LTE_NR_DONE
  <1>4. /\ state'[t] = "top"
        /\ state'[Other(t)] = IF state[Other(t)] = "waiting" THEN "woken" ELSE state[Other(t)]
    BY <1>3 DEF Broadcast
  <1>5. ~InMeeting(t) /\ ~InMeeting(t)' /\ InMeeting(Other(t)) /\ InMeeting(Other(t))'
    <2>1. Other(t) \in sf_slot_tick
      BY <1>3
    <2>2. ~InMeeting(t) /\ ~InMeeting(t)'
      BY <1>3, <1>4 DEF InMeeting
    <2>3. \E u \in Tasks : InMeeting(u)
      BY <2>1 DEF Inv, BitsBelongToWaiter
    <2>4. InMeeting(Other(t))
      BY <2>2, <2>3
    <2> QED
      BY <2>2, <2>4, <1>4 DEF InMeeting
  <1>6. /\ Pending(t) = 0 /\ Pending(t)' = 0 /\ Pending(Other(t))' = 1
        /\ Pending(Other(t)) = IF t \in sf_slot_tick THEN 1 ELSE 0
    <2>1. sf_slot_tick = {LTE, NR} <=> t \in sf_slot_tick
      BY <1>3
    <2> QED
      BY <1>3, <1>5, <2>1 DEF Pending, B, BOTH_LTE_NR_DONE
  <1>7. /\ laps'[Other(t)] = laps[Other(t)]
        /\ IF t \in sf_slot_tick THEN laps'[t] \in {laps[t] + 1, laps[t] + 1 - PERIOD}
                                 ELSE laps'[t] = laps[t]
    <2>1. laps' = [laps EXCEPT ![t] = IF t \in sf_slot_tick THEN (laps[t] + 1) % PERIOD
                                                            ELSE laps[t]]
      BY DEF ArriveSecond, Arrives
    <2>2. (laps[t] + 1) % PERIOD \in {laps[t] + 1, laps[t] + 1 - PERIOD}
      <3>1. laps[t] \in 0 .. PERIOD - 1 /\ 1 \in 0 .. PERIOD
        BY <1>2
      <3> QED
        BY <1>2, <3>1, Wrap
    <2> QED
      BY <1>2, <2>1, <2>2
  <1>8. slot_tick' = IF t = NR THEN 0 ELSE slot_tick
    BY DEF ArriveSecond, NewPair
  <1>9. CASE t = LTE
    <2>1. /\ B(state[LTE] # "top") = 1 /\ B(state[LTE] # "top")' = 0
          /\ B(state[NR] = "work") = 0 /\ B(state[NR] = "work")' = 0
      BY <1>3, <1>4, <1>5, <1>9 DEF B, InMeeting
    <2>2. laps[LTE] \in Int /\ laps[NR] \in Int
      BY <1>2
    <2> QED
      BY <1>2, <1>6, <1>7, <1>8, <1>9, <2>1, <2>2 DEF Drift, TwiceMeetingsOfNr, MeetingsOfLte
  <1>10. CASE t = NR
    <2>1. /\ B(state[NR] = "work") = 1 /\ B(state[NR] = "work")' = 0
          /\ B(state[LTE] # "top") = 1 /\ B(state[LTE] # "top")' = 1
      BY <1>3, <1>4, <1>5, <1>10 DEF B, InMeeting
    <2>2. slot_tick = 1
      BY <1>2, <1>10 DEF ArriveSecond, Arrives, NR_PROXY_DONE
    <2>3. laps[LTE] \in Int /\ laps[NR] \in Int
      BY <1>2
    <2> QED
      BY <1>2, <1>6, <1>7, <1>8, <1>10, <2>1, <2>2, <2>3
      DEF Drift, TwiceMeetingsOfNr, MeetingsOfLte
  <1> QED
    BY <1>9, <1>10

(* The first task to arrive has left no meeting yet. *)
LEMMA ArriveFirstDrift ==
  ASSUME Inv, NEW t \in Tasks, ArriveFirst(t)
  PROVE Drift' = Drift
  <1> USE TwoTasks
  <1>1. TypeOK
    BY DEF Inv
  <1>2. /\ state \in [Tasks -> {"top", "work", "waiting", "woken"}] /\ state[t] = "work"
        /\ state' = [state EXCEPT ![t] = "waiting"]
        /\ sf_slot_tick' = sf_slot_tick \cup {t} /\ sf_slot_tick' # {LTE, NR}
        /\ sf_slot_tick \subseteq {LTE, NR}
        /\ UNCHANGED <<sfn_sf, sfn_slot>>
    BY <1>1 DEF ArriveFirst, Arrives, TypeOK, BOTH_LTE_NR_DONE
  <1>3. state'[t] = "waiting" /\ state'[Other(t)] = state[Other(t)]
    BY <1>2
  <1>4. \A u \in Tasks : Pending(u)' = 0 /\ Pending(u) = 0
    <2>1. sf_slot_tick # {LTE, NR}
      BY <1>2
    <2> QED
      BY <1>2, <2>1 DEF Pending, B, BOTH_LTE_NR_DONE
  <1>5. t \notin sf_slot_tick
    <2>1. Other(t) \notin sf_slot_tick
      BY <1>2
    <2>2. ~InMeeting(t) /\ ~InMeeting(Other(t))
      BY <1>2, <2>1 DEF Inv, BitsBelongToWaiter, InMeeting
    <2> QED
      BY <2>2 DEF Inv, BitsBelongToWaiter
  <1>6. laps' = laps
    BY <1>1, <1>5 DEF ArriveFirst, Arrives, TypeOK
  <1>7. /\ slot_tick' + B(state[NR] = "work")' = slot_tick + B(state[NR] = "work")
        /\ slot_tick' \in Int /\ B(state[NR] = "work")' \in Int
        /\ B(state[LTE] # "top")' = B(state[LTE] # "top")
    BY <1>1, <1>2, <1>3 DEF ArriveFirst, B, TypeOK
  <1> QED
    BY <1>1, <1>2, <1>4, <1>6, <1>7, DriftTypes DEF Drift, TwiceMeetingsOfNr, MeetingsOfLte

(* A woken task leaves the meeting that was pending, or waits on. *)
LEMMA ResumeDrift ==
  ASSUME Inv, NEW t \in Tasks, Resume(t)
  PROVE Drift' = Drift
  <1> USE TwoTasks
  <1>1. TypeOK
    BY DEF Inv
  <1>2. /\ state \in [Tasks -> {"top", "work", "waiting", "woken"}] /\ state[t] = "woken"
        /\ UNCHANGED <<sfn_sf, sfn_slot, laps>>
    BY <1>1 DEF Resume, TypeOK
  <1>3. CASE ~WaitIsOver /\ state' = [state EXCEPT ![t] = "waiting"]
             /\ UNCHANGED <<sf_slot_tick, slot_tick>>
    <2>1. state'[t] = "waiting" /\ state'[Other(t)] = state[Other(t)]
      BY <1>2, <1>3
    <2>2. \A u \in Tasks : Pending(u)' = Pending(u)
      BY <1>2, <1>3, <2>1 DEF Pending, InMeeting, B
    <2>3. /\ B(state[NR] = "work")' = B(state[NR] = "work")
          /\ B(state[LTE] # "top")' = B(state[LTE] # "top")
      BY <1>2, <2>1 DEF B
    <2> QED
      BY <1>2, <1>3, <2>2, <2>3 DEF Drift, TwiceMeetingsOfNr, MeetingsOfLte
  <1>4. CASE WaitIsOver /\ state' = [state EXCEPT ![t] = "top"] /\ ClearBits /\ NewPair(t)
    <2>1. state'[t] = "top" /\ state'[Other(t)] = state[Other(t)]
      BY <1>2, <1>4
    <2>2. InMeeting(t) /\ ~InMeeting(Other(t))
      BY <1>2 DEF Inv, OneInMeeting, InMeeting
    <2>3. sf_slot_tick = {LTE, NR} /\ sf_slot_tick' = {}
      BY <1>4 DEF WaitIsOver, ClearBits, BOTH_LTE_NR_DONE
    <2>4. /\ Pending(t) = 1 /\ Pending(t)' = 0
          /\ Pending(Other(t)) = 0 /\ Pending(Other(t))' = 0
      BY <2>2, <2>3 DEF Pending, B, BOTH_LTE_NR_DONE
    <2>5. slot_tick' = IF t = NR THEN 0 ELSE slot_tick
      BY <1>4 DEF NewPair
    <2>6. CASE t = LTE
      <3>1. /\ B(state[LTE] # "top") = 1 /\ B(state[LTE] # "top")' = 0
            /\ B(state[NR] = "work")' = B(state[NR] = "work")
        BY <1>2, <2>1, <2>6 DEF B
      <3> QED
        BY <1>1, <1>2, <2>4, <2>5, <2>6, <3>1, DriftTypes
        DEF Drift, TwiceMeetingsOfNr, MeetingsOfLte
    <2>7. CASE t = NR
      <3>1. /\ B(state[NR] = "work") = 0 /\ B(state[NR] = "work")' = 0
            /\ B(state[LTE] # "top")' = B(state[LTE] # "top")
        BY <1>2, <2>1, <2>7 DEF B
      <3>2. slot_tick = 2
        BY <2>2, <2>7 DEF Inv, SlotTickInv, NR_PROXY_DONE
      <3> QED
        BY <1>1, <1>2, <2>4, <2>5, <2>7, <3>1, <3>2, DriftTypes
        DEF Drift, TwiceMeetingsOfNr, MeetingsOfLte
    <2> QED
      BY <2>6, <2>7
  <1> QED
    BY <1>3, <1>4 DEF Resume

(* A spurious wake-up changes neither numbers nor meetings. *)
LEMMA SpuriousWakeupDrift ==
  ASSUME Inv, NEW t \in Tasks, SpuriousWakeup(t)
  PROVE Drift' = Drift
  <1> USE TwoTasks
  <1>1. /\ state \in [Tasks -> {"top", "work", "waiting", "woken"}] /\ state[t] = "waiting"
        /\ state' = [state EXCEPT ![t] = "woken"]
        /\ UNCHANGED <<sfn_sf, sfn_slot, sf_slot_tick, slot_tick, laps>>
    BY DEF Inv, TypeOK, SpuriousWakeup
  <1>2. state'[t] = "woken" /\ state'[Other(t)] = state[Other(t)]
    BY <1>1
  <1>3. \A u \in Tasks : Pending(u)' = Pending(u)
    BY <1>1, <1>2 DEF Pending, InMeeting, B
  <1>4. /\ B(state[NR] = "work")' = B(state[NR] = "work")
        /\ B(state[LTE] # "top")' = B(state[LTE] # "top")
    BY <1>1, <1>2 DEF B
  <1> QED
    BY <1>1, <1>3, <1>4 DEF Drift, TwiceMeetingsOfNr, MeetingsOfLte

(* Every step changes Drift by a multiple of the period. *)
LEMMA DriftSteps ==
  ASSUME Inv, [Next]_vars
  PROVE Drift' \in {Drift, Drift + 2 * PERIOD, Drift - 2 * PERIOD}
  <1>1. CASE UNCHANGED vars
    BY <1>1 DEF vars, Drift, TwiceMeetingsOfNr, MeetingsOfLte, Pending, InMeeting
  <1>2. ASSUME NEW t \in Tasks, Step(t)
        PROVE Drift' \in {Drift, Drift + 2 * PERIOD, Drift - 2 * PERIOD}
    BY <1>2, BeginDrift, FirstSlotDrift, ArriveSecondDrift, ArriveFirstDrift, ResumeDrift
    DEF Step
  <1>3. ASSUME NEW t \in Tasks, SpuriousWakeup(t) PROVE Drift' = Drift
    BY <1>3, SpuriousWakeupDrift
  <1> QED
    BY <1>1, <1>2, <1>3 DEF Next

(* A multiple of the period has the remainder that was left out. *)
LEMMA DriftRemainder == Inv /\ DriftInv => DriftIsLaps
  <1> SUFFICES ASSUME Inv, DriftInv PROVE DriftIsLaps
    OBVIOUS
  <1> DEFINE m == 2 * PERIOD
             a == TwiceMeetingsOfNr - 2 * MeetingsOfLte
             b == 2 * (laps[NR] - laps[LTE] + Pending(LTE) - Pending(NR))
  <1>1. m \in Nat \ {0} /\ a \in Int /\ b \in Int
    BY BarrierAssumption, DriftTypes DEF Inv, TwiceMeetingsOfNr, MeetingsOfLte
  <1>2. PICK q \in Int : a - b = q * m
    BY DEF DriftInv, Drift
  <1> HIDE DEF a, b, m
  <1> DEFINE p == b \div m
             r == b % m
  <1>3. p \in Int /\ r \in 0 .. m - 1 /\ b = p * m + r
    BY <1>1, DivMod
  <1> HIDE DEF p, r
  <1>4. (p + q) * m = p * m + q * m /\ p * m \in Int /\ q * m \in Int /\ p + q \in Int
    BY <1>1, <1>3
  <1>5. a = (p + q) * m + r
    BY <1>1, <1>2, <1>3, <1>4
  <1>6. a % m = r
    BY <1>1, <1>3, <1>4, <1>5, DivModUnique
  <1> QED
    BY <1>6 DEF r, a, b, m, DriftIsLaps

(* For every period and every schedule, the numbers that the UEs of the    *)
(* two cells are told drift apart by laps only.                            *)
THEOREM DriftsByLapsOnly == Spec => []DriftIsLaps
  <1>1. Init => DriftInv
    <2> SUFFICES ASSUME Init PROVE DriftInv
      OBVIOUS
    <2>1. /\ Pending(LTE) = 0 /\ Pending(NR) = 0
          /\ B(state[LTE] # "top") = 0 /\ B(state[NR] = "work") = 0
      BY TwoTasks DEF Init, Pending, InMeeting, B
    <2>2. Drift = 0
      BY <2>1, TwoTasks DEF Init, Drift, TwiceMeetingsOfNr, MeetingsOfLte
    <2>3. 0 = 0 * (2 * PERIOD)
      BY BarrierAssumption
    <2> QED
      BY <2>2, <2>3 DEF DriftInv
  <1>2. Inv /\ DriftInv /\ [Next]_vars => DriftInv'
    <2> SUFFICES ASSUME Inv, DriftInv, [Next]_vars PROVE DriftInv'
      OBVIOUS
    <2>1. Drift' \in {Drift, Drift + 2 * PERIOD, Drift - 2 * PERIOD}
      BY DriftSteps
    <2>2. PICK q \in Int : Drift = q * (2 * PERIOD)
      BY DEF DriftInv
    <2> DEFINE m == 2 * PERIOD
    <2>3. m \in Int
      BY BarrierAssumption
    <2> HIDE DEF m
    <2>4. (q + 1) * m = q * m + m /\ (q - 1) * m = q * m - m /\ q + 1 \in Int /\ q - 1 \in Int
      BY <2>3
    <2>5. \E k \in Int : Drift' = k * m
      BY <2>1, <2>2, <2>4 DEF m
    <2> QED
      BY <2>5 DEF DriftInv, m
  <1> QED
    BY InvHolds, <1>1, <1>2, DriftRemainder, PTL DEF Spec

=============================================================================
