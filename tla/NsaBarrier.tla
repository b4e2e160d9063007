----------------------------- MODULE NsaBarrier -----------------------------
(***************************************************************************)
(* NSA mode: the subframe task and the slot task meet after every subframe *)
(* and every second slot.  sf_slot_tick holds one bit per task and is      *)
(* guarded by "lock"; cond_sf_slot wakes the task that came first.         *)
(*                                                                         *)
(* A task holds the lock from its arrival to its wait or its departure, so *)
(* each of these is one step.  A task whose wait has ended still has to    *)
(* take the lock again, and until it has it the other task may go round    *)
(* its loop and arrive again, with both bits still set: such an arrival is *)
(* a lap, counted in the history variable laps.                            *)
(***************************************************************************)
EXTENDS Integers

CONSTANTS
  LTE, NR, \* oai_subframe_task (bit LTE_PROXY_DONE), oai_slot_task (bit NR_PROXY_DONE)
  PERIOD   \* subframes before the numbering wraps (10240 in the code)

ASSUME BarrierAssumption ==
  /\ LTE # NR
  /\ PERIOD \in Nat \ {0}

Tasks == {LTE, NR}
Other(t) == IF t = LTE THEN NR ELSE LTE
BOTH_LTE_NR_DONE == {LTE, NR}

NR_PROXY_DONE == 2 \* the value slot_tick is compared with

VARIABLES
  sfn_sf,       \* the subframe task's number, and
  sfn_slot,     \* the slot task's, both as counts from 0
  sf_slot_tick, \* the bits, as the set of tasks that have set theirs
  slot_tick,    \* slots finished since the slot task's last meeting
  state,        \* at the top of the loop, working, in pthread_cond_wait, or woken from it
  laps          \* arrivals that found the task's own bit still set (history, modulo PERIOD)

vars == <<sfn_sf, sfn_slot, sf_slot_tick, slot_tick, state, laps>>

Init ==
  /\ sfn_sf = 0
  /\ sfn_slot = 0
  /\ sf_slot_tick = {}
  /\ slot_tick = 0
  /\ state = [t \in Tasks |-> "top"]
  /\ laps = [t \in Tasks |-> 0]

sfn_sf_counter == sfn_sf' = (sfn_sf + 1) % PERIOD
sfn_slot_counter == sfn_slot' = (sfn_slot + 1) % (2 * PERIOD)

(* The next number is taken and announced to the UEs; the work follows. *)
Begin(t) ==
  /\ state[t] = "top"
  /\ state' = [state EXCEPT ![t] = "work"]
  /\ IF t = LTE THEN sfn_sf_counter /\ UNCHANGED sfn_slot
                ELSE sfn_slot_counter /\ UNCHANGED sfn_sf
  /\ UNCHANGED <<sf_slot_tick, slot_tick, laps>>

(* After the first slot of a pair the slot task does not meet the other. *)
FirstSlot ==
  /\ state[NR] = "work"
  /\ slot_tick + 1 # NR_PROXY_DONE
  /\ slot_tick' = slot_tick + 1
  /\ state' = [state EXCEPT ![NR] = "top"]
  /\ UNCHANGED <<sfn_sf, sfn_slot, sf_slot_tick, laps>>

(* A task takes the lock to set its bit after its work, the slot task only *)
(* when it has counted the second slot of a pair.                          *)
Arrives(t) ==
  /\ state[t] = "work"
  /\ t = NR => slot_tick + 1 = NR_PROXY_DONE
  /\ sf_slot_tick' = sf_slot_tick \cup {t}
  /\ laps' = [laps EXCEPT ![t] = IF t \in sf_slot_tick THEN (@ + 1) % PERIOD ELSE @]
  /\ UNCHANGED <<sfn_sf, sfn_slot>>

(* Behind the barrier the slot task starts a new pair; a defect: it does not. *)
CountGoesOn(t) == slot_tick' = IF t = NR THEN slot_tick + 1 ELSE slot_tick
NewPair(t) == slot_tick' = IF t = NR THEN 0 ELSE slot_tick

(* pthread_cond_broadcast, if the other task waits; a defect: it is missing. *)
NobodyWoken(t) == state[Other(t)]
Broadcast(t) == IF state[Other(t)] = "waiting" THEN "woken" ELSE state[Other(t)]

(* The other's bit is there: wake it and go on. *)
ArriveSecond(t) ==
  /\ Arrives(t)
  /\ sf_slot_tick' = BOTH_LTE_NR_DONE
  /\ state' = [state EXCEPT ![t] = "top", ![Other(t)] = Broadcast(t)]
  /\ NewPair(t)

(* The other's bit is missing: wait. *)
ArriveFirst(t) ==
  /\ Arrives(t)
  /\ sf_slot_tick' # BOTH_LTE_NR_DONE
  /\ state' = [state EXCEPT ![t] = "waiting"]
  /\ slot_tick' = IF t = NR THEN slot_tick + 1 ELSE slot_tick

(* pthread_cond_wait may return without a broadcast. *)
SpuriousWakeup(t) ==
  /\ state[t] = "waiting"
  /\ state' = [state EXCEPT ![t] = "woken"]
  /\ UNCHANGED <<sfn_sf, sfn_slot, sf_slot_tick, slot_tick, laps>>

(* The task that waited clears the bits; a defect: it leaves them. *)
BitsKept == UNCHANGED sf_slot_tick
ClearBits == sf_slot_tick' = {}

(* The condition of the wait loop; a defect: any return of the wait will do. *)
AnyReturn == TRUE
WaitIsOver == sf_slot_tick = BOTH_LTE_NR_DONE

(* A woken task has the lock again and looks at the bits. *)
Resume(t) ==
  /\ state[t] = "woken"
  /\ \/ /\ ~WaitIsOver
        /\ state' = [state EXCEPT ![t] = "waiting"]
        /\ UNCHANGED <<sf_slot_tick, slot_tick>>
     \/ /\ WaitIsOver
        /\ state' = [state EXCEPT ![t] = "top"]
        /\ ClearBits
        /\ NewPair(t)
  /\ UNCHANGED <<sfn_sf, sfn_slot, laps>>

Step(t) ==
  \/ Begin(t)
  \/ t = NR /\ FirstSlot
  \/ ArriveSecond(t)
  \/ ArriveFirst(t)
  \/ Resume(t)

Next == \E t \in Tasks : Step(t) \/ SpuriousWakeup(t)

Spec == Init /\ [][Next]_vars

(* Both tasks are real-time threads that sleep for a bounded time in each  *)
(* round, and the lock is held for a few instructions only.                *)
FairSpec == Spec /\ \A t \in Tasks : WF_vars(Step(t))

-----------------------------------------------------------------------------
(* Types; in particular the slot task never counts past the pair of slots  *)
(* that the comparison with NR_PROXY_DONE looks for.                       *)
TypeOK ==
  /\ sfn_sf \in 0 .. PERIOD - 1
  /\ sfn_slot \in 0 .. 2 * PERIOD - 1
  /\ sf_slot_tick \subseteq Tasks
  /\ slot_tick \in 0 .. 2
  /\ state \in [Tasks -> {"top", "work", "waiting", "woken"}]
  /\ laps \in [Tasks -> 0 .. PERIOD - 1]

InMeeting(t) == state[t] \in {"waiting", "woken"}

(* No task sleeps through its wake-up: whoever is in pthread_cond_wait is  *)
(* alone in the meeting and the bit it waits for is still missing, so the  *)
(* other's next arrival wakes it.  Bits left behind by earlier meetings    *)
(* never make both tasks wait for each other.                              *)
NoLostWakeup ==
  \A t \in Tasks : state[t] = "waiting" =>
    sf_slot_tick = {t} /\ ~InMeeting(Other(t))

(* The bits are clear exactly when nobody is in a meeting: the task that   *)
(* waited, and only it, clears them, so no arrival is ever wiped out       *)
(* while its task waits.                                                   *)
BitsBelongToWaiter ==
  /\ sf_slot_tick = {} <=> \A t \in Tasks : ~InMeeting(t)
  /\ \A t \in Tasks : InMeeting(t) => t \in sf_slot_tick

B(p) == IF p THEN 1 ELSE 0
Pending(t) == B(InMeeting(t) /\ sf_slot_tick = BOTH_LTE_NR_DONE)

(* Meetings each task has left, as its own numbers tell. *)
MeetingsOfLte == sfn_sf - B(state[LTE] # "top")
TwiceMeetingsOfNr == sfn_slot - slot_tick - B(state[NR] = "work")

(* What the UEs see as the time of the two cells drifts apart by laps      *)
(* only: two slots per subframe, up to a meeting that a woken task has     *)
(* still to leave and to the rounds one task ran past a woken one.         *)
DriftIsLaps ==
  (TwiceMeetingsOfNr - 2 * MeetingsOfLte) % (2 * PERIOD)
    = (2 * (laps[NR] - laps[LTE] + Pending(LTE) - Pending(NR))) % (2 * PERIOD)

(* Both tasks keep meeting: neither stays in a meeting for good, and both  *)
(* numbers go on.                                                          *)
KeepMeeting ==
  /\ \A t \in Tasks : InMeeting(t) ~> ~InMeeting(t)
  /\ \A k \in 0 .. PERIOD - 1 : sfn_sf = k ~> sfn_sf # k
  /\ \A k \in 0 .. 2 * PERIOD - 1 : sfn_slot = k ~> sfn_slot # k
=============================================================================
