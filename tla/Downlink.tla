------------------------------ MODULE Downlink ------------------------------
(* The downlink half of the proxy.  The P7 thread passes requests of the    *)
(* base station on to all UEs, the subframe (or slot) task tells them the   *)
(* time.  Both loop over the UEs with one socket address, address_tx_,      *)
(* under the proxy's mutex.  Above it lies the mutex of the P7 library: the *)
(* P7 thread holds it around most broadcasts, the task takes it after its   *)
(* broadcast, and the P5 thread takes it once while it starts the cell.     *)
(* LTE and NR proxy have the same structure and share nothing.              *)
EXTENDS Integers, Sequences

CONSTANTS
  num_ues,
  Kinds,        \* kinds of request: "buffered" (handled under the library's mutex) or "direct"
  MaxRequests,  \* requests that arrive
  MaxTicks,     \* turns of the task's loop
  NONE

ASSUME DownlinkAssumption ==
  /\ num_ues \in Nat \ {0} /\ Kinds \subseteq {"buffered", "direct"}
  /\ MaxRequests \in Nat /\ MaxTicks \in Nat
  /\ NONE \notin {"P5", "P7", "task"}

UEs == 1 .. num_ues
Threads == {"P5", "P7", "task"}

VARIABLES
  pc,             \* where each thread is
  ue_idx,         \* each thread's place in its loop over the UEs
  msg,            \* what each thread is sending
  p7_config_g,    \* has start_request published the P7 configuration?
  p7_mutex,       \* owner of pnf_p7->mutex as its memory says, or NONE
  clobbered,      \* history: has the mutex been initialised while a thread held it?
  mutex,          \* owner of the proxy's mutex, or NONE
  address_tx_,    \* the UE whose address is stored
  requests, ticks,
  received        \* datagrams each UE has received

vars == <<pc, ue_idx, msg, p7_config_g, p7_mutex, clobbered, mutex, address_tx_, requests, ticks, received>>

Goto(t, place) == pc' = [pc EXCEPT ![t] = place]

Init ==
  /\ pc = [t \in Threads |-> CASE t = "P5" -> "start" [] t = "P7" -> "absent" [] t = "task" -> "rest"]
  /\ ue_idx = [t \in Threads |-> 1]
  /\ msg = [t \in Threads |-> NONE]
  /\ p7_config_g = FALSE /\ p7_mutex = NONE /\ clobbered = FALSE /\ mutex = NONE
  /\ address_tx_ = num_ues          \* configure has set up the sockets of all UEs
  /\ requests = 0 /\ ticks = 0
  /\ received = [u \in UEs |-> <<>>]

-----------------------------------------------------------------------------
(* The broadcast, for the P7 thread and for the task.                       *)

\* defect: the mutex is not taken
EnterUnlocked(t) == UNCHANGED mutex

(* A recursive mutex. *)
TakeMutex(t) == mutex \in {NONE, t} /\ mutex' = t

LockProxy(t) ==
  /\ pc[t] = "lock_proxy"
  /\ TakeMutex(t)
  /\ ue_idx' = [ue_idx EXCEPT ![t] = 1]
  /\ Goto(t, "address")
  /\ UNCHANGED <<msg, p7_config_g, p7_mutex, clobbered, address_tx_, requests, ticks, received>>

SetAddress(t) ==
  /\ pc[t] = "address"
  /\ address_tx_' = ue_idx[t]
  /\ Goto(t, "sendto")
  /\ UNCHANGED <<ue_idx, msg, p7_config_g, p7_mutex, clobbered, mutex, requests, ticks, received>>

MoreUes(t) == ue_idx[t] < num_ues

(* sendto may fail; the loop goes on with the next UE. *)
Send(t) ==
  /\ pc[t] = "sendto"
  /\ \/ received' = [received EXCEPT ![address_tx_] = Append(@, [msg |-> msg[t], for |-> ue_idx[t]])]
     \/ UNCHANGED received
  /\ ue_idx' = [ue_idx EXCEPT ![t] = @ + 1]
  /\ Goto(t, IF MoreUes(t) THEN "address" ELSE "unlock_proxy")
  /\ UNCHANGED <<msg, p7_config_g, p7_mutex, clobbered, mutex, address_tx_, requests, ticks>>

\* defect: the task keeps the mutex until its indication is done
TaskKeepsMutex(t) == mutex' = IF t = "task" THEN "task" ELSE NONE

ReleaseMutex(t) == mutex' = NONE

(* The P7 thread may hold the library's mutex; the task goes on to the      *)
(* indication, which it skips while there is no P7 configuration.           *)
UnlockProxy(t) ==
  /\ pc[t] = "unlock_proxy"
  /\ ReleaseMutex(t)
  /\ Goto(t, CASE t = "task" /\ p7_config_g -> "lock_P7"
               [] t = "task" /\ ~p7_config_g -> "rest"
               [] t = "P7" /\ msg[t].kind = "buffered" -> "in_buffer"
               [] t = "P7" /\ msg[t].kind = "direct" -> "rest")
  /\ UNCHANGED <<ue_idx, msg, p7_config_g, p7_mutex, clobbered, address_tx_, requests, ticks, received>>

-----------------------------------------------------------------------------
(* The mutex of the P7 library.                                             *)

\* defect: nobody waits for the mutex of the library
P7MutexIgnored == TRUE

P7MutexFree == p7_mutex = NONE

LockP7(t) ==
  /\ pc[t] = "lock_P7"
  /\ P7MutexFree
  /\ p7_mutex' = t
  /\ Goto(t, "in_buffer")
  /\ UNCHANGED <<ue_idx, msg, p7_config_g, clobbered, mutex, address_tx_, requests, ticks, received>>

(* A handler that has stored its request broadcasts it before it unlocks,   *)
(* unless the request is outside the window or fails the proxy's own pack   *)
(* and unpack; an indication works on the buffers and unlocks.              *)
Broadcast ==
  /\ pc["P7"] = "in_buffer" /\ ~msg["P7"].done
  /\ msg' = [msg EXCEPT !["P7"].done = TRUE]
  /\ Goto("P7", "lock_proxy")
  /\ UNCHANGED <<ue_idx, p7_config_g, p7_mutex, clobbered, mutex, address_tx_, requests, ticks, received>>

UnlockP7(t) ==
  /\ pc[t] = "in_buffer"
  /\ p7_mutex' = NONE
  /\ Goto(t, "rest")
  /\ UNCHANGED <<ue_idx, msg, p7_config_g, clobbered, mutex, address_tx_, requests, ticks, received>>

(* pnf_p7_message_pump initialises the mutex before it receives anything.   *)
MessagePumpStarts ==
  /\ pc["P7"] = "init"
  /\ p7_mutex' = NONE
  /\ Goto("P7", "rest")
  /\ clobbered' = (p7_mutex # NONE)
  /\ UNCHANGED <<ue_idx, msg, p7_config_g, mutex, address_tx_, requests, ticks, received>>

(* Handlers that store their request lock first, those that do not (DL_TTI, *)
(* TX_DATA) go straight to the broadcast.                                   *)
ReceiveRequest ==
  /\ pc["P7"] = "rest" /\ requests < MaxRequests
  /\ requests' = requests + 1
  /\ \E kind \in Kinds :
       /\ msg' = [msg EXCEPT !["P7"] = [kind |-> kind, n |-> requests + 1, done |-> kind = "direct"]]
       /\ Goto("P7", IF kind = "buffered" THEN "lock_P7" ELSE "lock_proxy")
  /\ UNCHANGED <<ue_idx, p7_config_g, p7_mutex, clobbered, mutex, address_tx_, ticks, received>>

(* Top of the loop of oai_subframe_task and oai_slot_task. *)
Tick ==
  /\ pc["task"] = "rest" /\ ticks < MaxTicks
  /\ ticks' = ticks + 1
  /\ msg' = [msg EXCEPT !["task"] = [kind |-> "tick", n |-> ticks + 1, done |-> TRUE]]
  /\ Goto("task", "lock_proxy")
  /\ UNCHANGED <<ue_idx, p7_config_g, p7_mutex, clobbered, mutex, address_tx_, requests, received>>

(* start_request creates the P7 thread, publishes the configuration and     *)
(* gives the first indication.                                              *)
CreateP7Thread ==
  /\ pc["P5"] = "start"
  /\ pc' = [pc EXCEPT !["P5"] = "publish", !["P7"] = "init"]
  /\ UNCHANGED <<ue_idx, msg, p7_config_g, p7_mutex, clobbered, mutex, address_tx_, requests, ticks, received>>

PublishConfig ==
  /\ pc["P5"] = "publish"
  /\ p7_config_g' = TRUE
  /\ Goto("P5", "lock_P7")
  /\ UNCHANGED <<ue_idx, msg, p7_mutex, clobbered, mutex, address_tx_, requests, ticks, received>>

Step(t) ==
  \/ LockProxy(t) \/ SetAddress(t) \/ Send(t) \/ UnlockProxy(t)
  \/ LockP7(t) \/ UnlockP7(t)

StartCell == CreateP7Thread \/ PublishConfig \/ MessagePumpStarts

Next ==
  \/ \E t \in Threads : Step(t)
  \/ StartCell \/ Broadcast \/ ReceiveRequest \/ Tick

SafetySpec == Init /\ [][Next]_vars

(* Each thread keeps running; a mutex that is free over and over goes to    *)
(* each thread that waits for it.                                           *)
Spec ==
  /\ SafetySpec
  /\ WF_vars(StartCell)
  /\ \A t \in Threads : SF_vars(Step(t))

-----------------------------------------------------------------------------
Messages == [kind : Kinds \cup {"tick"}, n : Nat, done : BOOLEAN]
Datagrams == [msg : Messages, for : UEs]

(* Each thread is at one of its places, owners are threads, and what the    *)
(* UEs receive are messages.                                                *)
TypeOK ==
  /\ pc \in [Threads -> {"start", "publish", "absent", "init", "rest", "lock_proxy", "address", "sendto",
                         "unlock_proxy", "lock_P7", "in_buffer"}]
  /\ ue_idx \in [Threads -> 1 .. num_ues + 1]
  /\ msg \in [Threads -> Messages \cup {NONE}]
  /\ p7_config_g \in BOOLEAN /\ clobbered \in BOOLEAN
  /\ p7_mutex \in Threads \cup {NONE} /\ mutex \in Threads \cup {NONE}
  /\ address_tx_ \in UEs
  /\ requests \in Nat /\ ticks \in Nat
  /\ received \in [UEs -> Seq(Datagrams)]

(* A datagram that the P7 thread or the task sends in the turn of a UE      *)
(* reaches that UE: address_tx_ is not changed between its assignment and   *)
(* sendto by the other thread's loop.                                       *)
RightAddress == \A u \in UEs : \A k \in DOMAIN received[u] : received[u][k].for = u

(* Two UEs that both receive a request and a tick, or two requests, receive *)
(* them in the same order, whichever sends fail: a UE never sees a request  *)
(* before the tick that another UE saw first.                               *)
SameOrder ==
  \A u, v \in UEs : \A i, j \in DOMAIN received[u] : \A k, l \in DOMAIN received[v] :
    /\ i < j
    /\ received[u][i].msg = received[v][k].msg
    /\ received[u][j].msg = received[v][l].msg
    => k < l

(* P7 handlers take the library's mutex and then the proxy's, the task      *)
(* takes them one after the other: whoever waits gets on.                   *)
NobodyStuck == \A t \in Threads : [](pc[t] # "rest" => <>(pc[t] = "rest"))

(* The lock in the handlers and in pnf_p7_subframe_ind lets one thread at a *)
(* time work on the subframe buffers, also around the start of the cell,    *)
(* unless the P7 thread has initialised the mutex after another thread took *)
(* it.                                                                      *)
InBuffer(t) ==
  \/ pc[t] = "in_buffer"
  \/ /\ t = "P7" /\ pc[t] \in {"lock_proxy", "address", "sendto", "unlock_proxy"}
     /\ msg[t].kind = "buffered"

BufferExclusive == ~clobbered => \A t, s \in Threads : InBuffer(t) /\ InBuffer(s) => s = t
=============================================================================
