------------------------------- MODULE PnfP5 --------------------------------
(* The P5 (and P4) procedures of the PNF: the P5 thread of pnf.c, the       *)
(* response functions of pnf_interface.c and the proxy's callbacks in       *)
(* nfapi_pnf.c.  One thread reads the requests of the VNF one after the     *)
(* other, so handling a request is one action.  LTE and NR have the same    *)
(* handlers twice, with one difference: the NR handler gives its refusals   *)
(* of CONFIG.request the LTE message id, which the NR codec cannot pack.    *)
(* What the messages carry is left out, except the ids of the PHYs.         *)
EXTENDS Integers, Sequences, SequencesExt

CONSTANTS
  Requests,    \* the kinds of request the VNF sends
  PhyIds,      \* the PHYs it addresses; 0 is not an id
  PhyLists,    \* the lists of PHYs it sends in PNF_CONFIG.request
  MaxStarts,   \* P7 instances that may be started
  MaxLosses,   \* times the connection is lost
  NONE

ASSUME PhyAssumption == PhyIds \subseteq Nat \ {0} /\ PhyLists \subseteq Seq(PhyIds)

PnfRequests == {"PNF_PARAM", "PNF_CONFIG", "PNF_START", "PNF_STOP"}
P4Requests == {"RSSI", "CELL_SEARCH", "BROADCAST_DETECT", "SYSTEM_INFORMATION_SCHEDULE", "SYSTEM_INFORMATION"}
PhyRequests == {"PARAM", "CONFIG", "START", "STOP", "MEASUREMENT", "NMM_STOP"} \cup P4Requests

ASSUME RequestAssumption == Requests \subseteq PnfRequests \cup PhyRequests

States == {"IDLE", "CONFIGURED", "RUNNING"}
PhyRecords == [phy_id : PhyIds, state : States]
Responses == [kind : PnfRequests \cup PhyRequests, phy_id : PhyIds \cup {0},
              code : {"OK", "INVALID_STATE", "INVALID_CONFIG"}]

ASSUME NoneAssumption == NONE \notin PnfRequests \cup PhyRequests /\ NONE \notin Responses

VARIABLES
  rat,           \* "LTE" or "NR": the softmodem mode this PNF was started in
  vnf,           \* "orderly" or "any": what this behaviour's VNF sends (external)
  link,          \* "down", "up", or "ended": nfapi_pnf_start has returned
  state,         \* state of the PNF
  phys,          \* its PHY records, the newest first
  phy_info_id,   \* pnf.phys[0].id, the one PHY the proxy's callbacks know
  p7,            \* the PHYs that P7 instances were started for
  p7_config_g,   \* the published instance, 0 if none
  exchange,      \* the last request and the answer that was sent, or NONE
  view,          \* what the VNF takes the states to be, from the answers
  losses

vars == <<rat, vnf, link, state, phys, phy_info_id, p7, p7_config_g, exchange, view, losses>>

nothing == [req |-> NONE, phy_id |-> 0, known |-> FALSE, answer |-> NONE]

Init ==
  /\ rat \in {"LTE", "NR"} /\ vnf \in {"orderly", "any"}
  /\ link = "down" /\ state = "IDLE" /\ phys = <<>> /\ phy_info_id = 0
  /\ p7 = <<>> /\ p7_config_g = 0
  /\ exchange = nothing /\ losses = 0
  /\ view = [state |-> "IDLE", phys |-> <<>>]

nfapi_pnf_phy_config_find(id) == {k \in DOMAIN phys : phys[k].phy_id = id /\ \A j \in 1..(k - 1) : phys[j].phy_id # id}
Known(id) == nfapi_pnf_phy_config_find(id) # {}
StateOf(id) == phys[CHOOSE k \in nfapi_pnf_phy_config_find(id) : TRUE].state

WithState(list, id, s) ==
  [k \in DOMAIN list |->
     IF list[k].phy_id = id /\ \A j \in 1..(k - 1) : list[j].phy_id # id THEN [list[k] EXCEPT !.state = s] ELSE list[k]]

-----------------------------------------------------------------------------
(* Answers. *)

Response(kind, id, code) == [kind |-> kind, phy_id |-> id, code |-> code]

Exchanged(kind, id, answer) ==
  exchange' = [req |-> kind, phy_id |-> id, known |-> kind \in PnfRequests \/ Known(id), answer |-> answer]

(* The states the answers OK of the VNF's requests lead to. *)
PnfStateAfter == [PNF_CONFIG |-> "CONFIGURED", PNF_START |-> "RUNNING", PNF_STOP |-> "CONFIGURED"]
PhyStateAfter == [CONFIG |-> "CONFIGURED", START |-> "RUNNING", STOP |-> "CONFIGURED"]

(* An answer to a request about the PNF is always sent.                     *)
PnfRefuses(kind) ==
  /\ Exchanged(kind, 0, Response(kind, 0, "INVALID_STATE"))
  /\ UNCHANGED <<rat, vnf, link, state, phys, phy_info_id, p7, p7_config_g, view, losses>>

(* The response functions of CONFIG, START and STOP look the PHY up and     *)
(* send nothing if it is unknown; the others send the answer as it is.  A   *)
(* refusal of CONFIG in NR carries NFAPI_CONFIG_RESPONSE, for which         *)
(* pack_nr_p5_message_body has no case, and is not sent either.             *)
Sendable(kind, id) ==
  /\ kind \in DOMAIN PhyStateAfter => Known(id)
  /\ ~(rat = "NR" /\ kind = "CONFIG")

\* defect: a request in the wrong state is dropped
RefusesKnownOnly(kind, id, code) ==
  /\ Exchanged(kind, id, IF Sendable(kind, id) /\ code # "INVALID_STATE" THEN Response(kind, id, code) ELSE NONE)
  /\ UNCHANGED <<rat, vnf, link, state, phys, phy_info_id, p7, p7_config_g, view, losses>>

PhyRefuses(kind, id, code) ==
  /\ Exchanged(kind, id, IF Sendable(kind, id) THEN Response(kind, id, code) ELSE NONE)
  /\ UNCHANGED <<rat, vnf, link, state, phys, phy_info_id, p7, p7_config_g, view, losses>>

-----------------------------------------------------------------------------
(* Requests about the PNF.                                                  *)

PnfParam ==
  IF state # "IDLE" THEN PnfRefuses("PNF_PARAM")
  ELSE /\ Exchanged("PNF_PARAM", 0, Response("PNF_PARAM", 0, "OK"))
       /\ UNCHANGED <<rat, vnf, link, state, phys, phy_info_id, p7, p7_config_g, view, losses>>

Records(list) == Reverse([k \in DOMAIN list |-> [phy_id |-> list[k], state |-> "IDLE"]])

\* defect: the old PHY records stay
RecordsAdded(list) == Reverse([k \in DOMAIN list |-> [phy_id |-> list[k], state |-> "IDLE"]]) \o phys

(* nfapi_pnf_phy_config_delete_all and a new record for each listed PHY. *)
NewRecords(list) == Records(list)

(* The callback keeps the id of the first PHY, which is 0 in an empty list. *)
PnfConfig(list) ==
  IF state = "RUNNING" THEN PnfRefuses("PNF_CONFIG")
  ELSE /\ phys' = NewRecords(list)
       /\ phy_info_id' = IF list = <<>> THEN 0 ELSE list[1]
       /\ state' = "CONFIGURED"
       /\ view' = [state |-> "CONFIGURED", phys |-> Records(list)]
       /\ Exchanged("PNF_CONFIG", 0, Response("PNF_CONFIG", 0, "OK"))
       /\ UNCHANGED <<rat, vnf, link, p7, p7_config_g, losses>>

HasPhy == phy_info_id # 0

(* The callback answers only if it has a PHY. *)
PnfStart ==
  IF state # "CONFIGURED" THEN PnfRefuses("PNF_START")
  ELSE /\ state' = IF HasPhy THEN "RUNNING" ELSE state
       /\ view' = [view EXCEPT !.state = state']
       /\ Exchanged("PNF_START", 0, IF HasPhy THEN Response("PNF_START", 0, "OK") ELSE NONE)
       /\ UNCHANGED <<rat, vnf, link, phys, phy_info_id, p7, p7_config_g, losses>>

(* The PHYs go on as they are. *)
PnfStop ==
  IF state # "RUNNING" THEN PnfRefuses("PNF_STOP")
  ELSE /\ state' = "CONFIGURED"
       /\ view' = [view EXCEPT !.state = "CONFIGURED"]
       /\ Exchanged("PNF_STOP", 0, Response("PNF_STOP", 0, "OK"))
       /\ UNCHANGED <<rat, vnf, link, phys, phy_info_id, p7, p7_config_g, losses>>

-----------------------------------------------------------------------------
(* Requests about a PHY.                                                    *)

\* defect: CONFIG is accepted while the PHY is running
ConfigWhileRunning(kind, id) ==
  CASE kind = "PARAM" -> StateOf(id) = "IDLE"
    [] kind \in P4Requests -> StateOf(id) = "RUNNING"
    [] OTHER -> kind = "CONFIG" \/ StateOf(id) # "RUNNING"

(* PARAM needs an idle PHY, network monitor mode a running one; the others, *)
(* STOP among them, one that is not running.                                *)
InRightState(kind, id) ==
  CASE kind = "PARAM" -> StateOf(id) = "IDLE"
    [] kind \in P4Requests -> StateOf(id) = "RUNNING"
    [] OTHER -> StateOf(id) # "RUNNING"

(* start_request: a new P7 instance and its thread, always; instances       *)
(* started before go on running.                                            *)
Started(id) ==
  /\ Len(p7) < MaxStarts
  /\ p7' = Append(p7, id)
  /\ p7_config_g' = Len(p7')
  /\ phys' = WithState(phys, id, "RUNNING")
  /\ view' = [view EXCEPT !.phys = WithState(@, id, "RUNNING")]
  /\ Exchanged("START", id, Response("START", id, "OK"))
  /\ UNCHANGED <<rat, vnf, link, state, phy_info_id, losses>>

(* config_request answers for phy_info->id, whichever PHY was asked for. *)
Configured(id) ==
  /\ phys' = WithState(phys, phy_info_id, "CONFIGURED")
  /\ view' = [view EXCEPT !.phys = WithState(@, phy_info_id, "CONFIGURED")]
  /\ Exchanged("CONFIG", id, IF Known(phy_info_id) THEN Response("CONFIG", phy_info_id, "OK") ELSE NONE)
  /\ UNCHANGED <<rat, vnf, link, state, phy_info_id, p7, p7_config_g, losses>>

(* The proxy sets no callback for STOP, so nothing happens and nothing is   *)
(* sent; the other callbacks answer with OK and change nothing.             *)
Served(kind, id) ==
  /\ Exchanged(kind, id, IF kind = "STOP" THEN NONE ELSE Response(kind, id, "OK"))
  /\ UNCHANGED <<rat, vnf, link, state, phys, phy_info_id, p7, p7_config_g, view, losses>>

PhyRequest(kind, id) ==
  CASE state # "RUNNING" -> PhyRefuses(kind, id, "INVALID_STATE")
    [] state = "RUNNING" /\ ~Known(id) -> PhyRefuses(kind, id, "INVALID_CONFIG")
    [] state = "RUNNING" /\ Known(id) /\ ~InRightState(kind, id) -> PhyRefuses(kind, id, "INVALID_STATE")
    [] OTHER -> CASE kind = "START" -> Started(id)
                  [] kind = "CONFIG" -> Configured(id)
                  [] OTHER -> Served(kind, id)

-----------------------------------------------------------------------------
(* The connection.                                                          *)

(* nfapi_pnf_start tries again after a second until it succeeds, or returns *)
(* on an error that cannot be cured.                                        *)
Connect ==
  /\ link = "down"
  /\ link' = "up"
  /\ exchange' = nothing
  /\ view' = [state |-> "IDLE", phys |-> <<>>]
  /\ UNCHANGED <<rat, vnf, state, phys, phy_info_id, p7, p7_config_g, losses>>

GiveUp ==
  /\ link = "down"
  /\ link' = "ended"
  /\ UNCHANGED <<rat, vnf, state, phys, phy_info_id, p7, p7_config_g, exchange, view, losses>>

\* defect: the PNF stays in its state
StateKept == state

StateWhenLost == "IDLE"

(* pnf_message_pump ends; PHY records and P7 instances stay. *)
Lost ==
  /\ link = "up" /\ losses < MaxLosses
  /\ link' = "down" /\ losses' = losses + 1
  /\ state' = StateWhenLost
  /\ UNCHANGED <<rat, vnf, phys, phy_info_id, p7, p7_config_g, exchange, view>>

-----------------------------------------------------------------------------
(* pnf_handle_p5_message with any request at any time. *)
Request ==
  /\ link = "up" /\ vnf = "any"
  /\ \/ "PNF_PARAM" \in Requests /\ PnfParam
     \/ "PNF_CONFIG" \in Requests /\ \E list \in PhyLists : PnfConfig(list)
     \/ "PNF_START" \in Requests /\ PnfStart
     \/ "PNF_STOP" \in Requests /\ PnfStop
     \/ \E kind \in Requests \cap PhyRequests, id \in PhyIds : PhyRequest(kind, id)

(* A VNF that follows the procedure for the one PHY it lists: it sends the  *)
(* next request when the last one was answered with OK, and nothing else.   *)
Procedure == <<"PNF_PARAM", "PNF_CONFIG", "PNF_START", "PARAM", "CONFIG", "START">>

NextInProcedure ==
  IF exchange.req = NONE THEN Procedure[1]
  ELSE LET k == CHOOSE j \in DOMAIN Procedure : Procedure[j] = exchange.req
       IN  IF exchange.answer # NONE /\ exchange.answer.code = "OK" /\ k < Len(Procedure) THEN Procedure[k + 1] ELSE NONE

OrderlyRequest ==
  /\ link = "up" /\ vnf = "orderly" /\ NextInProcedure # NONE
  /\ \/ NextInProcedure = "PNF_PARAM" /\ PnfParam
     \/ NextInProcedure = "PNF_CONFIG" /\ \E id \in PhyIds : PnfConfig(<<id>>)
     \/ NextInProcedure = "PNF_START" /\ PnfStart
     \/ NextInProcedure \in PhyRequests /\ PhyRequest(NextInProcedure, view.phys[1].phy_id)

Next == Connect \/ GiveUp \/ Lost \/ Request \/ OrderlyRequest

(* The PNF thread runs, a connection that can be made is made, and an       *)
(* orderly VNF goes on with its procedure.                                  *)
Spec == Init /\ [][Next]_vars /\ WF_vars(Connect) /\ WF_vars(OrderlyRequest)

-----------------------------------------------------------------------------
(* Properties.                                                              *)

RunningPhys == {phys[k].phy_id : k \in {j \in DOMAIN phys : phys[j].state = "RUNNING"}}

(* Links, states, records of PHYs of the VNF's lists, published instances.  *)
TypeOK ==
  /\ link \in {"down", "up", "ended"} /\ state \in States
  /\ phys \in Seq(PhyRecords)
  /\ phy_info_id \in PhyIds \cup {0}
  /\ p7 \in Seq(PhyIds) /\ p7_config_g \in 0 .. Len(p7)
  /\ view \in [state : States, phys : Seq(PhyRecords)]

(* The states the VNF concludes from the answers it got on this connection  *)
(* are the states of the PNF and of its PHYs, also after connections were   *)
(* lost at any point and whatever requests were refused.                    *)
ViewsAgree ==
  link = "up" => /\ view.state = state
                 /\ state # "IDLE" => view.phys = phys

(* A PHY that is running has its P7 instance, and it is the published one,  *)
(* which the subframe task gives its indications to: p7_config_g never      *)
(* belongs to another PHY or to a PHY of an earlier PNF_CONFIG.             *)
RunningIsPublished ==
  \A id \in RunningPhys : p7_config_g # 0 /\ p7[p7_config_g] = id

(* A PHY that is running is not configured again: it stays in RUNNING until *)
(* PNF_CONFIG replaces all records.                                         *)
RunningNotConfigured ==
  [][\A id \in RunningPhys : id \in RunningPhys' \/ exchange'.req = "PNF_CONFIG"]_vars

(* The client answers each request about the PNF or a PHY the PNF knows,    *)
(* as nfapi_pnf_interface.h expects of it, and in every state it can be in. *)
(* Three are left without an answer: PNF_START of a PNF that was given no   *)
(* PHYs, STOP of a PHY that is not running, which the proxy has no callback *)
(* for, and in NR a CONFIG that is refused because PNF or PHY is in the     *)
(* wrong state.                                                             *)
Answered ==
  link = "up" /\ exchange.req # NONE /\ exchange.known /\ exchange.answer = NONE =>
    \/ exchange.req = "PNF_START" /\ phy_info_id = 0
    \/ exchange.req = "STOP" /\ state = "RUNNING" /\ exchange.phy_id \notin RunningPhys
    \/ rat = "NR" /\ exchange.req = "CONFIG" /\ (state # "RUNNING" \/ exchange.phy_id \in RunningPhys)

(* However often the connection is lost, an orderly VNF brings the PNF up   *)
(* again: after the last loss its PHY runs and is published, unless the PNF *)
(* gave up.                                                                 *)
ComesUp ==
  vnf = "orderly" =>
    <>[](link = "ended" \/ (link = "up" /\ state = "RUNNING" /\ RunningPhys # {} /\ p7_config_g = Len(p7)))
=============================================================================
