---------------------------- MODULE PnfP5Proofs -----------------------------
(* The P5 procedures for any PHYs, requests, lists and numbers of losses.   *)
EXTENDS PnfP5, TLAPS, WellFoundedInduction

(* A lost connection resets the PNF. *)
DownIsIdle == link = "down" => state = "IDLE"

(* The PHY of the proxy's callbacks is one of the PNF's records. *)
PhyInfoInv ==
  \/ phys = <<>> /\ phy_info_id = 0
  \/ \E k \in DOMAIN phys : phys[k].phy_id = phy_info_id

(* Of two records of one PHY, only the one that is found first is used. *)
FirstUsed ==
  \A k \in DOMAIN phys : phys[k].state # "IDLE" => \A j \in 1..(k - 1) : phys[j].phy_id # phys[k].phy_id

(* The answer OK to PNF_START, or to a request about a PHY, comes from a    *)
(* running PNF with PHYs.                                                   *)
RunningAnswers ==
  /\ link = "up" /\ exchange.req \in {"PNF_START", "PARAM", "CONFIG"}
  /\ exchange.answer # NONE /\ exchange.answer.code = "OK"
  => state = "RUNNING" /\ phys # <<>>

Inv == TypeOK /\ ViewsAgree /\ DownIsIdle /\ PhyInfoInv /\ FirstUsed /\ RunningAnswers /\ Answered

(* An orderly VNF sends the requests of its procedure only. *)
OrderlyInv ==
  vnf = "orderly" => exchange.req \in {NONE, "PNF_PARAM", "PNF_CONFIG", "PNF_START", "PARAM", "CONFIG", "START"}

-----------------------------------------------------------------------------
(* Lists and records.                                                       *)

(* A set of natural numbers has a least element. *)
LEMMA LeastNat ==
  ASSUME NEW T \in SUBSET Nat, T # {}
  PROVE \E x \in T : \A y \in T : x <= y
  <1>1. PICK x \in T : \A y \in T : ~ (<<y, x>> \in OpToRel(<, Nat))
    BY WFMin, NatLessThanWellFounded
  <1>2. ASSUME NEW y \in T PROVE x <= y
    <2>1. y < x => <<y, x>> \in OpToRel(<, Nat)
      BY DEF OpToRel
    <2>2. ~(y < x)
      BY <2>1, <1>1, Zenon
    <2> QED
      BY <2>2
  <1> QED
    BY <1>2

(* nfapi_pnf_phy_config_find finds a PHY that has a record. *)
LEMMA FindFinds ==
  ASSUME phys \in Seq(PhyRecords), NEW k \in DOMAIN phys
  PROVE Known(phys[k].phy_id)
  <1> DEFINE T == {j \in DOMAIN phys : phys[j].phy_id = phys[k].phy_id}
  <1>1. T \in SUBSET Nat /\ k \in T
    OBVIOUS
  <1>2. PICK x \in T : \A y \in T : x <= y
    BY <1>1, LeastNat
  <1>3. x \in nfapi_pnf_phy_config_find(phys[k].phy_id)
    BY <1>2 DEF nfapi_pnf_phy_config_find
  <1> QED
    BY <1>3 DEF Known

(* ... and is the only place where it is found. *)
LEMMA FindIsUnique ==
  ASSUME phys \in Seq(PhyRecords), NEW id, Known(id)
  PROVE \E k \in DOMAIN phys :
          /\ phys[k].phy_id = id /\ \A j \in 1..(k - 1) : phys[j].phy_id # id
          /\ nfapi_pnf_phy_config_find(id) = {k} /\ StateOf(id) = phys[k].state
          /\ id \in PhyIds /\ phys # <<>>
  <1>1. PICK k \in nfapi_pnf_phy_config_find(id) : TRUE
    BY DEF Known
  <1>2. \A j \in nfapi_pnf_phy_config_find(id) : j = k
    BY <1>1 DEF nfapi_pnf_phy_config_find
  <1>3. nfapi_pnf_phy_config_find(id) = {k} /\ StateOf(id) = phys[k].state
    BY <1>1, <1>2 DEF StateOf
  <1>4. k \in DOMAIN phys /\ phys[k].phy_id = id /\ \A j \in 1..(k - 1) : phys[j].phy_id # id
    BY <1>1 DEF nfapi_pnf_phy_config_find
  <1>5. phys[k] \in PhyRecords /\ phys # <<>>
    BY <1>4
  <1>6. id \in PhyIds
    BY <1>4, <1>5 DEF PhyRecords
  <1> QED
    BY <1>3, <1>4, <1>5, <1>6

(* A new state of one PHY leaves the records otherwise as they are. *)
LEMMA WithStateFacts ==
  ASSUME NEW list \in Seq(PhyRecords), NEW id, NEW s \in States
  PROVE LET new == WithState(list, id, s)
        IN  /\ new \in Seq(PhyRecords) /\ DOMAIN new = DOMAIN list /\ Len(new) = Len(list)
            /\ \A k \in DOMAIN list : new[k].phy_id = list[k].phy_id
            /\ \A k \in DOMAIN list :
                 \/ new[k].state = list[k].state
                 \/ /\ new[k].state = s /\ list[k].phy_id = id
                    /\ \A j \in 1..(k - 1) : list[j].phy_id # id
            /\ \A k \in DOMAIN list :
                 list[k].phy_id = id /\ (\A j \in 1..(k - 1) : list[j].phy_id # id) => new[k].state = s
  <1> DEFINE new == WithState(list, id, s)
  <1>1. new = [k \in 1 .. Len(list) |->
                 IF list[k].phy_id = id /\ \A j \in 1..(k - 1) : list[j].phy_id # id
                 THEN [list[k] EXCEPT !.state = s] ELSE list[k]]
    BY DEF WithState
  <1>2. \A k \in 1 .. Len(list) : list[k] \in PhyRecords
    OBVIOUS
  <1>3. \A k \in 1 .. Len(list) : new[k] \in PhyRecords
    BY <1>1, <1>2 DEF PhyRecords
  <1>4. new \in Seq(PhyRecords) /\ DOMAIN new = DOMAIN list /\ Len(new) = Len(list)
    BY <1>1, <1>3
  <1>5. \A k \in DOMAIN list :
          /\ new[k].phy_id = list[k].phy_id
          /\ \/ new[k].state = list[k].state
             \/ /\ new[k].state = s /\ list[k].phy_id = id
                /\ \A j \in 1..(k - 1) : list[j].phy_id # id
          /\ list[k].phy_id = id /\ (\A j \in 1..(k - 1) : list[j].phy_id # id) => new[k].state = s
    BY <1>1, <1>2 DEF PhyRecords
  <1> QED
    BY <1>4, <1>5

(* The records of a list are idle, newest first. *)
LEMMA RecordsFacts ==
  ASSUME NEW list \in Seq(PhyIds)
  PROVE /\ Records(list) \in Seq(PhyRecords) /\ Len(Records(list)) = Len(list)
        /\ \A k \in DOMAIN Records(list) : Records(list)[k].state = "IDLE"
        /\ list = <<>> => Records(list) = <<>>
        /\ list # <<>> => list[1] \in PhyIds /\ \E k \in DOMAIN Records(list) : Records(list)[k].phy_id = list[1]
  <1> DEFINE r == [k \in DOMAIN list |-> [phy_id |-> list[k], state |-> "IDLE"]]
             n == Len(list)
  <1>1. n \in Nat /\ DOMAIN list = 1 .. n /\ \A k \in 1 .. n : list[k] \in PhyIds
    OBVIOUS
  <1>2. r \in Seq(PhyRecords) /\ Len(r) = n
    BY <1>1 DEF PhyRecords, States
  <1>3. Records(list) = [i \in 1 .. n |-> r[(n - i) + 1]]
    BY <1>2 DEF Records, Reverse
  <1>4. \A i \in 1 .. n : (n - i) + 1 \in 1 .. n
    BY <1>1
  <1>5. \A i \in 1 .. n : Records(list)[i] = [phy_id |-> list[(n - i) + 1], state |-> "IDLE"]
    BY <1>1, <1>3, <1>4
  <1>6. \A i \in 1 .. n : Records(list)[i] \in PhyRecords /\ Records(list)[i].state = "IDLE"
    <2> SUFFICES ASSUME NEW i \in 1 .. n
                 PROVE Records(list)[i] \in PhyRecords /\ Records(list)[i].state = "IDLE"
      OBVIOUS
    <2>1. list[(n - i) + 1] \in PhyIds
      BY <1>1, <1>4
    <2>2. [phy_id |-> list[(n - i) + 1], state |-> "IDLE"] \in PhyRecords
      BY <2>1 DEF PhyRecords, States
    <2> QED
      BY <1>5, <2>2
  <1>7. Records(list) \in Seq(PhyRecords) /\ Len(Records(list)) = n
    BY <1>1, <1>3, <1>6
  <1>8. list = <<>> => Records(list) = <<>>
    BY <1>7
  <1>9. ASSUME list # <<>>
        PROVE list[1] \in PhyIds /\ Records(list)[n].phy_id = list[1] /\ n \in DOMAIN Records(list)
    <2>1. n \in 1 .. n /\ 1 \in 1 .. n /\ (n - n) + 1 = 1
      BY <1>1, <1>9
    <2>2. Records(list)[n] = [phy_id |-> list[1], state |-> "IDLE"]
      BY <2>1, <1>5
    <2> QED
      BY <2>1, <2>2, <1>1, <1>7
  <1> QED
    BY <1>6, <1>7, <1>8, <1>9

-----------------------------------------------------------------------------
(* The inductive invariant.                                                 *)

(* Before the first connection. *)
LEMMA InitInv == Init => Inv
  BY DEF Init, Inv, TypeOK, ViewsAgree, DownIsIdle, PhyInfoInv, FirstUsed, RunningAnswers, Answered, nothing, States

(* An exchange that changes no state, and what it must look like. *)
LEMMA QuietExchange ==
  ASSUME Inv, link = "up",
         UNCHANGED <<rat, link, state, phys, phy_info_id, p7, p7_config_g, view>>,
         exchange'.req \in {"PNF_START", "PARAM", "CONFIG"} /\ exchange'.answer # NONE
           /\ exchange'.answer.code = "OK" => state = "RUNNING" /\ phys # <<>>,
         exchange'.known /\ exchange'.answer = NONE =>
           \/ exchange'.req = "PNF_START" /\ phy_info_id = 0
           \/ exchange'.req = "STOP" /\ state = "RUNNING" /\ exchange'.phy_id \notin RunningPhys
           \/ rat = "NR" /\ exchange'.req = "CONFIG" /\ (state # "RUNNING" \/ exchange'.phy_id \in RunningPhys)
  PROVE Inv'
  <1>1. TypeOK'
    BY DEF Inv, TypeOK
  <1>2. ViewsAgree' /\ DownIsIdle'
    BY DEF Inv, ViewsAgree, DownIsIdle
  <1>3. PhyInfoInv'
    BY DEF Inv, PhyInfoInv
  <1>4. FirstUsed'
    BY DEF Inv, FirstUsed
  <1>5. RunningAnswers'
    BY DEF RunningAnswers
  <1>6. Answered'
    BY DEF Answered, RunningPhys
  <1> QED
    BY <1>1, <1>2, <1>3, <1>4, <1>5, <1>6 DEF Inv

(* A response is an answer. *)
LEMMA ResponseIsAnswer ==
  ASSUME NEW kind \in PnfRequests \cup PhyRequests, NEW id \in PhyIds \cup {0},
         NEW code \in {"OK", "INVALID_STATE", "INVALID_CONFIG"}
  PROVE /\ Response(kind, id, code) # NONE /\ Response(kind, id, code).code = code
        /\ kind # NONE
  <1>1. Response(kind, id, code) \in Responses
    BY DEF Response, Responses
  <1> QED
    BY <1>1, NoneAssumption DEF Response

(* Requests about the PNF that are refused. *)
LEMMA PnfRefusesInv ==
  ASSUME Inv, link = "up", NEW kind \in PnfRequests, PnfRefuses(kind)
  PROVE Inv'
  <1>1. /\ exchange'.req = kind /\ exchange'.answer # NONE /\ exchange'.answer.code = "INVALID_STATE"
        /\ UNCHANGED <<rat, link, state, phys, phy_info_id, p7, p7_config_g, view>>
    BY ResponseIsAnswer DEF PnfRefuses, Exchanged
  <1> QED
    BY <1>1, QuietExchange

(* PNF_PARAM.request *)
LEMMA PnfParamInv ==
  ASSUME Inv, link = "up", PnfParam
  PROVE Inv'
  <1>1. CASE state # "IDLE"
    BY <1>1, PnfRefusesInv DEF PnfParam, PnfRequests
  <1>2. CASE state = "IDLE"
    <2>1. /\ exchange'.req = "PNF_PARAM" /\ exchange'.answer # NONE
          /\ UNCHANGED <<rat, link, state, phys, phy_info_id, p7, p7_config_g, view>>
      BY <1>2, ResponseIsAnswer DEF PnfParam, Exchanged, PnfRequests
    <2> QED
      BY <2>1, QuietExchange
  <1> QED
    BY <1>1, <1>2

(* PNF_CONFIG.request *)
LEMMA PnfConfigInv ==
  ASSUME Inv, link = "up", NEW list \in Seq(PhyIds), PnfConfig(list)
  PROVE Inv'
  <1>1. CASE state = "RUNNING"
    BY <1>1, PnfRefusesInv DEF PnfConfig, PnfRequests
  <1>2. CASE state # "RUNNING"
    <2>1. /\ phys' = Records(list) /\ phy_info_id' = IF list = <<>> THEN 0 ELSE list[1]
          /\ state' = "CONFIGURED" /\ view' = [state |-> "CONFIGURED", phys |-> Records(list)]
          /\ exchange'.req = "PNF_CONFIG" /\ exchange'.answer # NONE
          /\ UNCHANGED <<link, p7, p7_config_g>>
      BY <1>2, ResponseIsAnswer DEF PnfConfig, NewRecords, Exchanged, PnfRequests
    <2> USE <2>1, RecordsFacts
    <2>2. TypeOK'
      BY DEF Inv, TypeOK, States
    <2>3. ViewsAgree' /\ DownIsIdle'
      BY DEF ViewsAgree, DownIsIdle
    <2>4. PhyInfoInv' /\ FirstUsed'
      BY DEF PhyInfoInv, FirstUsed
    <2>5. RunningAnswers' /\ Answered'
      BY DEF RunningAnswers, Answered
    <2> QED
      BY <2>2, <2>3, <2>4, <2>5 DEF Inv
  <1> QED
    BY <1>1, <1>2

(* PNF_START.request *)
LEMMA PnfStartInv ==
  ASSUME Inv, link = "up", PnfStart
  PROVE Inv'
  <1>1. CASE state # "CONFIGURED"
    BY <1>1, PnfRefusesInv DEF PnfStart, PnfRequests
  <1>2. CASE state = "CONFIGURED" /\ HasPhy
    <2>1. /\ state' = "RUNNING" /\ view' = [view EXCEPT !.state = "RUNNING"]
          /\ exchange'.req = "PNF_START" /\ exchange'.answer # NONE
          /\ UNCHANGED <<link, phys, phy_info_id, p7, p7_config_g>>
      BY <1>2, ResponseIsAnswer DEF PnfStart, Exchanged, PnfRequests
    <2>2. TypeOK'
      BY <2>1 DEF Inv, TypeOK, States
    <2>3. ViewsAgree' /\ DownIsIdle'
      BY <1>2, <2>1 DEF Inv, TypeOK, ViewsAgree, DownIsIdle
    <2>4. PhyInfoInv' /\ FirstUsed'
      BY <2>1 DEF Inv, PhyInfoInv, FirstUsed
    <2>5. RunningAnswers' /\ Answered'
      BY <1>2, <2>1 DEF Inv, PhyInfoInv, HasPhy, RunningAnswers, Answered
    <2> QED
      BY <2>2, <2>3, <2>4, <2>5 DEF Inv
  <1>3. CASE state = "CONFIGURED" /\ ~HasPhy
    <2>1. /\ state' = state /\ view' = [view EXCEPT !.state = state]
          /\ exchange'.req = "PNF_START" /\ exchange'.answer = NONE
          /\ UNCHANGED <<rat, link, phys, phy_info_id, p7, p7_config_g>>
      BY <1>3 DEF PnfStart, Exchanged
    <2>2. view' = view
      BY <2>1 DEF Inv, ViewsAgree, TypeOK
    <2> QED
      BY <1>3, <2>1, <2>2, QuietExchange DEF HasPhy
  <1> QED
    BY <1>1, <1>2, <1>3

(* PNF_STOP.request *)
LEMMA PnfStopInv ==
  ASSUME Inv, link = "up", PnfStop
  PROVE Inv'
  <1>1. CASE state # "RUNNING"
    BY <1>1, PnfRefusesInv DEF PnfStop, PnfRequests
  <1>2. CASE state = "RUNNING"
    <2>1. /\ state' = "CONFIGURED" /\ view' = [view EXCEPT !.state = "CONFIGURED"]
          /\ exchange'.req = "PNF_STOP" /\ exchange'.answer # NONE
          /\ UNCHANGED <<link, phys, phy_info_id, p7, p7_config_g>>
      BY <1>2, ResponseIsAnswer DEF PnfStop, Exchanged, PnfRequests
    <2>2. TypeOK'
      BY <2>1 DEF Inv, TypeOK, States
    <2>3. ViewsAgree' /\ DownIsIdle'
      BY <1>2, <2>1 DEF Inv, TypeOK, ViewsAgree, DownIsIdle
    <2>4. PhyInfoInv' /\ FirstUsed'
      BY <2>1 DEF Inv, PhyInfoInv, FirstUsed
    <2>5. RunningAnswers' /\ Answered'
      BY <2>1 DEF RunningAnswers, Answered
    <2> QED
      BY <2>2, <2>3, <2>4, <2>5 DEF Inv
  <1> QED
    BY <1>1, <1>2


(* A request about a PHY is refused for a reason. *)
MayRefuse(kind, id) == state # "RUNNING" \/ ~Known(id) \/ ~InRightState(kind, id)

(* The cases of a request about a PHY. *)
LEMMA PhyRequestCases ==
  ASSUME NEW kind, NEW id, PhyRequest(kind, id)
  PROVE \/ /\ MayRefuse(kind, id)
           /\ PhyRefuses(kind, id, "INVALID_STATE") \/ PhyRefuses(kind, id, "INVALID_CONFIG")
        \/ /\ state = "RUNNING" /\ Known(id) /\ InRightState(kind, id)
           /\ \/ kind = "START" /\ Started(id)
              \/ kind = "CONFIG" /\ Configured(id)
              \/ kind \notin {"START", "CONFIG"} /\ Served(kind, id)
  BY DEF PhyRequest, MayRefuse

(* CONFIG.request of a PHY the PNF knows is refused only in a PNF that is   *)
(* not running, or because the PHY is.                                      *)
LEMMA ConfigRefused ==
  ASSUME Inv, NEW id, Known(id), MayRefuse("CONFIG", id)
  PROVE state # "RUNNING" \/ id \in RunningPhys
  <1>1. PICK k \in DOMAIN phys : phys[k].phy_id = id /\ StateOf(id) = phys[k].state
    BY FindIsUnique DEF Inv, TypeOK
  <1>2. CASE ~InRightState("CONFIG", id)
    BY <1>1, <1>2 DEF InRightState, P4Requests, RunningPhys
  <1> QED
    BY <1>2 DEF MayRefuse

(* Requests about a PHY that are refused, or dropped because nobody knows   *)
(* it or the refusal cannot be packed.                                      *)
LEMMA PhyRefusesInv ==
  ASSUME Inv, link = "up", NEW kind \in PhyRequests, NEW id \in PhyIds, MayRefuse(kind, id),
         NEW code \in {"INVALID_STATE", "INVALID_CONFIG"}, PhyRefuses(kind, id, code)
  PROVE Inv'
  <1>1. /\ exchange'.req = kind /\ exchange'.known = (kind \in PnfRequests \/ Known(id))
        /\ exchange'.phy_id = id
        /\ exchange'.answer = IF Sendable(kind, id) THEN Response(kind, id, code) ELSE NONE
        /\ UNCHANGED <<rat, link, state, phys, phy_info_id, p7, p7_config_g, view>>
    BY DEF PhyRefuses, Exchanged
  <1>2. Response(kind, id, code) # NONE /\ Response(kind, id, code).code # "OK"
    BY ResponseIsAnswer
  <1>3. CASE Sendable(kind, id)
    BY <1>1, <1>2, <1>3, QuietExchange
  <1>4. CASE ~Sendable(kind, id) /\ ~Known(id)
    <2>1. kind \notin PnfRequests
      BY DEF PhyRequests, P4Requests, PnfRequests
    <2> QED
      BY <1>1, <1>4, <2>1, QuietExchange
  <1>5. CASE ~Sendable(kind, id) /\ Known(id)
    <2>1. rat = "NR" /\ kind = "CONFIG"
      BY <1>5 DEF Sendable
    <2>2. state # "RUNNING" \/ id \in RunningPhys
      BY <1>5, <2>1, ConfigRefused
    <2> QED
      BY <1>1, <1>5, <2>1, <2>2, QuietExchange
  <1> QED
    BY <1>3, <1>4, <1>5

(* START.request of a PHY that may start. *)
LEMMA StartedInv ==
  ASSUME Inv, link = "up", state = "RUNNING", NEW id, Known(id), Started(id)
  PROVE Inv'
  <1>1. id \in PhyIds
    BY FindIsUnique DEF Inv, TypeOK
  <1>2. /\ p7' = Append(p7, id) /\ p7_config_g' = Len(p7')
        /\ phys' = WithState(phys, id, "RUNNING")
        /\ view' = [view EXCEPT !.phys = WithState(view.phys, id, "RUNNING")]
        /\ exchange'.req = "START" /\ exchange'.answer # NONE
        /\ UNCHANGED <<link, state, phy_info_id>>
    BY <1>1, ResponseIsAnswer DEF Started, Exchanged, PhyRequests
  <1>3. phys \in Seq(PhyRecords) /\ view.phys \in Seq(PhyRecords) /\ "RUNNING" \in States
    BY DEF Inv, TypeOK, States
  <1> DEFINE new == WithState(phys, id, "RUNNING")
  <1>4. /\ new \in Seq(PhyRecords) /\ DOMAIN new = DOMAIN phys
        /\ \A k \in DOMAIN phys : new[k].phy_id = phys[k].phy_id
        /\ \A k \in DOMAIN phys : \/ new[k].state = phys[k].state
                                  \/ phys[k].phy_id = id /\ \A j \in 1..(k - 1) : phys[j].phy_id # id
    BY <1>3, WithStateFacts
  <1>5. WithState(view.phys, id, "RUNNING") \in Seq(PhyRecords)
    BY <1>3, WithStateFacts
  <1> HIDE DEF new
  <1>6. phys' = new
    BY <1>2 DEF new
  <1>7. TypeOK'
    <2>1. p7' \in Seq(PhyIds) /\ p7_config_g' \in 0 .. Len(p7')
      BY <1>1, <1>2 DEF Inv, TypeOK
    <2>2. view' \in [state : States, phys : Seq(PhyRecords)]
      BY <1>2, <1>5 DEF Inv, TypeOK
    <2> QED
      BY <1>2, <1>4, <1>6, <2>1, <2>2 DEF Inv, TypeOK
  <1>8. ViewsAgree' /\ DownIsIdle'
    BY <1>2 DEF Inv, TypeOK, ViewsAgree, DownIsIdle
  <1>9. PhyInfoInv'
    <2>1. \E k \in DOMAIN phys : phys[k].phy_id = phy_info_id
      BY FindIsUnique DEF Inv, TypeOK, PhyInfoInv
    <2> QED
      BY <1>2, <1>4, <1>6, <2>1 DEF PhyInfoInv
  <1>10. FirstUsed'
    BY <1>3, <1>4, <1>6 DEF Inv, FirstUsed
  <1>11. RunningAnswers' /\ Answered'
    BY <1>2 DEF RunningAnswers, Answered
  <1> QED
    BY <1>7, <1>8, <1>9, <1>10, <1>11 DEF Inv

(* CONFIG.request: the record of the proxy's PHY changes, and the answer is *)
(* about it.                                                                *)
LEMMA ConfiguredInv ==
  ASSUME Inv, link = "up", state = "RUNNING", NEW id, Known(id), Configured(id)
  PROVE Inv'
  <1> DEFINE new == WithState(phys, phy_info_id, "CONFIGURED")
  <1>1. phys \in Seq(PhyRecords) /\ view.phys \in Seq(PhyRecords) /\ "CONFIGURED" \in States /\ phys # <<>>
    BY FindIsUnique DEF Inv, TypeOK, States
  <1>2. \E k \in DOMAIN phys : phys[k].phy_id = phy_info_id
    BY <1>1 DEF Inv, PhyInfoInv
  <1>3. Known(phy_info_id) /\ phy_info_id \in PhyIds
    BY <1>1, <1>2, FindFinds, FindIsUnique
  <1>4. /\ phys' = WithState(phys, phy_info_id, "CONFIGURED")
        /\ view' = [view EXCEPT !.phys = WithState(view.phys, phy_info_id, "CONFIGURED")]
        /\ exchange'.answer # NONE
        /\ UNCHANGED <<link, state, phy_info_id, p7, p7_config_g>>
    BY <1>3, ResponseIsAnswer DEF Configured, Exchanged, PhyRequests
  <1>5. /\ new \in Seq(PhyRecords) /\ DOMAIN new = DOMAIN phys
        /\ \A k \in DOMAIN phys : new[k].phy_id = phys[k].phy_id
        /\ \A k \in DOMAIN phys :
             \/ new[k].state = phys[k].state
             \/ phys[k].phy_id = phy_info_id /\ \A j \in 1..(k - 1) : phys[j].phy_id # phy_info_id
    BY <1>1, WithStateFacts
  <1>6. WithState(view.phys, phy_info_id, "CONFIGURED") \in Seq(PhyRecords)
    BY <1>1, WithStateFacts
  <1> HIDE DEF new
  <1>7. phys' = new
    BY <1>4 DEF new
  <1>8. TypeOK'
    <2>1. view' \in [state : States, phys : Seq(PhyRecords)]
      BY <1>4, <1>6 DEF Inv, TypeOK
    <2> QED
      BY <1>4, <1>5, <1>7, <2>1 DEF Inv, TypeOK
  <1>9. ViewsAgree' /\ DownIsIdle'
    BY <1>4 DEF Inv, TypeOK, ViewsAgree, DownIsIdle
  <1>10. PhyInfoInv'
    BY <1>2, <1>4, <1>5, <1>7 DEF PhyInfoInv
  <1>11. FirstUsed'
    BY <1>1, <1>5, <1>7 DEF Inv, FirstUsed
  <1>12. RunningAnswers' /\ Answered'
    <2>1. phys' # <<>>
      BY <1>1, <1>5, <1>7
    <2> QED
      BY <1>4, <2>1 DEF RunningAnswers, Answered
  <1> QED
    BY <1>8, <1>9, <1>10, <1>11, <1>12 DEF Inv

(* The other requests of a PHY in the right state. *)
LEMMA ServedInv ==
  ASSUME Inv, link = "up", state = "RUNNING", NEW kind \in PhyRequests, NEW id \in PhyIds, Known(id),
         InRightState(kind, id), Served(kind, id)
  PROVE Inv'
  <1>1. PICK k \in DOMAIN phys : phys[k].phy_id = id /\ StateOf(id) = phys[k].state /\ phys # <<>>
                                 /\ \A j \in 1..(k - 1) : phys[j].phy_id # id
    BY FindIsUnique DEF Inv, TypeOK
  <1>2. /\ exchange'.req = kind /\ exchange'.phy_id = id
        /\ exchange'.answer = IF kind = "STOP" THEN NONE ELSE Response(kind, id, "OK")
        /\ UNCHANGED <<rat, link, state, phys, phy_info_id, p7, p7_config_g, view>>
    BY DEF Served, Exchanged
  <1>3. CASE kind = "STOP"
    <2>1. phys[k].state # "RUNNING"
      BY <1>1, <1>3 DEF InRightState, P4Requests
    <2>2. id \notin RunningPhys
      <3> SUFFICES ASSUME NEW j \in DOMAIN phys, phys[j].state = "RUNNING", phys[j].phy_id = id
                   PROVE FALSE
        BY DEF RunningPhys
      <3>1. \A i \in 1..(j - 1) : phys[i].phy_id # id
        BY DEF Inv, FirstUsed
      <3>2. j \in Nat /\ k \in Nat /\ j >= 1 /\ k >= 1
        BY DEF Inv, TypeOK
      <3>3. j = k
        BY <1>1, <3>1, <3>2
      <3> QED
        BY <2>1, <3>3
    <2> QED
      BY <1>2, <1>3, <2>2, QuietExchange
  <1>4. CASE kind # "STOP"
    <2>1. exchange'.answer # NONE
      BY <1>2, <1>4, ResponseIsAnswer
    <2> QED
      BY <1>1, <1>2, <2>1, QuietExchange
  <1> QED
    BY <1>3, <1>4

(* Requests about a PHY. *)
LEMMA PhyRequestInv ==
  ASSUME Inv, link = "up", NEW kind \in PhyRequests, NEW id \in PhyIds, PhyRequest(kind, id)
  PROVE Inv'
  BY PhyRequestCases, PhyRefusesInv, StartedInv, ConfiguredInv, ServedInv

(* What an orderly VNF sends next. *)
LEMMA NextOfProcedure ==
  ASSUME OrderlyInv, vnf = "orderly", NextInProcedure # NONE
  PROVE \/ exchange.req = NONE /\ NextInProcedure = "PNF_PARAM"
        \/ /\ exchange.answer # NONE /\ exchange.answer.code = "OK"
           /\ \/ exchange.req = "PNF_PARAM" /\ NextInProcedure = "PNF_CONFIG"
              \/ exchange.req = "PNF_CONFIG" /\ NextInProcedure = "PNF_START"
              \/ exchange.req = "PNF_START" /\ NextInProcedure = "PARAM"
              \/ exchange.req = "PARAM" /\ NextInProcedure = "CONFIG"
              \/ exchange.req = "CONFIG" /\ NextInProcedure = "START"
  <1>1. /\ DOMAIN Procedure = 1 .. 6 /\ Len(Procedure) = 6
        /\ Procedure[1] = "PNF_PARAM" /\ Procedure[2] = "PNF_CONFIG" /\ Procedure[3] = "PNF_START"
        /\ Procedure[4] = "PARAM" /\ Procedure[5] = "CONFIG" /\ Procedure[6] = "START"
    BY DEF Procedure
  <1>2. CASE exchange.req = NONE
    BY <1>1, <1>2 DEF NextInProcedure
  <1>3. CASE exchange.req # NONE
    <2> DEFINE k == CHOOSE j \in DOMAIN Procedure : Procedure[j] = exchange.req
    <2>1. \E j \in DOMAIN Procedure : Procedure[j] = exchange.req
      BY <1>1, <1>3 DEF OrderlyInv
    <2>2. k \in 1 .. 6 /\ Procedure[k] = exchange.req
      BY <1>1, <2>1
    <2>3. exchange.answer # NONE /\ exchange.answer.code = "OK" /\ k < 6 /\ NextInProcedure = Procedure[k + 1]
      BY <1>1, <1>3 DEF NextInProcedure
    <2> HIDE DEF k
    <2> QED
      BY <1>1, <2>2, <2>3
  <1> QED
    BY <1>2, <1>3

(* It asks for a PHY that is there. *)
LEMMA OrderlyPhy ==
  ASSUME Inv, OrderlyInv, vnf = "orderly", link = "up", NextInProcedure # NONE, NextInProcedure \in PhyRequests
  PROVE view.phys[1].phy_id \in PhyIds
  <1>1. exchange.req \in {"PNF_START", "PARAM", "CONFIG"} /\ exchange.answer # NONE /\ exchange.answer.code = "OK"
    BY NextOfProcedure DEF PhyRequests, P4Requests
  <1>2. state = "RUNNING" /\ phys # <<>> /\ view.phys = phys
    BY <1>1 DEF Inv, RunningAnswers, ViewsAgree
  <1>3. phys[1] \in PhyRecords
    BY <1>2 DEF Inv, TypeOK
  <1> QED
    BY <1>2, <1>3 DEF PhyRecords

(* The orderly VNF stays in its procedure. *)
LEMMA OrderlyStep == OrderlyInv /\ [Next]_vars => OrderlyInv'
  <1> SUFFICES ASSUME OrderlyInv, [Next]_vars, vnf' = "orderly"
               PROVE exchange'.req \in {NONE, "PNF_PARAM", "PNF_CONFIG", "PNF_START", "PARAM", "CONFIG", "START"}
    BY DEF OrderlyInv
  <1>1. ASSUME NEW kind, NEW id, PhyRequest(kind, id)
        PROVE exchange'.req = kind /\ vnf' = vnf
    BY <1>1, PhyRequestCases DEF PhyRefuses, Started, Configured, Served, Exchanged
  <1>2. PnfParam => exchange'.req = "PNF_PARAM" /\ vnf' = vnf
    BY DEF PnfParam, PnfRefuses, Exchanged
  <1>3. ASSUME NEW list, PnfConfig(list)
        PROVE exchange'.req = "PNF_CONFIG" /\ vnf' = vnf
    BY <1>3 DEF PnfConfig, PnfRefuses, Exchanged
  <1>4. PnfStart => exchange'.req = "PNF_START" /\ vnf' = vnf
    BY DEF PnfStart, PnfRefuses, Exchanged
  <1>5. PnfStop => vnf' = vnf
    BY DEF PnfStop, PnfRefuses
  <1>6. CASE Connect \/ GiveUp \/ Lost \/ UNCHANGED vars
    BY <1>6 DEF OrderlyInv, Connect, GiveUp, Lost, vars, nothing
  <1>7. CASE Request
    BY <1>1, <1>2, <1>3, <1>4, <1>5, <1>7 DEF Request
  <1>8. CASE OrderlyRequest
    <2>1. CASE NextInProcedure \in PhyRequests /\ PhyRequest(NextInProcedure, view.phys[1].phy_id)
      <3>1. exchange'.req = NextInProcedure
        BY <1>1, <2>1
      <3> QED
        BY <1>8, <3>1, NextOfProcedure DEF OrderlyRequest
    <2> QED
      BY <1>2, <1>3, <1>4, <1>8, <2>1 DEF OrderlyRequest
  <1> QED
    BY <1>6, <1>7, <1>8 DEF Next

(* The connection. *)
LEMMA ConnectionInv ==
  ASSUME Inv, Connect \/ GiveUp \/ Lost \/ UNCHANGED vars
  PROVE Inv'
  <1>1. TypeOK'
    <2>1. CASE Connect
      <3>1. view' \in [state : States, phys : Seq(PhyRecords)]
        BY <2>1 DEF Connect, States
      <3> QED
        BY <2>1, <3>1 DEF Inv, TypeOK, Connect
    <2>2. CASE GiveUp \/ Lost \/ UNCHANGED vars
      BY <2>2 DEF Inv, TypeOK, GiveUp, Lost, StateWhenLost, vars, States
    <2> QED
      BY <2>1, <2>2
  <1>2. ViewsAgree' /\ DownIsIdle'
    BY DEF Inv, TypeOK, ViewsAgree, DownIsIdle, Connect, GiveUp, Lost, StateWhenLost, vars
  <1>3. PhyInfoInv' /\ FirstUsed'
    BY DEF Inv, PhyInfoInv, FirstUsed, Connect, GiveUp, Lost, vars
  <1>4. RunningAnswers'
    BY NoneAssumption DEF Inv, RunningAnswers, Connect, GiveUp, Lost, vars, nothing
  <1>5. Answered'
    BY DEF Inv, Answered, RunningPhys, Connect, GiveUp, Lost, vars, nothing
  <1> QED
    BY <1>1, <1>2, <1>3, <1>4, <1>5 DEF Inv

(* Every step keeps the invariant. *)
LEMMA NextInv == Inv /\ OrderlyInv /\ [Next]_vars => Inv'
  <1> SUFFICES ASSUME Inv, OrderlyInv, [Next]_vars PROVE Inv'
    OBVIOUS
  <1>1. CASE Connect \/ GiveUp \/ Lost \/ UNCHANGED vars
    BY <1>1, ConnectionInv
  <1>2. CASE Request
    BY <1>2, PnfParamInv, PnfConfigInv, PnfStartInv, PnfStopInv, PhyRequestInv, PhyAssumption DEF Request
  <1>3. CASE OrderlyRequest
    <2>1. CASE \E id \in PhyIds : PnfConfig(<<id>>)
      <3>1. PICK id \in PhyIds : PnfConfig(<<id>>)
        BY <2>1
      <3>2. <<id>> \in Seq(PhyIds)
        OBVIOUS
      <3> QED
        BY <1>3, <3>1, <3>2, PnfConfigInv DEF OrderlyRequest
    <2>2. CASE NextInProcedure \in PhyRequests /\ PhyRequest(NextInProcedure, view.phys[1].phy_id)
      BY <1>3, <2>2, OrderlyPhy, PhyRequestInv DEF OrderlyRequest
    <2> QED
      BY <1>3, <2>1, <2>2, PnfParamInv, PnfStartInv DEF OrderlyRequest
  <1> QED
    BY <1>1, <1>2, <1>3 DEF Next

(* The inductive invariant holds in every reachable state. *)
LEMMA Invariance == Spec => []Inv
  <1>1. Init => OrderlyInv
    BY DEF Init, OrderlyInv, nothing
  <1> QED
    BY <1>1, InitInv, NextInv, OrderlyStep, PTL DEF Spec

(* The VNF's view of the PNF and its PHYs is right on every connection, for *)
(* any lists of PHYs and any requests.                                      *)
THEOREM VnfViewIsRight == Spec => []ViewsAgree
  <1>1. Inv => ViewsAgree
    BY DEF Inv
  <1> QED
    BY <1>1, Invariance, PTL

(* The PNF leaves no request unanswered but the three the property names,  *)
(* for any lists of PHYs, repeated ids included, and any requests.          *)
THEOREM RequestsAreAnswered == Spec => []Answered
  <1>1. Inv => Answered
    BY DEF Inv
  <1> QED
    BY <1>1, Invariance, PTL


-----------------------------------------------------------------------------
(* One PHY at a time.  The proxy publishes one P7 instance for the one PHY  *)
(* it keeps, so this part is about VNFs that list at most one.              *)

OnePhy == \A list \in PhyLists : Len(list) <= 1

OneRecord == Len(phys) <= 1

(* The PHY that runs, if there is only one record. *)
LEMMA OneRunning ==
  ASSUME phys \in Seq(PhyRecords), OneRecord
  PROVE /\ \A id : id \in RunningPhys <=> Len(phys) = 1 /\ phys[1].state = "RUNNING" /\ phys[1].phy_id = id
        /\ \A id : Known(id) => Len(phys) = 1 /\ phys[1].phy_id = id /\ StateOf(id) = phys[1].state
  <1>0. Len(phys) \in Nat /\ Len(phys) <= 1 /\ DOMAIN phys = 1 .. Len(phys)
    BY DEF OneRecord
  <1>1. \A k \in DOMAIN phys : k = 1 /\ Len(phys) = 1
    BY <1>0
  <1>2. Len(phys) = 1 => 1 \in DOMAIN phys
    OBVIOUS
  <1>3. \A id : id \in RunningPhys <=> Len(phys) = 1 /\ phys[1].state = "RUNNING" /\ phys[1].phy_id = id
    BY <1>1, <1>2 DEF RunningPhys
  <1>4. \A id : Known(id) => Len(phys) = 1 /\ phys[1].phy_id = id /\ StateOf(id) = phys[1].state
    BY <1>1, FindIsUnique
  <1> QED
    BY <1>3, <1>4

(* Steps that leave PHYs and P7 instances alone. *)
LEMMA OneUnchanged ==
  ASSUME OneRecord, RunningIsPublished, UNCHANGED <<phys, p7, p7_config_g>>
  PROVE /\ OneRecord' /\ RunningIsPublished'
        /\ \A id \in RunningPhys : id \in RunningPhys'
  <1>1. RunningPhys' = RunningPhys
    BY DEF RunningPhys
  <1> QED
    BY <1>1 DEF OneRecord, RunningIsPublished

(* New records are not running. *)
LEMMA OneConfig ==
  ASSUME Inv, OneRecord, RunningIsPublished, NEW list \in Seq(PhyIds), Len(list) <= 1, PnfConfig(list)
  PROVE OneRecord' /\ RunningIsPublished' /\ exchange'.req = "PNF_CONFIG"
  <1>1. exchange'.req = "PNF_CONFIG"
    BY DEF PnfConfig, PnfRefuses, Exchanged
  <1>2. CASE state = "RUNNING"
    BY <1>1, <1>2, OneUnchanged DEF PnfConfig, PnfRefuses
  <1>3. CASE state # "RUNNING"
    <2>1. phys' = Records(list)
      BY <1>3 DEF PnfConfig, NewRecords
    <2>2. OneRecord'
      BY <2>1, RecordsFacts DEF OneRecord
    <2>3. RunningPhys' = {}
      BY <2>1, RecordsFacts DEF RunningPhys
    <2> QED
      BY <1>1, <2>2, <2>3 DEF RunningIsPublished
  <1> QED
    BY <1>2, <1>3

(* The one PHY starts and gets the new instance, or is configured while it  *)
(* is not running.                                                          *)
LEMMA OneRequest ==
  ASSUME Inv, OneRecord, RunningIsPublished, NEW kind, NEW id, PhyRequest(kind, id)
  PROVE /\ OneRecord' /\ RunningIsPublished'
        /\ \A i \in RunningPhys : i \in RunningPhys'
  <1>1. CASE PhyRefuses(kind, id, "INVALID_STATE") \/ PhyRefuses(kind, id, "INVALID_CONFIG") \/ Served(kind, id)
    BY <1>1, OneUnchanged DEF PhyRefuses, Served
  <1>2. phys \in Seq(PhyRecords) /\ {"RUNNING", "CONFIGURED"} \subseteq States /\ p7 \in Seq(PhyIds)
    BY DEF Inv, TypeOK, States
  <1>3. CASE Known(id) /\ Started(id)
    <2>1. phys' = WithState(phys, id, "RUNNING") /\ p7' = Append(p7, id) /\ p7_config_g' = Len(p7')
      BY <1>3 DEF Started
    <2>2. Len(phys) = 1 /\ phys[1].phy_id = id /\ 1 \in DOMAIN phys
      BY <1>2, <1>3, OneRunning
    <2>3. /\ phys' \in Seq(PhyRecords) /\ Len(phys') = Len(phys) /\ phys'[1].phy_id = id
          /\ phys'[1].state = "RUNNING"
      BY <1>2, <2>1, <2>2, WithStateFacts
    <2>4. p7_config_g' = Len(p7) + 1 /\ p7'[p7_config_g'] = id /\ p7_config_g' # 0
      BY <1>2, <2>1
    <2>5. OneRecord'
      BY <2>3 DEF OneRecord
    <2>6. \A i : i \in RunningPhys' <=> i = id
      <3>1. \A i : i \in RunningPhys' <=> Len(phys') = 1 /\ phys'[1].state = "RUNNING" /\ phys'[1].phy_id = i
        BY <2>2, <2>3 DEF RunningPhys
      <3> QED
        BY <2>2, <2>3, <3>1
    <2>7. \A i \in RunningPhys : i = id
      BY <1>2, <2>2, OneRunning
    <2> QED
      BY <2>4, <2>5, <2>6, <2>7 DEF RunningIsPublished
  <1>4. CASE Known(id) /\ InRightState("CONFIG", id) /\ Configured(id)
    <2>1. phys' = WithState(phys, phy_info_id, "CONFIGURED")
      BY <1>4 DEF Configured
    <2>2. Len(phys) = 1 /\ phys[1].phy_id = id /\ phys[1].state # "RUNNING" /\ 1 \in DOMAIN phys
      BY <1>2, <1>4, OneRunning DEF InRightState, P4Requests
    <2>3. phys' \in Seq(PhyRecords) /\ Len(phys') = Len(phys) /\ phys'[1].state # "RUNNING"
      BY <1>2, <2>1, <2>2, WithStateFacts
    <2>4. OneRecord'
      BY <2>3 DEF OneRecord
    <2>5. RunningPhys' = {}
      BY <2>2, <2>3 DEF RunningPhys
    <2>6. RunningPhys = {}
      BY <1>2, <2>2, OneRunning
    <2> QED
      BY <2>4, <2>5, <2>6 DEF RunningIsPublished
  <1> QED
    BY <1>1, <1>3, <1>4, PhyRequestCases

(* Every step. *)
LEMMA OneStep ==
  ASSUME OnePhy, Inv, OneRecord, RunningIsPublished, [Next]_vars
  PROVE /\ OneRecord' /\ RunningIsPublished'
        /\ UNCHANGED vars \/ \A id \in RunningPhys : id \in RunningPhys' \/ exchange'.req = "PNF_CONFIG"
  <1>1. CASE Connect \/ GiveUp \/ Lost \/ UNCHANGED vars
    BY <1>1, OneUnchanged DEF Connect, GiveUp, Lost, vars
  <1>2. CASE PnfParam \/ PnfStart \/ PnfStop
    BY <1>2, OneUnchanged DEF PnfParam, PnfStart, PnfStop, PnfRefuses
  <1>3. ASSUME NEW list \in PhyLists, PnfConfig(list)
        PROVE OneRecord' /\ RunningIsPublished' /\ exchange'.req = "PNF_CONFIG"
    BY <1>3, OneConfig, PhyAssumption DEF OnePhy
  <1>4. ASSUME NEW id \in PhyIds, PnfConfig(<<id>>)
        PROVE OneRecord' /\ RunningIsPublished' /\ exchange'.req = "PNF_CONFIG"
    <2>1. <<id>> \in Seq(PhyIds) /\ Len(<<id>>) <= 1
      OBVIOUS
    <2> QED
      BY <1>4, <2>1, OneConfig
  <1>5. CASE Request
    BY <1>2, <1>3, <1>5, OneRequest DEF Request
  <1>6. CASE OrderlyRequest
    BY <1>2, <1>4, <1>6, OneRequest DEF OrderlyRequest
  <1> QED
    BY <1>1, <1>5, <1>6 DEF Next

(* A running PHY owns the published P7 instance, across any number of       *)
(* losses, new configurations and starts, if the VNF lists one PHY.         *)
THEOREM RunningPhyIsPublished ==
  ASSUME OnePhy
  PROVE Spec => []RunningIsPublished
  <1>1. Init => OneRecord /\ RunningIsPublished
    BY DEF Init, OneRecord, RunningIsPublished, RunningPhys
  <1>2. Inv /\ OneRecord /\ RunningIsPublished /\ [Next]_vars => OneRecord' /\ RunningIsPublished'
    BY OneStep
  <1> QED
    BY <1>1, <1>2, Invariance, PTL DEF Spec

(* Only PNF_CONFIG takes a running PHY out of its state, if the VNF lists   *)
(* one PHY.                                                                 *)
THEOREM RunningPhyStays ==
  ASSUME OnePhy
  PROVE Spec => RunningNotConfigured
  <1>1. Init => OneRecord /\ RunningIsPublished
    BY DEF Init, OneRecord, RunningIsPublished, RunningPhys
  <1>2. Inv /\ OneRecord /\ RunningIsPublished /\ [Next]_vars =>
          /\ OneRecord' /\ RunningIsPublished'
          /\ [\A id \in RunningPhys : id \in RunningPhys' \/ exchange'.req = "PNF_CONFIG"]_vars
    BY OneStep
  <1> QED
    BY <1>1, <1>2, Invariance, PTL DEF Spec, RunningNotConfigured

=============================================================================
