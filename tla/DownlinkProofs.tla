--------------------------- MODULE DownlinkProofs ---------------------------
(* The safety of the downlink for any number of UEs, requests and ticks.    *)
EXTENDS Downlink, TLAPS

InLoop(t) == pc[t] \in {"address", "sendto", "unlock_proxy"}

(* Where each thread can be: the P5 thread sends nothing, the task exists   *)
(* from the start.                                                          *)
Places ==
  /\ pc["P5"] \in {"start", "publish", "lock_P7", "in_buffer", "rest"}
  /\ pc["P7"] \in {"absent", "init", "rest", "lock_proxy", "address", "sendto", "unlock_proxy",
                   "lock_P7", "in_buffer"}
  /\ pc["task"] \in {"rest", "lock_proxy", "address", "sendto", "unlock_proxy", "lock_P7", "in_buffer"}
  /\ pc["P5"] = "start" <=> pc["P7"] = "absent"

(* Whoever is in the loop over the UEs owns the proxy's mutex. *)
LoopInv == \A t \in Threads : InLoop(t) <=> mutex = t

(* Between the assignment of address_tx_ and sendto. *)
AddressInv == \A t \in Threads : pc[t] \in {"address", "sendto"} =>
                /\ ue_idx[t] \in UEs
                /\ pc[t] = "sendto" => address_tx_ = ue_idx[t]

(* What the P7 thread and the task work on. *)
MessageInv ==
  /\ pc["P7"] \notin {"absent", "init", "rest"} =>
       /\ msg["P7"] \in Messages /\ msg["P7"].kind \in Kinds /\ msg["P7"].n = requests
       /\ pc["P7"] \in {"lock_P7", "in_buffer"} => msg["P7"].kind = "buffered"
       /\ msg["P7"].kind = "direct" => msg["P7"].done
       /\ pc["P7"] \in {"lock_proxy", "address", "sendto", "unlock_proxy"} => msg["P7"].done
       /\ pc["P7"] = "lock_P7" => ~msg["P7"].done
  /\ pc["task"] \notin {"rest"} =>
       msg["task"] \in Messages /\ msg["task"].kind = "tick" /\ msg["task"].n = ticks /\ msg["task"].done

(* The owner of the library's mutex is the thread in the buffers, while the *)
(* mutex has not been initialised under its owner.                          *)
OwnerInv ==
  /\ pc["P7"] \in {"absent", "init"} => ~clobbered
  /\ ~clobbered => \A t \in Threads : InBuffer(t) <=> p7_mutex = t

(* The P7 thread has a message that it has not begun to send. *)
Pending == pc["P7"] \in {"lock_P7", "lock_proxy"} \/ (pc["P7"] = "in_buffer" /\ ~msg["P7"].done)

(* Received messages carry numbers that were given out, and those of the    *)
(* pending messages are not among them.                                     *)
NumberInv ==
  \A u \in UEs : \A k \in DOMAIN received[u] :
    LET m == received[u][k].msg
    IN  /\ m.kind \in Kinds => m.n <= requests /\ (Pending => m.n # requests)
        /\ m.kind = "tick" => m.n <= ticks /\ (pc["task"] = "lock_proxy" => m.n # ticks)

(* No UE gets a message twice. *)
OnceInv ==
  \A u \in UEs : \A j, k \in DOMAIN received[u] :
    received[u][j].msg = received[u][k].msg => j = k

(* The message of the current loop is the last one of the UEs that have had *)
(* their turn, and the others do not have it yet.                           *)
LastInv ==
  \A t \in Threads : pc[t] \in {"address", "sendto"} =>
    \A u \in UEs : \A k \in DOMAIN received[u] :
      received[u][k].msg = msg[t] => u < ue_idx[t] /\ k = Len(received[u])

OrderInv == NumberInv /\ OnceInv /\ LastInv /\ SameOrder

Inv == TypeOK /\ Places /\ LoopInv /\ AddressInv /\ MessageInv /\ OwnerInv /\ RightAddress /\ OrderInv

(* The UEs are numbered from 1. *)
LEMMA UeNumbers ==
  /\ 1 \in UEs /\ num_ues \in UEs /\ 1 \in 1 .. num_ues + 1
  /\ \A i \in UEs : i + 1 \in 1 .. num_ues + 1
  /\ \A i \in UEs : i < num_ues => i + 1 \in UEs
  BY DownlinkAssumption DEF UEs

(* What appending one element to a sequence does. *)
LEMMA AppendFacts ==
  ASSUME NEW S, NEW s \in Seq(S), NEW e \in S
  PROVE /\ Append(s, e) \in Seq(S) /\ Len(Append(s, e)) = Len(s) + 1 /\ Len(s) \in Nat
        /\ DOMAIN s = 1 .. Len(s) /\ DOMAIN Append(s, e) = 1 .. Len(s) + 1
        /\ \A i \in DOMAIN s : Append(s, e)[i] = s[i]
        /\ Append(s, e)[Len(s) + 1] = e
  OBVIOUS

(* The elements of a sequence. *)
LEMMA ElementType ==
  ASSUME NEW S, NEW s \in Seq(S), NEW k \in DOMAIN s
  PROVE s[k] \in S
  OBVIOUS

(* A datagram carries a message for a UE. *)
LEMMA ReceivedType ==
  ASSUME TypeOK, NEW u \in UEs, NEW k \in DOMAIN received[u]
  PROVE received[u][k].msg \in Messages /\ received[u][k].for \in UEs
  <1>1. received[u] \in Seq(Datagrams)
    BY DEF TypeOK
  <1>2. received[u][k] \in Datagrams
    BY <1>1, ElementType
  <1> QED
    BY <1>2 DEF Datagrams

(* Nothing is received before the first broadcast. *)
LEMMA InitInv == Init => Inv
  <1> SUFFICES ASSUME Init PROVE Inv
    OBVIOUS
  <1> USE DownlinkAssumption DEF Threads
  <1>1. TypeOK
    <2>1. pc["P5"] = "start" /\ pc["P7"] = "absent" /\ pc["task"] = "rest"
      BY DEF Init
    <2>2. pc \in [Threads -> {"start", "absent", "rest"}]
      BY DEF Init
    <2>3. received \in [UEs -> Seq(Datagrams)]
      BY DEF Init
    <2> QED
      BY <2>1, <2>2, <2>3, UeNumbers DEF Init, TypeOK
  <1>2. Places /\ LoopInv /\ AddressInv /\ MessageInv
    BY DEF Init, Places, LoopInv, InLoop, AddressInv, MessageInv
  <1>3. OwnerInv
    BY DEF Init, OwnerInv, InBuffer
  <1>4. RightAddress
    BY DEF Init, RightAddress
  <1>5. OrderInv
    BY DEF Init, OrderInv, NumberInv, OnceInv, LastInv, SameOrder
  <1> QED
    BY <1>1, <1>2, <1>3, <1>4, <1>5 DEF Inv

(* Steps that send nothing and begin no loop keep the order, if the number  *)
(* of a message that becomes pending is new.                                *)
LEMMA QuietOrder ==
  ASSUME Inv,
         received' = received,
         requests' \in Nat /\ requests <= requests' /\ ticks' \in Nat /\ ticks <= ticks',
         Pending' => Pending \/ requests < requests',
         pc'["task"] = "lock_proxy" => pc["task"] = "lock_proxy" \/ ticks < ticks',
         \A t \in Threads : pc'[t] \in {"address", "sendto"} =>
           pc[t] \in {"address", "sendto"} /\ msg'[t] = msg[t] /\ ue_idx'[t] = ue_idx[t]
  PROVE OrderInv'
  <1>1. NumberInv'
    <2>1. \A u \in UEs : \A k \in DOMAIN received[u] : received[u][k].msg \in Messages
      BY ReceivedType DEF Inv
    <2> SUFFICES ASSUME NEW u \in UEs, NEW k \in DOMAIN received[u], NEW m \in Messages,
                        m = received[u][k].msg
                 PROVE /\ m.kind \in Kinds => m.n <= requests' /\ (Pending' => m.n # requests')
                       /\ m.kind = "tick" => m.n <= ticks' /\ (pc'["task"] = "lock_proxy" => m.n # ticks')
      BY <2>1 DEF NumberInv
    <2>2. /\ m.kind \in Kinds => m.n <= requests /\ (Pending => m.n # requests)
          /\ m.kind = "tick" => m.n <= ticks /\ (pc["task"] = "lock_proxy" => m.n # ticks)
      BY DEF Inv, OrderInv, NumberInv
    <2>3. m.n \in Nat /\ requests \in Nat /\ ticks \in Nat
      BY DEF Inv, TypeOK, Messages
    <2>4. m.kind \in Kinds => m.n <= requests' /\ (requests < requests' => m.n # requests')
      BY <2>2, <2>3
    <2>5. m.kind = "tick" => m.n <= ticks' /\ (ticks < ticks' => m.n # ticks')
      BY <2>2, <2>3
    <2>6. (requests < requests' \/ requests' = requests) /\ (ticks < ticks' \/ ticks' = ticks)
      BY <2>3
    <2> QED
      BY <2>2, <2>4, <2>5, <2>6, Zenon
  <1>2. OnceInv' /\ SameOrder'
    <2>1. OnceInv /\ SameOrder
      BY DEF Inv, OrderInv
    <2>2. OnceInv'
      BY <2>1 DEF OnceInv
    <2>3. SameOrder'
      BY <2>1 DEF SameOrder
    <2> QED
      BY <2>2, <2>3
  <1>3. LastInv'
    BY DEF Inv, OrderInv, LastInv
  <1> QED
    BY <1>1, <1>2, <1>3 DEF OrderInv

(* A thread enters the loop when nobody is in it; its message is new. *)
LEMMA LockProxyInv ==
  ASSUME Inv, NEW t \in Threads, LockProxy(t)
  PROVE Inv'
  <1> USE DownlinkAssumption DEF Threads, LockProxy, Goto, TakeMutex
  <1>0. t \in {"P7", "task"} /\ mutex = NONE /\ msg[t] \in Messages
        /\ (t = "P7" => msg[t].kind \in Kinds /\ msg[t].n = requests)
        /\ (t = "task" => msg[t].kind = "tick" /\ msg[t].n = ticks)
    BY DEF Inv, TypeOK, Places, LoopInv, InLoop, MessageInv
  <1>1. TypeOK'
    BY UeNumbers DEF Inv, TypeOK
  <1>2. Places' /\ LoopInv'
    BY <1>0 DEF Inv, TypeOK, Places, LoopInv, InLoop
  <1>3. AddressInv'
    BY <1>0, UeNumbers DEF Inv, TypeOK, Places, LoopInv, InLoop, AddressInv
  <1>4. MessageInv'
    BY DEF Inv, TypeOK, Places, MessageInv
  <1>5. OwnerInv'
    BY DEF Inv, TypeOK, Places, MessageInv, OwnerInv, InBuffer
  <1>6. RightAddress'
    BY DEF Inv, RightAddress
  <1>7. NumberInv'
    BY DEF Inv, TypeOK, Places, OrderInv, NumberInv, Pending
  <1>8. OnceInv' /\ SameOrder'
    <2>1. OnceInv /\ SameOrder
      BY DEF Inv, OrderInv
    <2>2. OnceInv'
      BY <2>1 DEF OnceInv
    <2>3. SameOrder'
      BY <2>1 DEF SameOrder
    <2> QED
      BY <2>2, <2>3
  <1>9. LastInv'
    <2>1. \A s \in Threads : pc'[s] \in {"address", "sendto"} => s = t /\ msg'[s] = msg[t]
      BY <1>0 DEF Inv, TypeOK, LoopInv, InLoop
    <2>2. \A u \in UEs : \A k \in DOMAIN received[u] : received[u][k].msg # msg[t]
      <3>1. Pending \/ t # "P7"
        BY DEF Pending
      <3> QED
        BY <1>0, <3>1 DEF Inv, OrderInv, NumberInv
    <2> QED
      BY <2>1, <2>2 DEF LastInv
  <1> QED
    BY <1>1, <1>2, <1>3, <1>4, <1>5, <1>6, <1>7, <1>8, <1>9 DEF Inv, OrderInv

(* The loop of a thread passes to the next UE and leaves the datagrams      *)
(* alone, or appends its own at the UE whose turn it is.                    *)
LEMMA SendControl ==
  ASSUME Inv, NEW t \in Threads, Send(t)
  PROVE /\ TypeOK' /\ Places' /\ LoopInv' /\ AddressInv' /\ MessageInv' /\ OwnerInv'
        /\ t \in {"P7", "task"} /\ msg[t] \in Messages /\ ue_idx[t] \in UEs
        /\ \/ received' = received
           \/ received' = [received EXCEPT ![ue_idx[t]] = Append(@, [msg |-> msg[t], for |-> ue_idx[t]])]
  <1> USE DownlinkAssumption DEF Threads
  <1> DEFINE w == ue_idx[t]
             e == [msg |-> msg[t], for |-> w]
  <1>0. /\ t \in {"P7", "task"} /\ msg[t] \in Messages /\ w \in UEs
        /\ \/ received' = received
           \/ received' = [received EXCEPT ![w] = Append(@, e)]
        /\ w = num_ues \/ w + 1 \in UEs
    <2>1. t \in {"P7", "task"} /\ msg[t] \in Messages /\ w \in UEs /\ address_tx_ = w
      BY DEF Inv, Places, AddressInv, MessageInv, Send
    <2>2. w = num_ues \/ w + 1 \in UEs
      BY <2>1, UeNumbers DEF UEs
    <2> QED
      BY <2>1, <2>2 DEF Send
  <1>1. received' \in [UEs -> Seq(Datagrams)]
    <2>1. received \in [UEs -> Seq(Datagrams)] /\ received[w] \in Seq(Datagrams)
      BY <1>0 DEF Inv, TypeOK
    <2>2. e \in Datagrams
      BY <1>0 DEF Datagrams
    <2>3. Append(received[w], e) \in Seq(Datagrams)
      BY <2>1, <2>2, AppendFacts
    <2> HIDE DEF e
    <2> QED
      BY <1>0, <2>1, <2>3
  <1>2. /\ pc[t] = "sendto" /\ pc'[t] \in {"address", "unlock_proxy"}
        /\ pc' = [pc EXCEPT ![t] = pc'[t]]
        /\ pc'[t] = "address" => w + 1 \in UEs
        /\ ue_idx' = [ue_idx EXCEPT ![t] = w + 1]
        /\ UNCHANGED <<msg, p7_config_g, p7_mutex, clobbered, mutex, address_tx_, requests, ticks>>
    BY <1>0, UeNumbers DEF Inv, TypeOK, Send, Goto, MoreUes
  <1> HIDE DEF e
  <1>3. TypeOK'
    <2>1. w + 1 \in 1 .. num_ues + 1
      BY <1>0, UeNumbers
    <2>2. ue_idx' \in [Threads -> 1 .. num_ues + 1]
      BY <2>1, <1>2 DEF Inv, TypeOK
    <2>3. pc' \in [Threads -> {"start", "publish", "absent", "init", "rest", "lock_proxy", "address", "sendto",
                               "unlock_proxy", "lock_P7", "in_buffer"}]
      BY <1>2 DEF Inv, TypeOK
    <2> QED
      BY <1>1, <1>2, <2>2, <2>3 DEF Inv, TypeOK
  <1>4. Places' /\ LoopInv'
    BY <1>0, <1>2 DEF Inv, TypeOK, Places, LoopInv, InLoop
  <1>5. AddressInv'
    BY <1>0, <1>2, UeNumbers DEF Inv, TypeOK, Places, LoopInv, InLoop, AddressInv
  <1>6. MessageInv'
    BY <1>0, <1>2 DEF Inv, TypeOK, Places, MessageInv
  <1>7. OwnerInv'
    BY <1>0, <1>2 DEF Inv, TypeOK, Places, MessageInv, OwnerInv, InBuffer
  <1> QED
    BY <1>0, <1>3, <1>4, <1>5, <1>6, <1>7 DEF e

(* The message that is appended is at no later UE, and the last one of the  *)
(* earlier UEs: the order stays the same for all.                           *)
LEMMA AppendOrder ==
  ASSUME Inv, TypeOK', NEW w \in UEs, NEW e \in Datagrams,
         \A u \in UEs : u # w => received'[u] = received[u],
         received'[w] = Append(received[w], e),
         \A u \in UEs : \A k \in DOMAIN received[u] :
           received[u][k].msg = e.msg => u < w /\ k = Len(received[u])
  PROVE OnceInv' /\ SameOrder'
  <1> DEFINE n == Len(received[w])
             M(u, k) == received[u][k].msg
             N(u, k) == received'[u][k].msg
  <1>1. /\ \A u \in UEs : received[u] \in Seq(Datagrams) /\ received'[u] \in Seq(Datagrams)
        /\ \A u \in UEs : u # w => received'[u] = received[u]
        /\ received'[w] = Append(received[w], e)
    BY DEF Inv, TypeOK
  <1>2. /\ n \in Nat /\ DOMAIN received[w] = 1 .. n /\ DOMAIN received'[w] = 1 .. n + 1
        /\ \A k \in 1 .. n : N(w, k) = M(w, k)
        /\ N(w, n + 1) = e.msg
    BY <1>1, AppendFacts
  <1>3. \A u \in UEs : Len(received[u]) \in Nat /\ DOMAIN received[u] = 1 .. Len(received[u])
    BY <1>1
  <1>4. \A u \in UEs : u # w => DOMAIN received'[u] = DOMAIN received[u] /\ \A k \in DOMAIN received[u] : N(u, k) = M(u, k)
    BY <1>1
  <1>5. \A u \in UEs : \A k \in DOMAIN received[u] : M(u, k) = e.msg => u < w /\ k = Len(received[u])
    OBVIOUS
  <1>6. \A k \in 1 .. n : M(w, k) # e.msg
    BY <1>2, <1>5 DEF UEs
  <1>7. \A u \in UEs : \A j, k \in DOMAIN received[u] : M(u, j) = M(u, k) => j = k
    BY DEF Inv, OrderInv, OnceInv
  <1>8. \A u, v \in UEs : \A i, j \in DOMAIN received[u] : \A k, l \in DOMAIN received[v] :
          i < j /\ M(u, i) = M(v, k) /\ M(u, j) = M(v, l) => k < l
    BY DEF Inv, OrderInv, SameOrder
  <1> HIDE DEF n, M, N
  <1>9. \A u \in UEs : \A j, k \in DOMAIN received'[u] : N(u, j) = N(u, k) => j = k
    BY <1>2, <1>4, <1>6, <1>7
  <1>10. ASSUME NEW u \in UEs, NEW v \in UEs, NEW i \in DOMAIN received'[u], NEW j \in DOMAIN received'[u],
                NEW k \in DOMAIN received'[v], NEW l \in DOMAIN received'[v],
                i < j, N(u, i) = N(v, k), N(u, j) = N(v, l)
         PROVE k < l
    <2>1. CASE u = v
      BY <2>1, <1>9, <1>10
    <2>2. CASE u # w /\ v # w
      BY <2>2, <1>4, <1>8, <1>10
    <2>3. CASE u = w /\ v # w
      <3>1. i \in 1 .. n /\ N(u, i) = M(w, i) /\ k \in DOMAIN received[v] /\ l \in DOMAIN received[v]
            /\ N(v, k) = M(v, k) /\ N(v, l) = M(v, l)
        BY <2>3, <1>2, <1>4, <1>10
      <3>2. CASE j \in 1 .. n
        <4>1. N(u, j) = M(u, j) /\ i \in DOMAIN received[u] /\ j \in DOMAIN received[u]
          BY <2>3, <3>1, <3>2, <1>2
        <4>2. M(u, i) = M(v, k) /\ M(u, j) = M(v, l)
          BY <2>3, <3>1, <4>1, <1>10
        <4> QED
          BY <3>1, <4>1, <4>2, <1>8, <1>10, Zenon
      <3>3. CASE j = n + 1
        <4>1. l = Len(received[v]) /\ k # l
          BY <2>3, <3>1, <3>3, <1>2, <1>5, <1>6, <1>10
        <4> QED
          BY <4>1, <3>1, <1>3
      <3> QED
        BY <2>3, <3>2, <3>3, <1>2
    <2>4. CASE u # w /\ v = w
      <3>1. i \in DOMAIN received[u] /\ j \in DOMAIN received[u] /\ N(u, i) = M(u, i) /\ N(u, j) = M(u, j)
        BY <2>4, <1>4
      <3>2. M(u, i) # e.msg
        <4>1. M(u, i) = e.msg => i = Len(received[u])
          BY <3>1, <1>5
        <4>2. Len(received[u]) \in Nat /\ i \in 1 .. Len(received[u]) /\ j \in 1 .. Len(received[u])
          BY <3>1, <1>3
        <4> QED
          BY <4>1, <4>2, <1>10
      <3>3. k \in 1 .. n /\ N(v, k) = M(w, k)
        BY <2>4, <3>1, <3>2, <1>2, <1>10
      <3>4. CASE l \in 1 .. n
        <4>1. N(v, l) = M(v, l) /\ k \in DOMAIN received[v] /\ l \in DOMAIN received[v]
          BY <2>4, <3>3, <3>4, <1>2
        <4>2. M(u, i) = M(v, k) /\ M(u, j) = M(v, l)
          BY <2>4, <3>1, <3>3, <4>1, <1>10
        <4> QED
          BY <3>1, <4>1, <4>2, <1>8, <1>10, Zenon
      <3>5. CASE l = n + 1
        BY <3>3, <3>5, <1>2
      <3> QED
        BY <2>4, <3>4, <3>5, <1>2
    <2> QED
      BY <2>1, <2>2, <2>3, <2>4
  <1>11. OnceInv'
    BY <1>9 DEF OnceInv, N
  <1>12. SameOrder'
    <2>1. \A u, v \in UEs : \A i, j \in DOMAIN received'[u] : \A k, l \in DOMAIN received'[v] :
            i < j /\ N(u, i) = N(v, k) /\ N(u, j) = N(v, l) => k < l
      BY <1>10
    <2> QED
      BY <2>1 DEF SameOrder, N
  <1> QED
    BY <1>11, <1>12

(* One datagram is sent, or lost. *)
LEMMA SendInv ==
  ASSUME Inv, NEW t \in Threads, Send(t)
  PROVE Inv'
  <1> DEFINE w == ue_idx[t]
             e == [msg |-> msg[t], for |-> w]
  <1>1. /\ TypeOK' /\ Places' /\ LoopInv' /\ AddressInv' /\ MessageInv' /\ OwnerInv'
        /\ t \in {"P7", "task"} /\ msg[t] \in Messages /\ w \in UEs
        /\ \/ received' = received
           \/ received' = [received EXCEPT ![w] = Append(@, e)]
    BY SendControl
  <1>2. /\ pc[t] = "sendto" /\ ue_idx' = [ue_idx EXCEPT ![t] = w + 1]
        /\ UNCHANGED <<msg, requests, ticks>>
        /\ \A s \in Threads : s # t => pc'[s] = pc[s] /\ pc[s] \notin {"address", "sendto"}
        /\ pc'[t] \in {"address", "unlock_proxy"} /\ ue_idx'[t] = w + 1
    BY DEF Inv, TypeOK, LoopInv, InLoop, Send, Goto
  <1>3. \A u \in UEs : \A k \in DOMAIN received[u] :
          received[u][k].msg = msg[t] => u < w /\ k = Len(received[u])
    BY <1>2 DEF Inv, OrderInv, LastInv
  <1>4. (Pending' => Pending) /\ (pc'["task"] = "lock_proxy" => pc["task"] = "lock_proxy")
    BY <1>1, <1>2 DEF Pending, Threads
  <1>5. CASE received' = received
    <2>1. RightAddress'
      BY <1>5 DEF Inv, RightAddress
    <2>2. NumberInv' 
      BY <1>2, <1>4, <1>5 DEF Inv, OrderInv, NumberInv
    <2>3. OnceInv /\ SameOrder
      BY DEF Inv, OrderInv
    <2>4. OnceInv'
      BY <1>5, <2>3 DEF OnceInv
    <2>5. SameOrder'
      BY <1>5, <2>3 DEF SameOrder
    <2>6. LastInv'
      BY <1>1, <1>2, <1>3, <1>5 DEF LastInv, UEs
    <2> QED
      BY <1>1, <2>1, <2>2, <2>4, <2>5, <2>6 DEF Inv, OrderInv
  <1>6. CASE received' = [received EXCEPT ![w] = Append(@, e)]
    <2>1. e \in Datagrams /\ e.msg = msg[t] /\ e.for = w
      BY <1>1 DEF Datagrams
    <2> HIDE DEF e
    <2>2. OnceInv' /\ SameOrder'
      <3>1. \A u \in UEs : \A k \in DOMAIN received[u] :
              received[u][k].msg = e.msg => u < w /\ k = Len(received[u])
        BY <1>3, <2>1, Zenon
      <3>2. received'[w] = Append(received[w], e) /\ \A u \in UEs : u # w => received'[u] = received[u]
        BY <1>1, <1>6 DEF Inv, TypeOK
      <3> HIDE DEF w
      <3> QED
        BY <1>1, <2>1, <3>1, <3>2, AppendOrder, Zenon
    <2>3. \A u \in UEs : \A k \in DOMAIN received'[u] :
            \/ k \in DOMAIN received[u] /\ received'[u][k] = received[u][k]
               /\ (u # w => Len(received'[u]) = Len(received[u]))
            \/ u = w /\ k = Len(received'[u]) /\ received'[u][k] = e
      <3>1. received[w] \in Seq(Datagrams) /\ received'[w] = Append(received[w], e)
            /\ \A u \in UEs : u # w => received'[u] = received[u]
        BY <1>1, <1>6 DEF Inv, TypeOK
      <3>2. \A k \in DOMAIN received'[w] :
              \/ k \in DOMAIN received[w] /\ received'[w][k] = received[w][k]
              \/ k = Len(received'[w]) /\ received'[w][k] = e
        BY <3>1, <2>1, AppendFacts
      <3> QED
        BY <3>1, <3>2
    <2>4. RightAddress'
      BY <2>1, <2>3 DEF Inv, RightAddress
    <2>5. NumberInv'
      <3>1. /\ msg[t].kind \in Kinds => msg[t].n <= requests /\ ~Pending
            /\ msg[t].kind = "tick" => msg[t].n <= ticks /\ pc["task"] # "lock_proxy"
        BY <1>1, <1>2, DownlinkAssumption DEF Inv, TypeOK, MessageInv, Pending
      <3> QED
        BY <1>2, <1>4, <2>1, <2>3, <3>1 DEF Inv, OrderInv, NumberInv
    <2>6. LastInv'
      <3> SUFFICES ASSUME NEW u \in UEs, NEW k \in DOMAIN received'[u], received'[u][k].msg = msg[t]
                   PROVE u < w + 1 /\ k = Len(received'[u])
        BY <1>2, <2>1 DEF LastInv
      <3> QED
        BY <1>1, <1>3, <2>1, <2>3 DEF UEs
    <2> QED
      BY <1>1, <2>2, <2>4, <2>5, <2>6 DEF Inv, OrderInv
  <1> QED
    BY <1>1, <1>5, <1>6

(* address_tx_ is set under the mutex. *)
LEMMA SetAddressInv ==
  ASSUME Inv, NEW t \in Threads, SetAddress(t)
  PROVE Inv'
  <1> USE DownlinkAssumption DEF Threads, SetAddress, Goto
  <1>1. TypeOK'
    BY UeNumbers DEF Inv, TypeOK, AddressInv
  <1>2. Places' /\ LoopInv'
    BY DEF Inv, TypeOK, Places, LoopInv, InLoop
  <1>3. AddressInv'
    BY UeNumbers DEF Inv, TypeOK, Places, LoopInv, InLoop, AddressInv
  <1>4. MessageInv'
    BY DEF Inv, TypeOK, Places, MessageInv
  <1>5. OwnerInv'
    BY DEF Inv, TypeOK, Places, MessageInv, OwnerInv, InBuffer
  <1>6. RightAddress'
    BY DEF Inv, RightAddress
  <1>7. OrderInv'
    BY QuietOrder DEF Inv, TypeOK, Places, MessageInv, Pending
  <1> QED
    BY <1>1, <1>2, <1>3, <1>4, <1>5, <1>6, <1>7 DEF Inv

(* The loop is over. *)
LEMMA UnlockProxyInv ==
  ASSUME Inv, NEW t \in Threads, UnlockProxy(t)
  PROVE Inv'
  <1> USE DownlinkAssumption DEF Threads
  <1>0. /\ \/ t = "task" /\ Goto(t, "lock_P7")
           \/ t = "task" /\ Goto(t, "rest")
           \/ t = "P7" /\ msg["P7"].kind = "buffered" /\ Goto(t, "in_buffer")
           \/ t = "P7" /\ msg["P7"].kind = "direct" /\ Goto(t, "rest")
        /\ pc[t] = "unlock_proxy" /\ mutex' = NONE
        /\ UNCHANGED <<ue_idx, msg, p7_config_g, p7_mutex, clobbered, address_tx_, requests, ticks, received>>
    <2>1. t \in {"P7", "task"} /\ (t = "P7" => msg["P7"].kind \in Kinds) /\ p7_config_g \in BOOLEAN
      BY DEF Inv, TypeOK, Places, MessageInv, UnlockProxy
    <2>2. t = "P7" => msg["P7"].kind = "buffered" \/ msg["P7"].kind = "direct"
      BY <2>1
    <2>3. CASE t = "task" /\ p7_config_g
      BY <2>3 DEF UnlockProxy, ReleaseMutex, Goto
    <2>4. CASE t = "task" /\ ~p7_config_g
      BY <2>4 DEF UnlockProxy, ReleaseMutex, Goto
    <2>5. CASE t = "P7" /\ msg["P7"].kind = "buffered"
      BY <2>5 DEF UnlockProxy, ReleaseMutex, Goto
    <2>6. CASE t = "P7" /\ msg["P7"].kind = "direct"
      BY <2>6 DEF UnlockProxy, ReleaseMutex, Goto
    <2> QED
      BY <2>1, <2>2, <2>3, <2>4, <2>5, <2>6
  <1> USE <1>0 DEF Goto
  <1>1. TypeOK'
    BY UeNumbers DEF Inv, TypeOK
  <1>2. Places' /\ LoopInv'
    BY DEF Inv, TypeOK, Places, LoopInv, InLoop
  <1>3. AddressInv'
    BY UeNumbers DEF Inv, TypeOK, Places, LoopInv, InLoop, AddressInv
  <1>4. MessageInv'
    BY DEF Inv, TypeOK, Places, MessageInv
  <1>5. OwnerInv'
    BY DEF Inv, TypeOK, Places, MessageInv, OwnerInv, InBuffer
  <1>6. RightAddress'
    BY DEF Inv, RightAddress
  <1>7. OrderInv'
    BY QuietOrder DEF Inv, TypeOK, Places, MessageInv, Pending
  <1> QED
    BY <1>1, <1>2, <1>3, <1>4, <1>5, <1>6, <1>7 DEF Inv

(* The mutex of the library is taken when nobody has it. *)
LEMMA LockP7Inv ==
  ASSUME Inv, NEW t \in Threads, LockP7(t)
  PROVE Inv'
  <1> USE DownlinkAssumption DEF Threads, LockP7, Goto, P7MutexFree
  <1>1. TypeOK'
    BY UeNumbers DEF Inv, TypeOK
  <1>2. Places' /\ LoopInv'
    BY DEF Inv, TypeOK, Places, LoopInv, InLoop
  <1>3. AddressInv'
    BY UeNumbers DEF Inv, TypeOK, Places, LoopInv, InLoop, AddressInv
  <1>4. MessageInv'
    BY DEF Inv, TypeOK, Places, MessageInv
  <1>5. OwnerInv'
    BY DEF Inv, TypeOK, Places, MessageInv, OwnerInv, InBuffer
  <1>6. RightAddress'
    BY DEF Inv, RightAddress
  <1>7. OrderInv'
    BY QuietOrder DEF Inv, TypeOK, Places, MessageInv, Pending
  <1> QED
    BY <1>1, <1>2, <1>3, <1>4, <1>5, <1>6, <1>7 DEF Inv

(* A stored request is sent on. *)
LEMMA BroadcastInv ==
  ASSUME Inv, Broadcast
  PROVE Inv'
  <1> USE DownlinkAssumption DEF Threads, Broadcast, Goto
  <1>0. msg'["P7"] \in Messages /\ msg'["P7"].done /\ msg'["P7"].kind = msg["P7"].kind
        /\ msg'["P7"].n = msg["P7"].n /\ \A t \in {"P5", "task"} : msg'[t] = msg[t]
    BY DEF Inv, TypeOK, Places, MessageInv, Messages
  <1>1. TypeOK'
    <2>1. msg' \in [Threads -> Messages \cup {NONE}]
      BY <1>0 DEF Inv, TypeOK
    <2> QED
      BY <2>1, UeNumbers DEF Inv, TypeOK
  <1>2. Places' /\ LoopInv'
    BY DEF Inv, TypeOK, Places, LoopInv, InLoop
  <1>3. AddressInv'
    BY UeNumbers DEF Inv, TypeOK, Places, LoopInv, InLoop, AddressInv
  <1>4. MessageInv'
    BY <1>0 DEF Inv, TypeOK, Places, MessageInv
  <1>5. OwnerInv'
    BY DEF Inv, TypeOK, Places, MessageInv, OwnerInv, InBuffer
  <1>6. RightAddress'
    BY DEF Inv, RightAddress
  <1>7. OrderInv'
    BY QuietOrder DEF Inv, TypeOK, Places, MessageInv, Pending
  <1> QED
    BY <1>1, <1>2, <1>3, <1>4, <1>5, <1>6, <1>7 DEF Inv

(* The mutex of the library is left by its owner. *)
LEMMA UnlockP7Inv ==
  ASSUME Inv, NEW t \in Threads, UnlockP7(t)
  PROVE Inv'
  <1> USE DownlinkAssumption DEF Threads, UnlockP7, Goto
  <1>1. TypeOK'
    BY UeNumbers DEF Inv, TypeOK
  <1>2. Places' /\ LoopInv'
    BY DEF Inv, TypeOK, Places, LoopInv, InLoop
  <1>3. AddressInv'
    BY UeNumbers DEF Inv, TypeOK, Places, LoopInv, InLoop, AddressInv
  <1>4. MessageInv'
    BY DEF Inv, TypeOK, Places, MessageInv
  <1>5. OwnerInv'
    BY DEF Inv, TypeOK, Places, MessageInv, OwnerInv, InBuffer
  <1>6. RightAddress'
    BY DEF Inv, RightAddress
  <1>7. OrderInv'
    BY QuietOrder DEF Inv, TypeOK, Places, MessageInv, Pending
  <1> QED
    BY <1>1, <1>2, <1>3, <1>4, <1>5, <1>6, <1>7 DEF Inv

(* The mutex is initialised; if it has an owner, clobbered says so. *)
LEMMA MessagePumpStartsInv ==
  ASSUME Inv, MessagePumpStarts
  PROVE Inv'
  <1> USE DownlinkAssumption DEF Threads, MessagePumpStarts, Goto
  <1>1. TypeOK'
    BY UeNumbers DEF Inv, TypeOK
  <1>2. Places' /\ LoopInv'
    BY DEF Inv, TypeOK, Places, LoopInv, InLoop
  <1>3. AddressInv'
    BY UeNumbers DEF Inv, TypeOK, Places, LoopInv, InLoop, AddressInv
  <1>4. MessageInv'
    BY DEF Inv, TypeOK, Places, MessageInv
  <1>5. OwnerInv'
    BY DEF Inv, TypeOK, Places, MessageInv, OwnerInv, InBuffer
  <1>6. RightAddress'
    BY DEF Inv, RightAddress
  <1>7. OrderInv'
    BY QuietOrder DEF Inv, TypeOK, Places, MessageInv, Pending
  <1> QED
    BY <1>1, <1>2, <1>3, <1>4, <1>5, <1>6, <1>7 DEF Inv

(* A request gets a new number. *)
LEMMA ReceiveRequestInv ==
  ASSUME Inv, ReceiveRequest
  PROVE Inv'
  <1> USE DownlinkAssumption DEF Threads
  <1>0. PICK kind \in Kinds :
          /\ pc["P7"] = "rest" /\ requests' = requests + 1
          /\ msg' = [msg EXCEPT !["P7"] = [kind |-> kind, n |-> requests + 1, done |-> kind = "direct"]]
          /\ Goto("P7", IF kind = "buffered" THEN "lock_P7" ELSE "lock_proxy")
          /\ UNCHANGED <<ue_idx, p7_config_g, p7_mutex, clobbered, mutex, address_tx_, ticks, received>>
    BY DEF ReceiveRequest
  <1> DEFINE m == [kind |-> kind, n |-> requests + 1, done |-> kind = "direct"]
  <1>a. m \in Messages /\ m.kind = kind /\ m.n = requests + 1 /\ (m.done <=> kind = "direct")
    <2>1. requests + 1 \in Nat /\ kind \in Kinds \cup {"tick"} /\ (kind = "direct") \in BOOLEAN
      BY DEF Inv, TypeOK
    <2>2. m \in Messages
      BY <2>1 DEF Messages
    <2> QED
      BY <2>2
  <1>b. msg' = [msg EXCEPT !["P7"] = m]
    BY <1>0
  <1> HIDE DEF m
  <1>c. kind = "buffered" \/ kind = "direct"
    OBVIOUS
  <1> USE <1>0, <1>a, <1>b, <1>c DEF Goto
  <1>1. TypeOK'
    BY UeNumbers DEF Inv, TypeOK
  <1>2. Places' /\ LoopInv'
    BY DEF Inv, TypeOK, Places, LoopInv, InLoop
  <1>3. AddressInv'
    BY UeNumbers DEF Inv, TypeOK, Places, LoopInv, InLoop, AddressInv
  <1>4. MessageInv'
    BY DEF Inv, TypeOK, Places, MessageInv
  <1>5. OwnerInv'
    BY DEF Inv, TypeOK, Places, MessageInv, OwnerInv, InBuffer
  <1>6. RightAddress'
    BY DEF Inv, RightAddress
  <1>7. OrderInv'
    BY QuietOrder DEF Inv, TypeOK, Places, MessageInv, Pending
  <1> QED
    BY <1>1, <1>2, <1>3, <1>4, <1>5, <1>6, <1>7 DEF Inv

(* A tick gets a new number. *)
LEMMA TickInv ==
  ASSUME Inv, Tick
  PROVE Inv'
  <1> USE DownlinkAssumption DEF Threads
  <1> DEFINE m == [kind |-> "tick", n |-> ticks + 1, done |-> TRUE]
  <1>a. m \in Messages /\ m.kind = "tick" /\ m.n = ticks + 1 /\ m.done
    BY DEF Inv, TypeOK, Messages
  <1>b. /\ msg' = [msg EXCEPT !["task"] = m] /\ pc["task"] = "rest" /\ ticks' = ticks + 1
        /\ Goto("task", "lock_proxy")
        /\ UNCHANGED <<ue_idx, p7_config_g, p7_mutex, clobbered, mutex, address_tx_, requests, received>>
    BY DEF Tick
  <1> HIDE DEF m
  <1> USE <1>a, <1>b DEF Goto
  <1>1. TypeOK'
    BY UeNumbers DEF Inv, TypeOK
  <1>2. Places' /\ LoopInv'
    BY DEF Inv, TypeOK, Places, LoopInv, InLoop
  <1>3. AddressInv'
    BY UeNumbers DEF Inv, TypeOK, Places, LoopInv, InLoop, AddressInv
  <1>4. MessageInv'
    BY DEF Inv, TypeOK, Places, MessageInv
  <1>5. OwnerInv'
    BY DEF Inv, TypeOK, Places, MessageInv, OwnerInv, InBuffer
  <1>6. RightAddress'
    BY DEF Inv, RightAddress
  <1>7. OrderInv'
    BY QuietOrder DEF Inv, TypeOK, Places, MessageInv, Pending
  <1> QED
    BY <1>1, <1>2, <1>3, <1>4, <1>5, <1>6, <1>7 DEF Inv

(* The P7 thread begins. *)
LEMMA CreateP7ThreadInv ==
  ASSUME Inv, CreateP7Thread
  PROVE Inv'
  <1> USE DownlinkAssumption DEF Threads, CreateP7Thread, Goto
  <1>1. TypeOK'
    BY UeNumbers DEF Inv, TypeOK
  <1>2. Places' /\ LoopInv'
    BY DEF Inv, TypeOK, Places, LoopInv, InLoop
  <1>3. AddressInv'
    BY UeNumbers DEF Inv, TypeOK, Places, LoopInv, InLoop, AddressInv
  <1>4. MessageInv'
    BY DEF Inv, TypeOK, Places, MessageInv
  <1>5. OwnerInv'
    BY DEF Inv, TypeOK, Places, MessageInv, OwnerInv, InBuffer
  <1>6. RightAddress'
    BY DEF Inv, RightAddress
  <1>7. OrderInv'
    BY QuietOrder DEF Inv, TypeOK, Places, MessageInv, Pending
  <1> QED
    BY <1>1, <1>2, <1>3, <1>4, <1>5, <1>6, <1>7 DEF Inv

(* The configuration is published. *)
LEMMA PublishConfigInv ==
  ASSUME Inv, PublishConfig
  PROVE Inv'
  <1> USE DownlinkAssumption DEF Threads, PublishConfig, Goto
  <1>1. TypeOK'
    BY UeNumbers DEF Inv, TypeOK
  <1>2. Places' /\ LoopInv'
    BY DEF Inv, TypeOK, Places, LoopInv, InLoop
  <1>3. AddressInv'
    BY UeNumbers DEF Inv, TypeOK, Places, LoopInv, InLoop, AddressInv
  <1>4. MessageInv'
    BY DEF Inv, TypeOK, Places, MessageInv
  <1>5. OwnerInv'
    BY DEF Inv, TypeOK, Places, MessageInv, OwnerInv, InBuffer
  <1>6. RightAddress'
    BY DEF Inv, RightAddress
  <1>7. OrderInv'
    BY QuietOrder DEF Inv, TypeOK, Places, MessageInv, Pending
  <1> QED
    BY <1>1, <1>2, <1>3, <1>4, <1>5, <1>6, <1>7 DEF Inv

(* Every step keeps the invariant. *)
LEMMA NextInv == Inv /\ [Next]_vars => Inv'
  <1> SUFFICES ASSUME Inv, [Next]_vars PROVE Inv'
    OBVIOUS
  <1>1. ASSUME NEW t \in Threads, Step(t) PROVE Inv'
    BY <1>1, LockProxyInv, SetAddressInv, SendInv, UnlockProxyInv, LockP7Inv, UnlockP7Inv DEF Step
  <1>2. CASE StartCell
    BY <1>2, CreateP7ThreadInv, PublishConfigInv, MessagePumpStartsInv DEF StartCell
  <1>3. CASE Broadcast \/ ReceiveRequest \/ Tick
    BY <1>3, BroadcastInv, ReceiveRequestInv, TickInv
  <1>4. CASE UNCHANGED vars
    <2> USE <1>4 DEF vars
    <2>1. TypeOK' /\ Places' /\ LoopInv' /\ AddressInv' /\ MessageInv' /\ OwnerInv'
      BY DEF Inv, TypeOK, Places, LoopInv, InLoop, AddressInv, MessageInv, OwnerInv, InBuffer
    <2>2. RightAddress'
      BY DEF Inv, RightAddress
    <2>3. OrderInv'
      BY QuietOrder DEF Inv, TypeOK, Pending
    <2> QED
      BY <2>1, <2>2, <2>3 DEF Inv
  <1> QED
    BY <1>1, <1>2, <1>3, <1>4 DEF Next

(* The inductive invariant holds in every reachable state. *)
LEMMA Invariance == SafetySpec => []Inv
  BY InitInv, NextInv, PTL DEF SafetySpec

(* Places, owners, messages and datagrams keep their types. *)
THEOREM DownlinkType == SafetySpec => []TypeOK
  <1>1. Inv => TypeOK
    BY DEF Inv
  <1> QED
    BY <1>1, Invariance, PTL

(* Every datagram reaches the UE whose turn it was, whatever the P7 thread  *)
(* and the task do to address_tx_ meanwhile: it is written and used under   *)
(* the proxy's mutex only.                                                  *)
THEOREM DatagramsReachTheirUe == SafetySpec => []RightAddress
  <1>1. Inv => RightAddress
    BY DEF Inv
  <1> QED
    BY <1>1, Invariance, PTL

(* All UEs receive the requests and ticks they receive in the same order,   *)
(* for any number of UEs and whichever sends fail.                          *)
THEOREM UesAgreeOnTheOrder == SafetySpec => []SameOrder
  <1>1. Inv => SameOrder
    BY DEF Inv, OrderInv
  <1> QED
    BY <1>1, Invariance, PTL

(* One thread at a time works on the subframe buffers, as long as           *)
(* pnf_p7_message_pump has not initialised the mutex under its owner.       *)
THEOREM OneThreadInTheBuffers == SafetySpec => []BufferExclusive
  <1>1. Inv => BufferExclusive
    BY DEF Inv, OwnerInv, BufferExclusive
  <1> QED
    BY <1>1, Invariance, PTL

=============================================================================
