--------------------------- MODULE P7BufferProofs ---------------------------
(* The subframe buffer for any numbering of subframes, window and heap.     *)
EXTENDS P7Buffer, TLAPS

(* Quotient and remainder. *)
LEMMA DivMod ==
  ASSUME NEW a \in Int, NEW b \in Nat \ {0}
  PROVE a \div b \in Int /\ a % b \in 0 .. b - 1 /\ a = (a \div b) * b + (a % b)
  OBVIOUS

(* Quotient and remainder are unique. *)
LEMMA DivModUnique ==
  ASSUME NEW a \in Int, NEW b \in Nat \ {0}, NEW q \in Int, NEW r \in 0 .. b - 1, a = q * b + r
  PROVE a \div b = q /\ a % b = r
  OBVIOUS

(* Numbers less than m apart, forwards and backwards round the circle. *)
LEMMA Wrap ==
  ASSUME NEW m \in Nat \ {0}, NEW a \in 0 .. m - 1
  PROVE /\ \A n \in 0 .. m : (a + n) % m = IF a + n < m THEN a + n ELSE a + n - m
        /\ \A b \in 0 .. m - 1 : (a - b) % m = IF a >= b THEN a - b ELSE a - b + m
  OBVIOUS

(* Of a distance of less than s between numbers that differ by a multiple   *)
(* of s, nothing remains.                                                   *)
LEMMA SameResidue ==
  ASSUME NEW s \in Nat \ {0}, NEW a \in Int, NEW b \in Int, NEW k \in Int, a % s = b % s,
         a - b + k * s < s, a - b + k * s > -s
  PROVE a - b + k * s = 0
  <1>1. PICK p \in Int, q \in Int, r \in 0 .. s - 1 : a = p * s + r /\ b = q * s + r
    OBVIOUS
  <1>2. /\ (p - q + k) * s = p * s - q * s + k * s
        /\ p * s \in Int /\ q * s \in Int /\ k * s \in Int
    OBVIOUS
  <1>3. (p - q + k) * s = a - b + k * s
    BY <1>1, <1>2
  <1>4. \A n \in Int : (n >= 1 => n * s >= s) /\ (n <= -1 => n * s <= -s) /\ (n = 0 => n * s = 0)
    OBVIOUS
  <1>5. p - q + k \in Int /\ (p - q + k >= 1 \/ p - q + k = 0 \/ p - q + k <= -1)
    OBVIOUS
  <1> QED
    BY <1>3, <1>4, <1>5

(* A summand may be reduced first. *)
LEMMA ModSum ==
  ASSUME NEW m \in Nat \ {0}, NEW a \in Int, NEW b \in Int
  PROVE b % m \in 0 .. m - 1 /\ (a + b) % m = (a + (b % m)) % m
  <1> DEFINE p == b \div m
             r == b % m
             q == (a + r) \div m
             s == (a + r) % m
  <1>1. p \in Int /\ r \in 0 .. m - 1 /\ b = p * m + r
    BY DivMod
  <1>2. q \in Int /\ s \in 0 .. m - 1 /\ a + r = q * m + s
    <2>1. a + r \in Int
      BY <1>1
    <2> QED
      BY <2>1, DivMod
  <1> HIDE DEF p, q, r, s
  <1>3. (p + q) * m = p * m + q * m /\ p * m \in Int /\ q * m \in Int
    BY <1>1, <1>2
  <1>4. a + b = (p + q) * m + s /\ p + q \in Int /\ a + b \in Int
    BY <1>1, <1>2, <1>3
  <1>5. (a + b) % m = s
    BY <1>2, <1>4, DivModUnique
  <1> QED
    BY <1>1, <1>5 DEF r, s

-----------------------------------------------------------------------------

(* The subframes are counted by positive numbers. *)
LEMMA Moduli == M \in Nat \ {0} /\ Size < M /\ Size \in Nat \ {0}
  BY NumberingAssumption, WindowAssumption DEF M

(* The two forms of a subframe number are inverse to each other. *)
LEMMA WireForm ==
  ASSUME NEW d \in 0 .. M - 1
  PROVE SfnSf(d) \in Labels /\ SfnSf(d) \in Int /\ Dec(SfnSf(d)) = d
  <1> DEFINE q == d \div SfPerFrame
             r == d % SfPerFrame
  <1>1. d \in Int /\ SfPerFrame \in Nat \ {0} /\ SfField \in Nat \ {0} /\ SfPerFrame <= SfField
    BY Moduli, NumberingAssumption
  <1>2. q \in Int /\ r \in 0 .. SfPerFrame - 1 /\ d = q * SfPerFrame + r
    BY <1>1, DivMod
  <1>3. SfnSf(d) = q * SfField + r
    BY DEF SfnSf
  <1> HIDE DEF q, r
  <1>4. q * SfField + r \in Int /\ r \in 0 .. SfField - 1
    BY <1>1, <1>2
  <1>5. SfnSf(d) \div SfField = q /\ SfnSf(d) % SfField = r
    BY <1>1, <1>2, <1>3, <1>4, DivModUnique
  <1>6. Dec(SfnSf(d)) = d
    BY <1>2, <1>5 DEF Dec
  <1> QED
    BY <1>3, <1>4, <1>6 DEF Labels

(* A number on the wire form has a decimal one. *)
LEMMA DecimalForm ==
  ASSUME NEW x \in Labels
  PROVE x \in Int /\ Dec(x) \in 0 .. M - 1 /\ SfnSf(Dec(x)) = x
  <1>1. PICK d \in 0 .. M - 1 : x = SfnSf(d)
    BY DEF Labels
  <1> QED
    BY <1>1, WireForm

(* The number n subframes later. *)
LEMMA AddSf ==
  ASSUME NEW x \in Labels, NEW n \in Int
  PROVE sfnsf_add_sf(x, n) \in Labels /\ Dec(sfnsf_add_sf(x, n)) = (Dec(x) + n) % M
  <1>1. Dec(x) + n \in Int
    BY DecimalForm, Moduli
  <1>2. (Dec(x) + n) % M \in 0 .. M - 1
    BY <1>1, Moduli, DivMod
  <1> QED
    BY <1>2, WireForm DEF sfnsf_add_sf

(* How far x lies ahead of y, and of the current subframe. *)
Ahead(x, y) == (Dec(x) - Dec(y)) % M
Distance(x) == Ahead(x, sfn_sf)

(* The case analysis of is_p7_request_in_window is a distance. *)
LEMMA WindowLemma ==
  ASSUME sfn_sf \in Labels, NEW x \in Labels
  PROVE is_p7_request_in_window(x) <=> Distance(x) \in 1 .. Size
  <1> DEFINE recv == Dec(x)
             cur == Dec(sfn_sf)
  <1>1. recv \in 0 .. M - 1 /\ cur \in 0 .. M - 1 /\ Size \in 0 .. M /\ Size < M /\ Size \in Nat \ {0}
    BY DecimalForm, Moduli
  <1>2. (cur + Size) % M = IF cur + Size < M THEN cur + Size ELSE cur + Size - M
    BY <1>1, Moduli, Wrap
  <1>3. Distance(x) = IF recv >= cur THEN recv - cur ELSE recv - cur + M
    BY <1>1, Moduli, Wrap DEF Distance, Ahead
  <1>4. is_p7_request_in_window(x) <=>
          IF recv <= cur THEN (cur + Size) % M < cur /\ recv <= (cur + Size) % M ELSE recv - cur <= Size
    BY DEF is_p7_request_in_window
  <1> HIDE DEF recv, cur
  <1> QED
    BY <1>1, <1>2, <1>3, <1>4, Moduli

-----------------------------------------------------------------------------
(* What the steps do to the ring.                                           *)

Req(i, k) == subframe_buffer[i].req[k]
Index == 0 .. Size - 1

(* The subframe of an indication, the one whose DL requests are due, the    *)
(* one whose UL requests are due, and their entries.                        *)
Now == sfnsf_add_sf(sfn_sf, 1)
Tx == sfnsf_add_sf(Now, SfAhead)
Ul == Shifted(Now)
TxIndex == Dec(Tx) % Size
UlIndex == Dec(Ul) % Size

(* The requests whose turn it is. *)
Due(i, k) ==
  \/ i = TxIndex /\ k \in TxKinds /\ subframe_buffer[i].sfn_sf = Tx
  \/ i = UlIndex /\ k \in UlKinds /\ subframe_buffer[i].sfn_sf = Ul

(* The entries exist. *)
LEMMA Indexes ==
  ASSUME TypeOK
  PROVE /\ Now \in Labels /\ Dec(Now) = (Dec(sfn_sf) + 1) % M
        /\ Tx \in Labels /\ Dec(Tx) = (Dec(Now) + SfAhead) % M
        /\ TxIndex \in Index /\ UlIndex \in Index
        /\ sfn_sf_shift = 0 => Ul = Now
  <1>1. Now \in Labels /\ Dec(Now) = (Dec(sfn_sf) + 1) % M
    BY AddSf DEF TypeOK, Now
  <1>2. Tx \in Labels /\ Dec(Tx) = (Dec(Now) + SfAhead) % M
    BY <1>1, AddSf, BufferAssumption DEF Tx
  <1>3. Dec(Tx) \in Int
    BY <1>2, DecimalForm, Moduli
  <1>4. Ul \in Int
    BY <1>1, DecimalForm, Moduli DEF TypeOK, Ul, Shifted
  <1>5. Dec(Ul) \in Int
    BY <1>4, NumberingAssumption DEF Dec
  <1>6. TxIndex \in Index /\ UlIndex \in Index
    BY <1>3, <1>5, DivMod, Moduli DEF TxIndex, UlIndex, Index
  <1> QED
    BY <1>1, <1>2, <1>6 DEF Ul, Shifted

(* Clearing some kinds of an entry. *)
LEMMA ClearedFacts ==
  ASSUME NEW e \in Entries, NEW kinds \in SUBSET Kinds
  PROVE /\ Cleared(e, kinds) \in Entries /\ Cleared(e, kinds).sfn_sf = e.sfn_sf
        /\ \A k \in Kinds : Cleared(e, kinds).req[k] = IF k \in kinds THEN NoReq ELSE e.req[k]
  BY DEF Cleared, Entries

(* An entry is reset when it holds at most a HI_DCI0 request. *)
LEMMA ResetFacts ==
  ASSUME NEW e \in Entries
  PROVE /\ ResetIfEmpty(e) \in Entries
        /\ \A k \in Kinds : \/ ResetIfEmpty(e).req[k] = NoReq
                            \/ ResetIfEmpty(e).req[k] = e.req[k] /\ ResetIfEmpty(e).sfn_sf = e.sfn_sf
        /\ \A k \in Kinds : ResetIfEmpty(e).req[k] # e.req[k] => k = "hi_dci0_req"
  <1>1. EmptyBuffer \in Entries /\ \A k \in Kinds : EmptyBuffer.req[k] = NoReq
    BY DEF EmptyBuffer, Entries
  <1>2. CASE Stored(e, Kinds \ {"hi_dci0_req"}) = {}
    <2>1. ResetIfEmpty(e) = EmptyBuffer
      BY <1>2 DEF ResetIfEmpty
    <2>2. \A k \in Kinds : k # "hi_dci0_req" => e.req[k] = NoReq
      BY <1>2 DEF Stored
    <2> QED
      BY <1>1, <2>1, <2>2
  <1>3. CASE Stored(e, Kinds \ {"hi_dci0_req"}) # {}
    BY <1>3 DEF ResetIfEmpty
  <1> QED
    BY <1>2, <1>3

(* What pnf_p7_subframe_ind does to the ring, to the heap and to the PHY. *)
LEMMA PassOnFacts ==
  ASSUME TypeOK, SubframeInd
  PROVE /\ subframe_buffer' \in [Index -> Entries]
        /\ \A i \in Index, k \in Kinds :
             \/ Req(i, k)' = NoReq
             \/ Req(i, k)' = Req(i, k) /\ subframe_buffer'[i].sfn_sf = subframe_buffer[i].sfn_sf
        /\ \A i \in Index, k \in Kinds : Due(i, k) => Req(i, k)' = NoReq
        /\ \A i \in Index, k \in Kinds : Req(i, k)' # Req(i, k) /\ ~Due(i, k) => i = UlIndex /\ k = "hi_dci0_req"
        /\ \A b : b \in heap' <=>
             b \in heap /\ ~\E i \in Index, k \in Kinds : Due(i, k) /\ Req(i, k) # NoReq /\ Req(i, k).block = b
        /\ \A r \in dropped' : r # NoReq /\ r = Req(UlIndex, "hi_dci0_req") /\ ~Due(UlIndex, "hi_dci0_req")
        /\ \A p \in freed' \cup toPhy' :
             \E i \in Index, k \in Kinds :
               Due(i, k) /\ Req(i, k) # NoReq /\ p.label = Req(i, k).sfn_sf /\ p.at = subframe_buffer[i].sfn_sf
  <1> DEFINE txKinds == IF subframe_buffer[TxIndex].sfn_sf = Tx THEN TxKinds ELSE {}
             buffer1 == [subframe_buffer EXCEPT ![TxIndex] = Cleared(@, txKinds)]
             ulKinds == IF buffer1[UlIndex].sfn_sf = Ul THEN UlKinds ELSE {}
             entry == Cleared(buffer1[UlIndex], ulKinds)
  <1>1. TxIndex \in Index /\ UlIndex \in Index /\ subframe_buffer \in [Index -> Entries]
    BY Indexes DEF TypeOK, Index
  <1>2. /\ freed' = Taken(subframe_buffer[TxIndex], txKinds, Tx) \cup Taken(buffer1[UlIndex], ulKinds, Ul)
        /\ toPhy' = {f \in freed' : f.kind \in Callbacks}
        /\ subframe_buffer' = [buffer1 EXCEPT ![UlIndex] = ResetIfEmpty(entry)]
        /\ heap' = heap \ (Blocks(subframe_buffer[TxIndex], txKinds) \cup Blocks(buffer1[UlIndex], ulKinds))
        /\ dropped' = {entry.req[k] : k \in Stored(entry, Kinds) \ Stored(ResetIfEmpty(entry), Kinds)}
    BY DEF SubframeInd, PassOn, Now, Tx, Ul, TxIndex, UlIndex
  <1>3. txKinds \in SUBSET Kinds /\ ulKinds \in SUBSET Kinds
    BY DEF Kinds
  <1>4. /\ buffer1 \in [Index -> Entries]
        /\ \A i \in Index : buffer1[i].sfn_sf = subframe_buffer[i].sfn_sf
        /\ \A i \in Index, k \in Kinds :
             buffer1[i].req[k] = IF i = TxIndex /\ k \in txKinds THEN NoReq ELSE Req(i, k)
    <2>1. Cleared(subframe_buffer[TxIndex], txKinds) \in Entries
      BY <1>1, <1>3, ClearedFacts
    <2>2. buffer1 \in [Index -> Entries]
      BY <1>1, <2>1
    <2>3. \A i \in Index : buffer1[i] = IF i = TxIndex THEN Cleared(subframe_buffer[TxIndex], txKinds) ELSE subframe_buffer[i]
      BY <1>1
    <2> HIDE DEF buffer1, txKinds
    <2> QED
      BY <1>1, <1>3, <2>2, <2>3, ClearedFacts DEF Req
  <1>5. ulKinds = IF subframe_buffer[UlIndex].sfn_sf = Ul THEN UlKinds ELSE {}
    BY <1>1, <1>4
  <1> HIDE DEF buffer1
  <1>6. /\ entry \in Entries /\ entry.sfn_sf = subframe_buffer[UlIndex].sfn_sf
        /\ \A k \in Kinds : entry.req[k] = IF k \in ulKinds THEN NoReq ELSE buffer1[UlIndex].req[k]
    BY <1>1, <1>3, <1>4, ClearedFacts
  <1>7. \A k \in Kinds : Due(UlIndex, k) <=> k \in ulKinds \/ (UlIndex = TxIndex /\ k \in txKinds)
    BY <1>5 DEF Due
  <1>8. \A i \in Index, k \in Kinds : i # UlIndex => (Due(i, k) <=> i = TxIndex /\ k \in txKinds)
    BY DEF Due
  <1>9. \A k \in Kinds : Due(TxIndex, k) <=> k \in txKinds \/ (UlIndex = TxIndex /\ k \in ulKinds)
    BY <1>5 DEF Due
  <1>a. \A k \in txKinds \cap ulKinds : FALSE
    BY DEF TxKinds, UlKinds
  <1> HIDE DEF txKinds, ulKinds, entry
  <1>10. subframe_buffer' \in [Index -> Entries]
    BY <1>1, <1>2, <1>4, <1>6, ResetFacts
  <1>11. \A i \in Index : subframe_buffer'[i] = IF i = UlIndex THEN ResetIfEmpty(entry) ELSE buffer1[i]
    BY <1>2, <1>4
  <1>12. \A k \in Kinds : entry.req[k] = IF Due(UlIndex, k) THEN NoReq ELSE Req(UlIndex, k)
    BY <1>1, <1>4, <1>6, <1>7
  <1>13. \A i \in Index, k \in Kinds :
           /\ Req(i, k)' = subframe_buffer'[i].req[k]
           /\ i # UlIndex => subframe_buffer'[i].req[k] = IF Due(i, k) THEN NoReq ELSE Req(i, k)
    BY <1>4, <1>8, <1>11 DEF Req
  <1>14. \A i \in Index, k \in Kinds :
             \/ Req(i, k)' = NoReq
             \/ Req(i, k)' = Req(i, k) /\ subframe_buffer'[i].sfn_sf = subframe_buffer[i].sfn_sf
    BY <1>1, <1>4, <1>6, <1>11, <1>12, <1>13, ResetFacts
  <1>15. \A i \in Index, k \in Kinds : Due(i, k) => Req(i, k)' = NoReq
    BY <1>1, <1>6, <1>11, <1>12, <1>13, ResetFacts
  <1>16. \A i \in Index, k \in Kinds : Req(i, k)' # Req(i, k) /\ ~Due(i, k) => i = UlIndex /\ k = "hi_dci0_req"
    BY <1>1, <1>6, <1>11, <1>12, <1>13, ResetFacts
  <1>17. ASSUME NEW b
         PROVE b \in heap' <=>
             b \in heap /\ ~\E i \in Index, k \in Kinds : Due(i, k) /\ Req(i, k) # NoReq /\ Req(i, k).block = b
    <2>1. b \in Blocks(subframe_buffer[TxIndex], txKinds) <=> \E k \in txKinds : Req(TxIndex, k) # NoReq /\ Req(TxIndex, k).block = b
      BY DEF Blocks, Stored, Req
    <2>2. b \in Blocks(buffer1[UlIndex], ulKinds) <=> \E k \in ulKinds : Req(UlIndex, k) # NoReq /\ Req(UlIndex, k).block = b
      <3>1. \A k \in ulKinds : buffer1[UlIndex].req[k] = Req(UlIndex, k)
        BY <1>1, <1>3, <1>4, <1>a
      <3> QED
        BY <3>1 DEF Blocks, Stored
    <2>3. (\E i \in Index, k \in Kinds : Due(i, k) /\ Req(i, k) # NoReq /\ Req(i, k).block = b)
          <=> \/ \E k \in txKinds : Req(TxIndex, k) # NoReq /\ Req(TxIndex, k).block = b
              \/ \E k \in ulKinds : Req(UlIndex, k) # NoReq /\ Req(UlIndex, k).block = b
      BY <1>1, <1>3, <1>7, <1>8, <1>9
    <2> QED
      BY <1>2, <2>1, <2>2, <2>3
  <1>18. \A r \in dropped' : r # NoReq /\ r = Req(UlIndex, "hi_dci0_req") /\ ~Due(UlIndex, "hi_dci0_req")
    <2> SUFFICES ASSUME NEW k \in Stored(entry, Kinds) \ Stored(ResetIfEmpty(entry), Kinds)
                 PROVE /\ entry.req[k] # NoReq /\ entry.req[k] = Req(UlIndex, "hi_dci0_req")
                       /\ ~Due(UlIndex, "hi_dci0_req")
      BY <1>2
    <2>1. k \in Kinds /\ entry.req[k] # NoReq /\ ResetIfEmpty(entry).req[k] = NoReq
      BY DEF Stored
    <2>2. k = "hi_dci0_req"
      BY <1>6, <2>1, ResetFacts
    <2> QED
      BY <1>12, <2>1, <2>2
  <1>19. ASSUME NEW p \in freed' \cup toPhy'
         PROVE \E i \in Index, k \in Kinds :
                 Due(i, k) /\ Req(i, k) # NoReq /\ p.label = Req(i, k).sfn_sf /\ p.at = subframe_buffer[i].sfn_sf
    <2>1. CASE p \in Taken(subframe_buffer[TxIndex], txKinds, Tx)
      <3>1. PICK k \in txKinds : Req(TxIndex, k) # NoReq /\ p.label = Req(TxIndex, k).sfn_sf /\ p.at = Tx
        BY <2>1 DEF Taken, Stored, Req
      <3>2. subframe_buffer[TxIndex].sfn_sf = Tx
        BY <3>1 DEF txKinds
      <3> QED
        BY <1>1, <1>3, <1>9, <3>1, <3>2
    <2>2. CASE p \in Taken(buffer1[UlIndex], ulKinds, Ul)
      <3>1. PICK k \in ulKinds : buffer1[UlIndex].req[k] # NoReq /\ p.label = buffer1[UlIndex].req[k].sfn_sf /\ p.at = Ul
        BY <2>2 DEF Taken, Stored
      <3>2. subframe_buffer[UlIndex].sfn_sf = Ul
        BY <1>5, <3>1
      <3>3. buffer1[UlIndex].req[k] = Req(UlIndex, k)
        BY <1>1, <1>3, <1>4, <1>a
      <3> QED
        BY <1>1, <1>3, <1>7, <3>1, <3>2, <3>3
    <2>3. p \in freed'
      BY <1>2
    <2> QED
      BY <1>2, <2>1, <2>2, <2>3
  <1> QED
    BY <1>10, <1>14, <1>15, <1>16, <1>17, <1>18, <1>19

(* What storing a request does to the ring and the heap. *)
LEMMA StoreFacts ==
  ASSUME TypeOK, NEW kind \in Kinds, NEW x \in Labels, NEW b \in Heap \ heap,
         Store(kind, [sfn_sf |-> x, block |-> b])
  PROVE LET n == Dec(x) % Size
            old == Req(n, kind)
        IN  /\ n \in Index
            /\ subframe_buffer' \in [Index -> Entries]
            /\ \A i \in Index \ {n} : subframe_buffer'[i] = subframe_buffer[i]
            /\ subframe_buffer'[n].sfn_sf = x
            /\ subframe_buffer'[n].req[kind] = [sfn_sf |-> x, block |-> b]
            /\ \A k \in Kinds \ {kind} : subframe_buffer'[n].req[k] = Req(n, k)
            /\ \A c : c \in heap' <=> (c \in heap \/ c = b) /\ c # old.block
            /\ old.sfn_sf \in {-1, x} => dropped' = {}
  <1> DEFINE n == Dec(x) % Size
             r == [sfn_sf |-> x, block |-> b]
             e == [subframe_buffer[n] EXCEPT !.sfn_sf = x, !.req[kind] = r]
  <1>1. n \in Index /\ subframe_buffer \in [Index -> Entries]
    <2>1. Dec(x) \in Int
      BY DecimalForm, Moduli
    <2> QED
      BY <2>1, DivMod, Moduli DEF TypeOK, Index
  <1>2. r \in Requests /\ x \in Labels \cup {-1}
    BY DEF Requests
  <1>3. /\ e \in Entries /\ e.sfn_sf = x /\ e.req[kind] = r
        /\ \A k \in Kinds \ {kind} : e.req[k] = Req(n, k)
    <2> HIDE DEF n, r
    <2>1. subframe_buffer[n] \in Entries
      BY <1>1
    <2> QED
      BY <1>2, <2>1 DEF Entries, Req
  <1>4. /\ subframe_buffer' = [subframe_buffer EXCEPT ![n] = e]
        /\ heap' = (heap \cup {b}) \ {Req(n, kind).block}
        /\ dropped' = IF Req(n, kind).sfn_sf \in {-1, x} THEN {} ELSE {Req(n, kind)}
    BY DEF Store, Req
  <1> HIDE DEF n, r, e
  <1>5. /\ subframe_buffer' \in [Index -> Entries] /\ subframe_buffer'[n] = e
        /\ \A i \in Index \ {n} : subframe_buffer'[i] = subframe_buffer[i]
    BY <1>1, <1>3, <1>4
  <1> QED
    BY <1>1, <1>3, <1>4, <1>5 DEF n, r

(* Every step is a request that is stored, one that is refused, a node sync *)
(* or a subframe.                                                           *)
LEMMA RequestCases ==
  ASSUME TypeOK, Request
  PROVE /\ UNCHANGED <<sfn_sf, sfn_sf_shift, period_counter, shifted>> /\ freed' = {} /\ toPhy' = {}
        /\ \E kind \in Kinds, x \in Labels, b \in Heap \ heap :
             /\ \/ kind \in TxKinds /\ \E lead \in TxLeads : x = SfnSf((Dec(sfn_sf) + lead) % M)
                \/ kind \in UlKinds
             /\ \/ is_p7_request_in_window(x) /\ Store(kind, [sfn_sf |-> x, block |-> b])
                \/ Refuse(kind)
  <1>1. ASSUME NEW lead \in Int
        PROVE SfnSf((Dec(sfn_sf) + lead) % M) \in Labels
    <2>1. Dec(sfn_sf) + lead \in Int
      BY DecimalForm, Moduli DEF TypeOK
    <2> QED
      BY <2>1, DivMod, Moduli, WireForm
  <1>2. TxKinds \subseteq Kinds /\ UlKinds \subseteq Kinds
    BY DEF Kinds
  <1> QED
    BY <1>1, <1>2, BufferAssumption DEF Request, HandleRequest

-----------------------------------------------------------------------------
(* Type correctness.                                                        *)

LEMMA TypeOKStep ==
  ASSUME TypeOK, [Next]_vars
  PROVE TypeOK'
  <1>1. CASE Request
    <2>1. PICK kind \in Kinds, x \in Labels, b \in Heap \ heap :
               \/ is_p7_request_in_window(x) /\ Store(kind, [sfn_sf |-> x, block |-> b])
               \/ Refuse(kind)
      BY <1>1, RequestCases
    <2>2. UNCHANGED <<sfn_sf, sfn_sf_shift, period_counter, shifted>>
      BY <1>1, RequestCases
    <2>3. CASE Store(kind, [sfn_sf |-> x, block |-> b])
      <3>1. subframe_buffer' \in [Index -> Entries] /\ heap' \subseteq Heap
        BY <2>3, StoreFacts DEF TypeOK
      <3>2. UNCHANGED <<aperiodic_send, unreported>>
        BY <2>3 DEF Store
      <3> QED
        BY <2>2, <3>1, <3>2 DEF TypeOK, Index
    <2>4. CASE Refuse(kind)
      BY <2>2, <2>4 DEF TypeOK, Refuse
    <2> QED
      BY <2>1, <2>3, <2>4
  <1>2. CASE DlNodeSync
    BY <1>2, BufferAssumption DEF TypeOK, DlNodeSync
  <1>3. CASE SubframeInd
    <2>1. sfn_sf' \in Labels
      BY <1>3, Indexes DEF SubframeInd, Now
    <2>2. subframe_buffer' \in [Index -> Entries] /\ heap' \subseteq Heap
      BY <1>3, PassOnFacts DEF TypeOK
    <2>3. sfn_sf_shift' \in Int /\ shifted' \in BOOLEAN
      BY <1>3 DEF SubframeInd, TypeOK
    <2>4. TimingInfo
      BY <1>3 DEF SubframeInd
    <2>5. period_counter' \in 0 .. Period /\ unreported' \in Nat
      BY <2>4, BufferAssumption DEF TimingInfo, TypeOK
    <2>6. aperiodic_send' \in BOOLEAN
      BY <2>4, Zenon DEF TimingInfo, TypeOK
    <2> QED
      BY <2>1, <2>2, <2>3, <2>5, <2>6 DEF TypeOK, Index
  <1>4. CASE UNCHANGED vars
    BY <1>4 DEF TypeOK, vars
  <1> QED
    BY <1>1, <1>2, <1>3, <1>4 DEF Next

LEMMA TypeOKInit == Init => TypeOK
  <1> SUFFICES ASSUME Init PROVE TypeOK
    OBVIOUS
  <1>1. 0 \in 0 .. M - 1
    BY Moduli
  <1>2. SfnSf(0) = 0
    BY NumberingAssumption DEF SfnSf
  <1>3. 0 \in Labels
    BY <1>1, <1>2, WireForm
  <1>4. [EmptyBuffer EXCEPT !.sfn_sf = 0] \in Entries
    BY <1>3 DEF EmptyBuffer, Entries
  <1>5. subframe_buffer \in [0 .. Size - 1 -> Entries]
    BY <1>4 DEF Init
  <1>6. 0 \in 0 .. Period /\ 0 \in Nat /\ 0 \in Int
    BY BufferAssumption
  <1> QED
    BY <1>5, <1>6, Zenon DEF Init, TypeOK

(* Whatever requests and shifts the VNF sends, the numbers of the buffer    *)
(* stay on the wire form and its entries inside the heap.                   *)
THEOREM BufferType == Spec => []TypeOK
  BY TypeOKInit, TypeOKStep, PTL DEF Spec

(* For any numbering and window, is_p7_request_in_window accepts exactly    *)
(* the next Size subframes, also around the wrap of the subframe numbers.   *)
THEOREM WindowIsRight == Spec => []WindowIsDistance
  <1>1. TypeOK => WindowIsDistance
    BY WindowLemma DEF TypeOK, WindowIsDistance, Distance, Ahead
  <1> QED
    BY <1>1, BufferType, PTL

(* A late request is known to the next subframe indication. *)
Reporting == unreported \in {0, 1} /\ (unreported = 1 => aperiodic_send)

(* Timing info follows a late request in the next subframe: what            *)
(* pnf_p7_subframe_ind leaves in aperiodic_send loses no report.            *)
THEOREM LateIsReported == Spec => []LateReported
  <1>1. Init => Reporting
    BY DEF Init, Reporting
  <1>2. ASSUME TypeOK, Reporting, [Next]_vars
        PROVE Reporting'
    <2>1. CASE Request
      <3>1. PICK kind \in Kinds, x \in Labels, b \in Heap \ heap :
               Store(kind, [sfn_sf |-> x, block |-> b]) \/ Refuse(kind)
        BY <1>2, <2>1, RequestCases
      <3>2. CASE Store(kind, [sfn_sf |-> x, block |-> b])
        BY <1>2, <3>2 DEF Reporting, Store
      <3>3. CASE Refuse(kind)
        <4>1. aperiodic_send' /\ unreported' = IF unreported = 0 THEN 1 ELSE unreported
          BY <3>3, Zenon DEF Refuse
        <4>2. unreported' = 1
          BY <1>2, <4>1 DEF Reporting
        <4> QED
          BY <4>1, <4>2 DEF Reporting
      <3> QED
        BY <3>1, <3>2, <3>3
    <2>2. CASE SubframeInd
      BY <1>2, <2>2 DEF Reporting, SubframeInd, TimingInfo
    <2> QED
      BY <1>2, <2>1, <2>2 DEF Next, Reporting, DlNodeSync, vars
  <1>3. Reporting => LateReported
    BY DEF Reporting, LateReported
  <1> QED
    BY <1>1, <1>2, <1>3, BufferType, PTL DEF Spec

-----------------------------------------------------------------------------
(* Requests and their entries.                                              *)

(* The two conditions of the theorems below.  The subframe numbers wrap at  *)
(* a multiple of the ring's size: without it, two subframes of one window   *)
(* share an entry at the wrap.  And no DL request arrives when the turn of  *)
(* its subframe is over: the window has no lower end of SfAhead.            *)
SizeDivides == \E n \in Nat : M = n * Size
TxEarly == \A lead \in TxLeads : lead % M \notin 1 .. SfAhead

(* A stored request is in the entry of its subframe, the entry carries its  *)
(* number, and its turn is still to come: for DL requests SfAhead earlier.  *)
InPlace(i, k, e, cur) ==
  LET x == e.req[k].sfn_sf
  IN  /\ i = Dec(x) % Size
      /\ e.sfn_sf = x
      /\ Ahead(x, cur) \in 1 .. Size
      /\ k \in TxKinds => Ahead(x, cur) > SfAhead

RingInv ==
  ~shifted => \A i \in Index, k \in Kinds : Req(i, k) # NoReq => InPlace(i, k, subframe_buffer[i], sfn_sf)

(* The blocks of the stored requests are allocated and all different. *)
BlockInv ==
  /\ \A i \in Index, k \in Kinds : Req(i, k) # NoReq => Req(i, k).block \in heap
  /\ \A i, j \in Index, k, l \in Kinds :
       Req(i, k) # NoReq /\ Req(j, l) # NoReq /\ Req(i, k).block = Req(j, l).block => i = j /\ k = l

(* The allocated blocks are those of the stored requests. *)
NoLeak == ~shifted => \A b \in heap : \E i \in Index, k \in Kinds : Req(i, k) # NoReq /\ Req(i, k).block = b

(* What n subframes ahead means. *)
LEMMA AheadFacts ==
  ASSUME NEW x \in Labels, NEW y \in Labels
  PROVE /\ Ahead(x, y) \in 0 .. M - 1
        /\ Ahead(x, y) = IF Dec(x) >= Dec(y) THEN Dec(x) - Dec(y) ELSE Dec(x) - Dec(y) + M
        /\ Dec(x) = IF Dec(y) + Ahead(x, y) < M THEN Dec(y) + Ahead(x, y) ELSE Dec(y) + Ahead(x, y) - M
  <1>1. Dec(x) \in 0 .. M - 1 /\ Dec(y) \in 0 .. M - 1 /\ M \in Nat \ {0}
    BY DecimalForm, Moduli
  <1>2. Ahead(x, y) = IF Dec(x) >= Dec(y) THEN Dec(x) - Dec(y) ELSE Dec(x) - Dec(y) + M
    BY <1>1, Wrap DEF Ahead
  <1> QED
    BY <1>1, <1>2

(* Numbers equally far ahead are equal. *)
LEMMA SameDistance ==
  ASSUME NEW x \in Labels, NEW y \in Labels, NEW z \in Labels, Ahead(x, z) = Ahead(y, z)
  PROVE x = y
  <1>1. Dec(x) = Dec(y)
    BY AheadFacts
  <1> QED
    BY <1>1, DecimalForm

(* Of two numbers in a window that share an entry, both are the same. *)
LEMMA SameEntry ==
  ASSUME SizeDivides, NEW x \in Labels, NEW y \in Labels, NEW z \in Labels,
         Ahead(x, z) \in 1 .. Size, Ahead(y, z) \in 1 .. Size
  PROVE Dec(x) % Size = Dec(y) % Size => x = y
  <1>0. SUFFICES ASSUME Dec(x) % Size = Dec(y) % Size PROVE x = y
    OBVIOUS
  <1> DEFINE a == Dec(x)
             b == Dec(y)
             c == Dec(z)
             d == Ahead(x, z)
             e == Ahead(y, z)
  <1>1. PICK n \in Nat : M = n * Size
    BY DEF SizeDivides
  <1>2. /\ a \in 0 .. M - 1 /\ b \in 0 .. M - 1 /\ c \in 0 .. M - 1 /\ M \in Nat /\ Size \in Nat \ {0}
        /\ d \in 1 .. Size /\ e \in 1 .. Size
    BY DecimalForm, Moduli
  <1>3. /\ d = IF a >= c THEN a - c ELSE a - c + M
        /\ e = IF b >= c THEN b - c ELSE b - c + M
    BY AheadFacts
  <1> HIDE DEF a, b, c, d, e
  <1>4. d - e = a - b + 0 \/ d - e = a - b + M \/ d - e = a - b - M
    BY <1>2, <1>3
  <1>5. PICK k \in Int : d - e = a - b + k * Size
    <2>1. 0 = 0 * Size /\ M = n * Size /\ -M = (-n) * Size /\ -n \in Int /\ 0 \in Int /\ n \in Int
      BY <1>1, <1>2
    <2>2. CASE d - e = a - b + 0
      BY <2>1, <2>2
    <2>3. CASE d - e = a - b + M
      BY <2>1, <2>3
    <2>4. CASE d - e = a - b - M
      <3>1. d - e = a - b + (-n) * Size
        BY <1>2, <2>1, <2>4
      <3> QED
        BY <2>1, <3>1
    <2> QED
      BY <1>4, <2>2, <2>3, <2>4
  <1>6. a - b + k * Size < Size /\ a - b + k * Size > -Size
    BY <1>2, <1>5
  <1>7. a - b + k * Size = 0
    <2>1. a \in Int /\ b \in Int /\ a % Size = b % Size
      BY <1>0, <1>2 DEF a, b
    <2> QED
      BY <1>2, <1>6, <2>1, SameResidue
  <1>8. d = e
    BY <1>2, <1>5, <1>7
  <1> QED
    BY <1>8, SameDistance DEF d, e

(* With every subframe, the others come one nearer. *)
LEMMA OneNearer ==
  ASSUME NEW x \in Labels, NEW y \in Labels, NEW z \in Labels, Ahead(x, y) >= 1
  PROVE Dec(z) = (Dec(y) + 1) % M => Ahead(x, z) = Ahead(x, y) - 1
  <1>0. SUFFICES ASSUME Dec(z) = (Dec(y) + 1) % M PROVE Ahead(x, z) = Ahead(x, y) - 1
    OBVIOUS
  <1>1. Dec(x) \in 0 .. M - 1 /\ Dec(y) \in 0 .. M - 1 /\ M \in Nat /\ M > 1
    BY DecimalForm, Moduli
  <1>2. Dec(z) = IF Dec(y) + 1 < M THEN Dec(y) + 1 ELSE Dec(y) + 1 - M
    BY <1>0, <1>1, Wrap
  <1>3. /\ Ahead(x, y) = IF Dec(x) >= Dec(y) THEN Dec(x) - Dec(y) ELSE Dec(x) - Dec(y) + M
        /\ Ahead(x, z) = IF Dec(x) >= Dec(z) THEN Dec(x) - Dec(z) ELSE Dec(x) - Dec(z) + M
    BY AheadFacts
  <1>4. Dec(x) # Dec(y)
    BY <1>1, <1>3
  <1> QED
    BY <1>1, <1>2, <1>3, <1>4

(* The number n subframes later is n subframes ahead. *)
LEMMA AheadOfSum ==
  ASSUME NEW x \in Labels, NEW y \in Labels, NEW n \in 0 .. M - 1
  PROVE Dec(x) = (Dec(y) + n) % M => Ahead(x, y) = n
  <1>0. SUFFICES ASSUME Dec(x) = (Dec(y) + n) % M PROVE Ahead(x, y) = n
    OBVIOUS
  <1>1. Dec(y) \in 0 .. M - 1 /\ M \in Nat \ {0}
    BY DecimalForm, Moduli
  <1>2. Dec(x) = IF Dec(y) + n < M THEN Dec(y) + n ELSE Dec(y) + n - M
    BY <1>0, <1>1, Wrap
  <1> QED
    BY <1>1, <1>2, AheadFacts

(* A stored request has a subframe and a block. *)
LEMMA StoredRequest ==
  ASSUME TypeOK, NEW i \in Index, NEW k \in Kinds
  PROVE /\ subframe_buffer[i] \in Entries
        /\ Req(i, k) # NoReq => Req(i, k).sfn_sf \in Labels /\ Req(i, k).block \in Heap
        /\ Req(i, k) = NoReq => Req(i, k).sfn_sf = -1 /\ Req(i, k).block = 0
  <1>1. subframe_buffer[i] \in Entries
    BY DEF TypeOK, Index
  <1>2. Req(i, k) \in Requests \cup {NoReq}
    BY <1>1 DEF Entries, Req
  <1> QED
    BY <1>1, <1>2 DEF Requests, NoReq

(* A request that is stored comes to the entry of its own subframe. *)
LEMMA StoreKeepsRing ==
  ASSUME TypeOK, RingInv, SizeDivides, TxEarly, ~shifted, UNCHANGED <<sfn_sf, shifted>>,
         NEW kind \in Kinds, NEW x \in Labels, NEW b \in Heap \ heap,
         is_p7_request_in_window(x), Store(kind, [sfn_sf |-> x, block |-> b]),
         \/ kind \in TxKinds /\ \E lead \in TxLeads : x = SfnSf((Dec(sfn_sf) + lead) % M)
         \/ kind \in UlKinds
  PROVE RingInv' /\ dropped' = {}
  <1> DEFINE n == Dec(x) % Size
  <1>1. Ahead(x, sfn_sf) \in 1 .. Size
    BY WindowLemma DEF TypeOK, Distance
  <1>2. kind \in TxKinds => Ahead(x, sfn_sf) > SfAhead
    <2> SUFFICES ASSUME kind \in TxKinds PROVE Ahead(x, sfn_sf) > SfAhead
      OBVIOUS
    <2>1. PICK lead \in TxLeads : x = SfnSf((Dec(sfn_sf) + lead) % M)
      BY DEF TxKinds, UlKinds
    <2> DEFINE w == lead % M
               cur == Dec(sfn_sf)
    <2>2. lead \in Int /\ cur \in 0 .. M - 1 /\ M \in Nat \ {0} /\ SfAhead \in Nat
      BY BufferAssumption, DecimalForm, Moduli DEF TypeOK
    <2>3. w \in 0 .. M - 1 /\ (cur + lead) % M = (cur + w) % M
      BY <2>2, ModSum
    <2>4. (cur + lead) % M \in 0 .. M - 1
      <3>1. cur + lead \in Int
        BY <2>2
      <3> QED
        BY <2>2, <3>1, DivMod
    <2>5. Dec(x) = (cur + w) % M
      BY <2>1, <2>3, <2>4, WireForm
    <2> HIDE DEF w, cur
    <2>6. Ahead(x, sfn_sf) = w
      BY <2>3, <2>5, AheadOfSum DEF cur, TypeOK
    <2>7. w \notin 1 .. SfAhead
      BY DEF TxEarly, w
    <2> QED
      BY <1>1, <2>2, <2>3, <2>6, <2>7, Moduli
  <1>3. ASSUME NEW k \in Kinds, Req(n, k) # NoReq
        PROVE Req(n, k).sfn_sf = x /\ InPlace(n, k, subframe_buffer[n], sfn_sf)
    <2>1. n \in Index
      BY StoreFacts
    <2>2. InPlace(n, k, subframe_buffer[n], sfn_sf)
      BY <1>3, <2>1 DEF RingInv
    <2>3. /\ Req(n, k).sfn_sf \in Labels /\ Ahead(Req(n, k).sfn_sf, sfn_sf) \in 1 .. Size
          /\ Dec(Req(n, k).sfn_sf) % Size = Dec(x) % Size
      BY <1>3, <2>1, <2>2, StoredRequest DEF InPlace, Req
    <2>4. Req(n, k).sfn_sf = x
      BY <1>1, <2>3, SameEntry DEF TypeOK
    <2> QED
      BY <2>2, <2>4
  <1>4. dropped' = {}
    <2>1. Req(n, kind).sfn_sf \in {-1, x}
      BY <1>3, StoredRequest, StoreFacts
    <2> QED
      BY <2>1, StoreFacts
  <1>5. ASSUME NEW i \in Index, NEW k \in Kinds, Req(i, k)' # NoReq
        PROVE InPlace(i, k, subframe_buffer'[i], sfn_sf)
    <2>1. CASE i # n
      BY <1>5, <2>1, StoreFacts DEF RingInv, Req
    <2>2. CASE i = n /\ k = kind
      BY <1>1, <1>2, <2>2, StoreFacts DEF InPlace
    <2>3. CASE i = n /\ k # kind
      <3>1. subframe_buffer'[n].req[k] = Req(n, k) /\ subframe_buffer'[n].sfn_sf = x
        BY <2>3, StoreFacts
      <3>2. Req(n, k) # NoReq
        BY <1>5, <2>3, <3>1 DEF Req
      <3> QED
        BY <1>3, <2>3, <3>1, <3>2 DEF InPlace, Req
    <2> QED
      BY <2>1, <2>2, <2>3
  <1> QED
    BY <1>4, <1>5 DEF RingInv, Req

(* A subframe indication without a shift frees every request whose turn it  *)
(* is, and no entry that still holds a request is reset.                    *)
LEMMA SubframeKeepsRing ==
  ASSUME TypeOK, RingInv, SizeDivides, ~shifted, sfn_sf_shift = 0, SubframeInd
  PROVE /\ RingInv'
        /\ \A i \in Index, k \in Kinds : Req(i, k) # NoReq /\ Req(i, k)' = NoReq => Due(i, k)
        /\ \A p \in freed' \cup toPhy' : p.label = p.at
        /\ dropped' = {}
  <1>1. /\ Now \in Labels /\ Dec(Now) = (Dec(sfn_sf) + 1) % M /\ Ul = Now
        /\ Tx \in Labels /\ Dec(Tx) = (Dec(Now) + SfAhead) % M
        /\ TxIndex \in Index /\ UlIndex \in Index /\ sfn_sf' = Now
    BY Indexes DEF SubframeInd, Now
  <1>2. Size \in Nat \ {0} /\ M \in Nat \ {0} /\ Size < M /\ SfAhead \in Nat /\ sfn_sf \in Labels
    BY Moduli, BufferAssumption DEF TypeOK
  <1>3. Ahead(Now, sfn_sf) = 1
    <2>1. 1 \in 0 .. M - 1
      BY <1>2
    <2> QED
      BY <1>1, <1>2, <2>1, AheadOfSum
  <1>4. ASSUME SfAhead \in 0 .. M - 1
        PROVE Ahead(Tx, Now) = SfAhead
    BY <1>1, <1>4, AheadOfSum
  <1>5. ASSUME NEW i \in Index, NEW k \in Kinds, Req(i, k) # NoReq
        PROVE /\ InPlace(i, k, subframe_buffer[i], sfn_sf)
              /\ Req(i, k).sfn_sf \in Labels
              /\ subframe_buffer[i].sfn_sf = Req(i, k).sfn_sf
              /\ i = Dec(Req(i, k).sfn_sf) % Size
              /\ Ahead(Req(i, k).sfn_sf, sfn_sf) \in 1 .. Size
              /\ k \in TxKinds => Ahead(Req(i, k).sfn_sf, sfn_sf) > SfAhead
              /\ Ahead(Req(i, k).sfn_sf, Now) = Ahead(Req(i, k).sfn_sf, sfn_sf) - 1
    <2>1. InPlace(i, k, subframe_buffer[i], sfn_sf)
      BY <1>5 DEF RingInv
    <2>2. Req(i, k).sfn_sf \in Labels
      BY <1>5, StoredRequest
    <2>3. /\ subframe_buffer[i].sfn_sf = Req(i, k).sfn_sf
          /\ i = Dec(Req(i, k).sfn_sf) % Size
          /\ Ahead(Req(i, k).sfn_sf, sfn_sf) \in 1 .. Size
          /\ k \in TxKinds => Ahead(Req(i, k).sfn_sf, sfn_sf) > SfAhead
      BY <2>1 DEF InPlace, Req
    <2>4. Ahead(Req(i, k).sfn_sf, sfn_sf) >= 1
      BY <1>2, <2>3
    <2>5. Ahead(Req(i, k).sfn_sf, Now) = Ahead(Req(i, k).sfn_sf, sfn_sf) - 1
      BY <1>1, <1>2, <2>2, <2>4, OneNearer
    <2> QED
      BY <2>1, <2>2, <2>3, <2>5
  <1>6. ASSUME NEW i \in Index, NEW k \in TxKinds, k \in Kinds, Req(i, k) # NoReq,
               Ahead(Req(i, k).sfn_sf, sfn_sf) = SfAhead + 1
        PROVE Due(i, k)
    <2>1. SfAhead \in 0 .. M - 1 /\ Ahead(Req(i, k).sfn_sf, Now) = SfAhead
      BY <1>2, <1>5, <1>6
    <2>2. Req(i, k).sfn_sf = Tx
      BY <1>1, <1>4, <1>5, <1>6, <2>1, SameDistance
    <2> QED
      BY <1>5, <1>6, <2>2 DEF Due, TxIndex
  <1>7. ASSUME NEW i \in Index, NEW k \in UlKinds, k \in Kinds, Req(i, k) # NoReq,
               Ahead(Req(i, k).sfn_sf, sfn_sf) = 1
        PROVE Due(i, k)
    <2>1. Req(i, k).sfn_sf = Now
      BY <1>1, <1>2, <1>3, <1>5, <1>7, SameDistance
    <2> QED
      BY <1>1, <1>5, <1>7, <2>1 DEF Due, UlIndex
  <1>8. ASSUME "hi_dci0_req" \in Kinds, Req(UlIndex, "hi_dci0_req") # NoReq
        PROVE Due(UlIndex, "hi_dci0_req")
    <2> DEFINE x == Req(UlIndex, "hi_dci0_req").sfn_sf
    <2>1. /\ x \in Labels /\ UlIndex = Dec(x) % Size /\ UlIndex = Dec(Now) % Size
          /\ Ahead(x, sfn_sf) \in 1 .. Size /\ Ahead(x, sfn_sf) > SfAhead
      BY <1>1, <1>5, <1>8 DEF UlIndex, TxKinds
    <2>2. Ahead(Now, sfn_sf) \in 1 .. Size
      BY <1>2, <1>3
    <2>3. Dec(x) % Size = Dec(Now) % Size
      BY <2>1, Zenon
    <2>4. x = Now
      BY <1>1, <1>2, <2>1, <2>2, <2>3, SameEntry
    <2>5. Ahead(x, sfn_sf) = SfAhead + 1
      BY <1>2, <1>3, <2>1, <2>4
    <2> QED
      BY <1>1, <1>6, <1>8, <2>5 DEF TxKinds
  <1>9. "hi_dci0_req" \in Kinds /\ \A k \in Kinds : k \in TxKinds \/ k \in UlKinds
    BY DEF Kinds, TxKinds
  <1>10. \A i \in Index, k \in Kinds : Req(i, k) # NoReq /\ Req(i, k)' = NoReq => Due(i, k)
    BY <1>8, <1>9, PassOnFacts
  <1>11. dropped' = {}
    BY <1>8, <1>9, PassOnFacts
  <1>12. \A p \in freed' \cup toPhy' : p.label = p.at
    BY <1>5, PassOnFacts
  <1>13. ASSUME NEW i \in Index, NEW k \in Kinds, Req(i, k)' # NoReq
         PROVE InPlace(i, k, subframe_buffer'[i], Now)
    <2>1. /\ Req(i, k)' = Req(i, k) /\ subframe_buffer'[i].sfn_sf = subframe_buffer[i].sfn_sf
          /\ ~Due(i, k) /\ Req(i, k) # NoReq
      BY <1>13, PassOnFacts
    <2> DEFINE x == Req(i, k).sfn_sf
    <2>2. /\ Ahead(x, sfn_sf) \in 1 .. Size /\ Ahead(x, Now) = Ahead(x, sfn_sf) - 1
          /\ k \in TxKinds => Ahead(x, sfn_sf) > SfAhead
      BY <1>5, <2>1
    <2>3. Ahead(x, sfn_sf) # 1 /\ (k \in TxKinds => Ahead(x, sfn_sf) # SfAhead + 1)
      <3>1. CASE k \in TxKinds
        <4>1. Ahead(x, sfn_sf) # SfAhead + 1
          BY <1>6, <2>1, <3>1
        <4> QED
          BY <1>2, <2>2, <3>1, <4>1
      <3>2. CASE k \in UlKinds
        <4>1. k \notin TxKinds
          BY <3>2 DEF TxKinds, UlKinds
        <4> QED
          BY <1>7, <2>1, <3>2, <4>1
      <3> QED
        BY <1>9, <3>1, <3>2
    <2>4. Ahead(x, Now) \in 1 .. Size /\ (k \in TxKinds => Ahead(x, Now) > SfAhead)
      BY <1>2, <2>2, <2>3
    <2>5. subframe_buffer'[i].req[k].sfn_sf = x /\ subframe_buffer'[i].sfn_sf = x /\ i = Dec(x) % Size
      BY <1>5, <2>1 DEF Req
    <2> QED
      BY <2>4, <2>5 DEF InPlace
  <1>14. RingInv'
    BY <1>1, <1>13 DEF RingInv, Req
  <1> QED
    BY <1>10, <1>11, <1>12, <1>14

(* Either the subframe indication applies no shift, or the history says so. *)
LEMMA RingStep ==
  ASSUME SizeDivides, TxEarly, TypeOK, RingInv, FreedInItsTurn, KeptUntilItsTurn, [Next]_vars
  PROVE RingInv' /\ FreedInItsTurn' /\ KeptUntilItsTurn'
  <1>1. CASE Request
    <2>1. UNCHANGED <<sfn_sf, shifted>> /\ freed' = {} /\ toPhy' = {}
      BY <1>1, RequestCases
    <2>2. FreedInItsTurn'
      BY <2>1 DEF FreedInItsTurn
    <2>3. PICK kind \in Kinds, x \in Labels, b \in Heap \ heap :
             /\ \/ kind \in TxKinds /\ \E lead \in TxLeads : x = SfnSf((Dec(sfn_sf) + lead) % M)
                \/ kind \in UlKinds
             /\ \/ is_p7_request_in_window(x) /\ Store(kind, [sfn_sf |-> x, block |-> b])
                \/ Refuse(kind)
      BY <1>1, RequestCases
    <2>4. CASE Refuse(kind)
      BY <2>1, <2>2, <2>4 DEF Refuse, RingInv, KeptUntilItsTurn, Req
    <2>5. CASE shifted
      BY <2>1, <2>2, <2>5 DEF RingInv, KeptUntilItsTurn
    <2>6. CASE ~shifted /\ is_p7_request_in_window(x) /\ Store(kind, [sfn_sf |-> x, block |-> b])
      <3>1. RingInv' /\ dropped' = {}
        BY <2>1, <2>3, <2>6, StoreKeepsRing
      <3> QED
        BY <2>2, <3>1 DEF KeptUntilItsTurn
    <2> QED
      BY <2>3, <2>4, <2>5, <2>6
  <1>2. CASE DlNodeSync
    BY <1>2 DEF DlNodeSync, RingInv, FreedInItsTurn, KeptUntilItsTurn, Req
  <1>3. CASE SubframeInd
    <2>1. CASE shifted \/ sfn_sf_shift # 0
      <3>1. shifted'
        BY <1>3, <2>1 DEF SubframeInd
      <3> QED
        BY <3>1 DEF RingInv, FreedInItsTurn, KeptUntilItsTurn
    <2>2. CASE ~shifted /\ sfn_sf_shift = 0
      BY <1>3, <2>2, SubframeKeepsRing DEF FreedInItsTurn, KeptUntilItsTurn
    <2> QED
      BY <2>1, <2>2
  <1>4. CASE UNCHANGED vars
    BY <1>4 DEF vars, RingInv, FreedInItsTurn, KeptUntilItsTurn, Req
  <1> QED
    BY <1>1, <1>2, <1>3, <1>4 DEF Next

(* At the start no request is stored. *)
LEMMA EmptyRing ==
  ASSUME Init
  PROVE \A i \in Index, k \in Kinds : Req(i, k) = NoReq
  BY DEF Init, Index, Req, EmptyBuffer

LEMMA RingInvariant ==
  ASSUME SizeDivides, TxEarly
  PROVE Spec => [](TypeOK /\ RingInv /\ FreedInItsTurn /\ KeptUntilItsTurn)
  <1>1. Init => RingInv /\ FreedInItsTurn /\ KeptUntilItsTurn
    BY EmptyRing DEF Init, RingInv, FreedInItsTurn, KeptUntilItsTurn
  <1>2. TypeOK /\ RingInv /\ FreedInItsTurn /\ KeptUntilItsTurn /\ [Next]_vars
        => RingInv' /\ FreedInItsTurn' /\ KeptUntilItsTurn'
    BY RingStep
  <1> QED
    BY <1>1, <1>2, BufferType, PTL DEF Spec

(* Until the first shift, what pnf_p7_subframe_ind frees in the turn of a   *)
(* subframe (after handing it to the PHY where there is a callback) was     *)
(* sent for that subframe, whatever ring and window, as long as the         *)
(* numbering wraps at a multiple of the ring's size and DL requests are not *)
(* sent for subframes whose turn is over.                                   *)
THEOREM RequestsFreedInTheirTurn ==
  ASSUME SizeDivides, TxEarly
  PROVE Spec => []FreedInItsTurn
  BY RingInvariant, PTL

(* Under the same conditions an accepted request stays in the ring until    *)
(* its turn: the entry of a later subframe never displaces it, and the      *)
(* reset of an entry, which does not look at hi_dci0_req, never hits one.   *)
THEOREM AcceptedRequestsAreKept ==
  ASSUME SizeDivides, TxEarly
  PROVE Spec => []KeptUntilItsTurn
  BY RingInvariant, PTL

-----------------------------------------------------------------------------
(* Memory.                                                                  *)

(* What is stored, as requests of entries. *)
LEMMA StoredFacts ==
  ASSUME TypeOK
  PROVE /\ DOMAIN subframe_buffer = Index
        /\ \A r : r \in AllStored <=> r # NoReq /\ \E i \in Index, k \in Kinds : r = Req(i, k)
  <1>1. DOMAIN subframe_buffer = Index
    BY DEF TypeOK, Index
  <1> QED
    BY <1>1 DEF AllStored, Req

(* No block is freed while a request uses it, nor given to a second one;    *)
(* this needs none of the conditions above, nor that no shift happens.      *)
LEMMA BlockStep ==
  ASSUME TypeOK, BlockInv, [Next]_vars
  PROVE BlockInv'
  <1>1. CASE Request
    <2>1. PICK kind \in Kinds, x \in Labels, b \in Heap \ heap :
               Store(kind, [sfn_sf |-> x, block |-> b]) \/ Refuse(kind)
      BY <1>1, RequestCases
    <2>2. CASE Refuse(kind)
      BY <2>2 DEF Refuse, BlockInv, Req
    <2>3. CASE Store(kind, [sfn_sf |-> x, block |-> b])
      <3> DEFINE n == Dec(x) % Size
      <3>1. n \in Index /\ \A c : c \in heap' <=> (c \in heap \/ c = b) /\ c # Req(n, kind).block
        BY <2>3, StoreFacts
      <3>2. \A i \in Index, k \in Kinds :
              Req(i, k)' = IF i = n /\ k = kind THEN [sfn_sf |-> x, block |-> b] ELSE Req(i, k)
        BY <2>3, StoreFacts DEF Req
      <3> HIDE DEF n
      <3>3. b # Req(n, kind).block
        <4>1. CASE Req(n, kind) = NoReq
          BY <3>1, <4>1, StoredRequest, BufferAssumption
        <4>2. CASE Req(n, kind) # NoReq
          BY <3>1, <4>2 DEF BlockInv
        <4> QED
          BY <4>1, <4>2
      <3>4. \A i \in Index, k \in Kinds : Req(i, k) # NoReq /\ ~(i = n /\ k = kind) =>
              Req(i, k).block \in heap /\ Req(i, k).block # Req(n, kind).block
        <4>1. SUFFICES ASSUME NEW i \in Index, NEW k \in Kinds, Req(i, k) # NoReq, ~(i = n /\ k = kind)
                       PROVE Req(i, k).block \in heap /\ Req(i, k).block # Req(n, kind).block
          OBVIOUS
        <4>2. Req(i, k).block \in heap /\ Req(i, k).block \in Heap
          BY <4>1, StoredRequest DEF BlockInv
        <4>3. CASE Req(n, kind) = NoReq
          BY <3>1, <4>2, <4>3, StoredRequest, BufferAssumption
        <4>4. CASE Req(n, kind) # NoReq
          BY <3>1, <4>1, <4>2, <4>4 DEF BlockInv
        <4> QED
          BY <4>2, <4>3, <4>4
      <3>5. ASSUME NEW i \in Index, NEW k \in Kinds, Req(i, k)' # NoReq
            PROVE Req(i, k)'.block \in heap'
        <4>1. CASE i = n /\ k = kind
          BY <3>1, <3>2, <3>3, <4>1
        <4>2. CASE ~(i = n /\ k = kind)
          BY <3>1, <3>2, <3>4, <3>5, <4>2
        <4> QED
          BY <4>1, <4>2
      <3>6. ASSUME NEW i \in Index, NEW j \in Index, NEW k \in Kinds, NEW l \in Kinds,
                   Req(i, k)' # NoReq, Req(j, l)' # NoReq, Req(i, k)'.block = Req(j, l)'.block
            PROVE i = j /\ k = l
        <4>1. CASE ~(i = n /\ k = kind) /\ ~(j = n /\ l = kind)
          BY <3>2, <3>6, <4>1 DEF BlockInv
        <4>2. CASE i = n /\ k = kind /\ ~(j = n /\ l = kind)
          BY <3>2, <3>4, <3>6, <4>2
        <4>3. CASE ~(i = n /\ k = kind) /\ j = n /\ l = kind
          BY <3>2, <3>4, <3>6, <4>3
        <4> QED
          BY <4>1, <4>2, <4>3
      <3> QED
        BY <3>5, <3>6 DEF BlockInv
    <2> QED
      BY <2>1, <2>2, <2>3
  <1>2. CASE SubframeInd
    <2>1. \A i \in Index, k \in Kinds : Req(i, k)' # NoReq => Req(i, k)' = Req(i, k) /\ ~Due(i, k)
      BY <1>2, PassOnFacts
    <2>2. ASSUME NEW i \in Index, NEW k \in Kinds, Req(i, k)' # NoReq
          PROVE Req(i, k)'.block \in heap'
      <3>1. /\ Req(i, k)' = Req(i, k) /\ Req(i, k) # NoReq /\ ~Due(i, k)
            /\ Req(i, k).block \in heap
        BY <2>1, <2>2 DEF BlockInv
      <3>2. ~\E j \in Index, l \in Kinds : Due(j, l) /\ Req(j, l) # NoReq /\ Req(j, l).block = Req(i, k).block
        BY <3>1 DEF BlockInv
      <3> QED
        BY <1>2, <3>1, <3>2, PassOnFacts
    <2> QED
      BY <2>1, <2>2 DEF BlockInv
  <1>3. CASE DlNodeSync \/ UNCHANGED vars
    BY <1>3 DEF DlNodeSync, vars, BlockInv, Req
  <1> QED
    BY <1>1, <1>2, <1>3 DEF Next

(* Until the first shift no block is forgotten. *)
LEMMA NoLeakStep ==
  ASSUME SizeDivides, TypeOK, RingInv, NoLeak, [Next]_vars
  PROVE NoLeak'
  <1>1. CASE Request
    <2>1. PICK kind \in Kinds, x \in Labels, b \in Heap \ heap :
               Store(kind, [sfn_sf |-> x, block |-> b]) \/ Refuse(kind)
      BY <1>1, RequestCases
    <2>2. UNCHANGED shifted
      BY <1>1, RequestCases
    <2>3. CASE Refuse(kind)
      BY <2>2, <2>3 DEF Refuse, NoLeak, Req
    <2>4. CASE Store(kind, [sfn_sf |-> x, block |-> b])
      <3> DEFINE n == Dec(x) % Size
      <3>1. n \in Index /\ \A c : c \in heap' <=> (c \in heap \/ c = b) /\ c # Req(n, kind).block
        BY <2>4, StoreFacts
      <3>2. \A i \in Index, k \in Kinds :
              Req(i, k)' = IF i = n /\ k = kind THEN [sfn_sf |-> x, block |-> b] ELSE Req(i, k)
        BY <2>4, StoreFacts DEF Req
      <3> HIDE DEF n
      <3>3. ASSUME NEW c \in heap', ~shifted
            PROVE \E i \in Index, k \in Kinds : Req(i, k)' # NoReq /\ Req(i, k)'.block = c
        <4>1. CASE c = b
          <5>1. Req(n, kind)' = [sfn_sf |-> x, block |-> b]
            BY <3>1, <3>2
          <5>2. Req(n, kind)'.block = b /\ Req(n, kind)' # NoReq
            BY <5>1, BufferAssumption DEF NoReq
          <5> QED
            BY <3>1, <4>1, <5>2
        <4>2. CASE c # b
          <5>1. PICK i \in Index, k \in Kinds : Req(i, k) # NoReq /\ Req(i, k).block = c
            BY <3>1, <3>3, <4>2 DEF NoLeak
          <5>2. ~(i = n /\ k = kind)
            BY <3>1, <5>1
          <5> QED
            BY <3>2, <5>1, <5>2
        <4> QED
          BY <4>1, <4>2
      <3> QED
        BY <2>2, <3>3 DEF NoLeak
    <2> QED
      BY <2>1, <2>3, <2>4
  <1>2. CASE SubframeInd
    <2>1. CASE shifted \/ sfn_sf_shift # 0
      BY <1>2, <2>1 DEF SubframeInd, NoLeak
    <2>2. CASE ~shifted /\ sfn_sf_shift = 0
      <3>1. ASSUME NEW b \in heap'
            PROVE \E i \in Index, k \in Kinds : Req(i, k)' # NoReq /\ Req(i, k)'.block = b
        <4>1. b \in heap /\ ~\E i \in Index, k \in Kinds : Due(i, k) /\ Req(i, k) # NoReq /\ Req(i, k).block = b
          BY <1>2, PassOnFacts
        <4>2. PICK i \in Index, k \in Kinds : Req(i, k) # NoReq /\ Req(i, k).block = b
          BY <2>2, <4>1 DEF NoLeak
        <4>3. Req(i, k)' # NoReq
          BY <1>2, <2>2, <4>1, <4>2, SubframeKeepsRing
        <4>4. Req(i, k)' = Req(i, k)
          BY <1>2, <4>3, PassOnFacts
        <4> QED
          BY <4>2, <4>4
      <3> QED
        BY <3>1 DEF NoLeak
    <2> QED
      BY <2>1, <2>2
  <1>3. CASE DlNodeSync \/ UNCHANGED vars
    BY <1>3 DEF DlNodeSync, vars, NoLeak, Req
  <1> QED
    BY <1>1, <1>2, <1>3 DEF Next

(* For every stream of requests, node syncs and shifts, without any         *)
(* condition: a stored request is allocated and has its block alone, so     *)
(* that none is freed twice or used after it was freed.                     *)
THEOREM BlocksStayOwned == Spec => []BlockInv
  <1>1. Init => BlockInv
    BY EmptyRing DEF BlockInv
  <1> QED
    BY <1>1, BlockStep, BufferType, PTL DEF Spec

(* Until the first shift, and under the conditions above, the allocated     *)
(* blocks are exactly those of the stored requests.                         *)
THEOREM BufferLeaksNothing ==
  ASSUME SizeDivides, TxEarly
  PROVE Spec => []OneOwner
  <1>1. Init => NoLeak
    BY DEF Init, NoLeak
  <1>2. TypeOK /\ RingInv /\ NoLeak /\ [Next]_vars => NoLeak'
    BY NoLeakStep
  <1>3. ASSUME TypeOK, BlockInv, NoLeak
        PROVE OneOwner
    <2>1. /\ DOMAIN subframe_buffer = Index
          /\ \A r : r \in AllStored <=> r # NoReq /\ \E i \in Index, k \in Kinds : r = Req(i, k)
      BY <1>3, StoredFacts
    <2>2. {r.block : r \in AllStored} \subseteq heap
      BY <1>3, <2>1 DEF BlockInv
    <2>3. ~shifted => heap = {r.block : r \in AllStored}
      <3>1. SUFFICES ASSUME ~shifted PROVE heap \subseteq {r.block : r \in AllStored}
        BY <2>2
      <3>2. ASSUME NEW b \in heap
            PROVE \E r \in AllStored : r.block = b
        BY <1>3, <2>1, <3>1 DEF NoLeak
      <3> QED
        BY <3>2
    <2>4. ASSUME NEW i \in Index, NEW j \in Index, NEW k \in Kinds, NEW l \in Kinds,
                 Req(i, k) # NoReq, Req(i, k).block = Req(j, l).block
          PROVE i = j /\ k = l
      <3>1. Req(j, l) # NoReq
        BY <1>3, <2>4, StoredRequest, BufferAssumption
      <3> QED
        BY <1>3, <2>4, <3>1 DEF BlockInv
    <2> QED
      BY <2>1, <2>2, <2>3, <2>4 DEF OneOwner, Req
  <1> QED
    BY <1>1, <1>2, <1>3, RingInvariant, BlocksStayOwned, PTL DEF Spec

=============================================================================
