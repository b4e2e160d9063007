------------------------- MODULE P7SlotBufferProofs -------------------------
(* The slot buffer for any numbering of slots and any heap.                 *)
EXTENDS P7SlotBuffer, TLAPS

(* Products grow with their factors. *)
LEMMA Product ==
  ASSUME NEW b \in Nat \ {0}, NEW q \in Int
  PROVE /\ q * b \in Int
        /\ q >= 1 => q * b >= b
        /\ q <= -1 => q * b <= -b
        /\ q = 0 => q * b = 0
  OBVIOUS

(* Quotient and remainder. *)
LEMMA DivMod ==
  ASSUME NEW a \in Int, NEW b \in Nat \ {0}
  PROVE a \div b \in Int /\ a % b \in 0 .. b - 1 /\ a = (a \div b) * b + (a % b)
  OBVIOUS

(* Numbers less than m apart, forwards and backwards round the circle. *)
LEMMA Wrap ==
  ASSUME NEW m \in Nat \ {0}, NEW a \in 0 .. m - 1
  PROVE /\ \A n \in 0 .. m : (a + n) % m = IF a + n < m THEN a + n ELSE a + n - m
        /\ \A b \in 0 .. m - 1 : (a - b) % m = IF a >= b THEN a - b ELSE a - b + m
  OBVIOUS

(* Of a distance of less than s between numbers that differ by a multiple   *)
(* of s, nothing remains.                                                   *)
LEMMA SameResidue ==
  ASSUME NEW s \in Nat \ {0}, NEW a \in Int, NEW b \in Int, NEW k \in Int, a % s = b % s,
         a - b + k * s < s, a - b + k * s > -s
  PROVE a - b + k * s = 0
  <1>1. PICK p \in Int, q \in Int, r \in 0 .. s - 1 : a = p * s + r /\ b = q * s + r
    OBVIOUS
  <1>2. /\ (p - q + k) * s = p * s - q * s + k * s
        /\ p * s \in Int /\ q * s \in Int /\ k * s \in Int
    OBVIOUS
  <1>3. (p - q + k) * s = a - b + k * s
    BY <1>1, <1>2
  <1>4. \A n \in Int : (n >= 1 => n * s >= s) /\ (n <= -1 => n * s <= -s) /\ (n = 0 => n * s = 0)
    OBVIOUS
  <1>5. p - q + k \in Int /\ (p - q + k >= 1 \/ p - q + k = 0 \/ p - q + k <= -1)
    OBVIOUS
  <1> QED
    BY <1>3, <1>4, <1>5

-----------------------------------------------------------------------------

Index == 0 .. SlotsPerFrame - 1
Requests == [slot : 0 .. M - 1, block : Heap]
Req(i, kind) == slot_buffer[i][kind]

(* The types of what the two threads share. *)
BufferTypes ==
  /\ rx \in 0 .. M - 1 /\ tx = (rx + Ahead) % M
  /\ slot_buffer \in [Index -> [SlotKinds -> Requests \cup {NoReq}]]
  /\ heap \subseteq Heap

(* The slot of a slot indication, the slot whose UL_DCI request is due, and *)
(* their entries.                                                           *)
Now == (rx + 1) % M
Tx == (Now + Ahead) % M
NowIndex == Now % SlotsPerFrame
TxIndex == Tx % SlotsPerFrame

(* A slot indication takes the UL_DCI request of the transmit slot and the  *)
(* UL_TTI request of the received slot.                                     *)
Due(i, kind) ==
  \/ i = TxIndex /\ kind = "ul_dci_req"
  \/ i = NowIndex /\ kind = "ul_tti_req"

-----------------------------------------------------------------------------
(* The slots are counted by positive numbers, a whole number of rings.      *)
LEMMA Moduli ==
  /\ M \in Nat \ {0} /\ SlotsPerFrame \in Nat \ {0} /\ SlotsPerFrame <= M
  /\ Ahead \in 0 .. M - 1 /\ Ahead < SlotsPerFrame
  /\ Frames \in Nat /\ M = Frames * SlotsPerFrame
  <1>1. /\ SlotsPerFrame \in Nat \ {0} /\ Frames \in Nat \ {0} /\ Frames >= 1
        /\ Ahead \in 0 .. SlotsPerFrame - 1
    BY SlotAssumption
  <1>2. Frames * SlotsPerFrame \in Int /\ Frames * SlotsPerFrame >= SlotsPerFrame
    BY <1>1, Product
  <1> QED
    BY <1>1, <1>2 DEF M

(* A number of slots up to one round ahead, without division. *)
LEMMA SlotsAhead ==
  ASSUME NEW r \in 0 .. M - 1, NEW n \in 0 .. M
  PROVE /\ (r + n) % M \in 0 .. M - 1
        /\ (r + n) % M = IF r + n < M THEN r + n ELSE r + n - M
  <1>1. (r + n) % M = IF r + n < M THEN r + n ELSE r + n - M
    BY Moduli, Wrap
  <1> QED
    BY <1>1, Moduli

(* With every slot, the others come one nearer. *)
LEMMA OneNearer ==
  ASSUME NEW r \in 0 .. M - 1, NEW n \in 1 .. M
  PROVE (r + n) % M = (((r + 1) % M) + (n - 1)) % M
  <1>1. 1 \in 0 .. M /\ n \in 0 .. M /\ n - 1 \in 0 .. M
    BY Moduli
  <1>2. /\ (r + 1) % M \in 0 .. M - 1
        /\ (r + 1) % M = IF r + 1 < M THEN r + 1 ELSE r + 1 - M
        /\ (r + n) % M = IF r + n < M THEN r + n ELSE r + n - M
    BY <1>1, SlotsAhead
  <1> DEFINE d == (r + 1) % M
  <1> HIDE DEF d
  <1>3. (d + (n - 1)) % M = IF d + (n - 1) < M THEN d + (n - 1) ELSE d + (n - 1) - M
    BY <1>1, <1>2, SlotsAhead DEF d
  <1>4. (r + n) % M = (d + (n - 1)) % M
    BY <1>2, <1>3, Moduli DEF d
  <1> QED
    BY <1>4 DEF d

(* Of two slots less than a ring apart that share an entry, both are the    *)
(* same.                                                                    *)
LEMMA SameEntry ==
  ASSUME NEW r \in 0 .. M - 1, NEW m \in 0 .. M, NEW n \in 0 .. M,
         m - n < SlotsPerFrame, m - n > -SlotsPerFrame,
         ((r + m) % M) % SlotsPerFrame = ((r + n) % M) % SlotsPerFrame
  PROVE m = n
  <1> DEFINE a == (r + m) % M
             b == (r + n) % M
             S == SlotsPerFrame
  <1>1. /\ a \in 0 .. M - 1 /\ b \in 0 .. M - 1
        /\ a = IF r + m < M THEN r + m ELSE r + m - M
        /\ b = IF r + n < M THEN r + n ELSE r + n - M
    BY SlotsAhead
  <1>2. a % S = b % S /\ S \in Nat \ {0} /\ M \in Nat /\ Frames \in Nat /\ M = Frames * S
    BY Moduli
  <1> HIDE DEF a, b, S
  <1>3. m - n = a - b + 0 \/ m - n = a - b + M \/ m - n = a - b - M
    BY <1>1, <1>2
  <1>4. PICK k \in Int : m - n = a - b + k * S
    <2>1. 0 = 0 * S /\ -M = (-Frames) * S /\ -Frames \in Int /\ 0 \in Int /\ Frames \in Int
      BY <1>2
    <2>2. CASE m - n = a - b + 0
      BY <2>1, <2>2
    <2>3. CASE m - n = a - b + M
      BY <1>2, <2>1, <2>3
    <2>4. CASE m - n = a - b - M
      <3>1. m - n = a - b + (-Frames) * S
        BY <1>1, <1>2, <2>1, <2>4
      <3> QED
        BY <2>1, <3>1
    <2> QED
      BY <1>3, <2>2, <2>3, <2>4
  <1>5. a - b + k * S < S /\ a - b + k * S > -S
    BY <1>4 DEF S
  <1>6. a - b + k * S = 0
    <2>1. a \in Int /\ b \in Int
      BY <1>1, <1>2
    <2> QED
      BY <1>2, <1>5, <2>1, SameResidue
  <1> QED
    BY <1>4, <1>6, Moduli

-----------------------------------------------------------------------------
(* What the steps do to the ring.                                           *)

(* The entries exist. *)
LEMMA Indexes ==
  ASSUME BufferTypes
  PROVE /\ Now \in 0 .. M - 1 /\ Tx \in 0 .. M - 1 /\ Tx = (rx + (Ahead + 1)) % M
        /\ NowIndex \in Index /\ TxIndex \in Index
  <1>1. rx \in 0 .. M - 1 /\ 1 \in 0 .. M /\ Ahead \in 0 .. M /\ Ahead + 1 \in 1 .. M /\ Ahead + 1 - 1 = Ahead
    BY Moduli DEF BufferTypes
  <1>2. Now \in 0 .. M - 1
    BY <1>1, SlotsAhead DEF Now
  <1>3. Tx \in 0 .. M - 1
    BY <1>1, <1>2, SlotsAhead DEF Tx
  <1>4. Tx = (rx + (Ahead + 1)) % M
    BY <1>1, OneNearer DEF Tx, Now
  <1>5. Now \in Int /\ Tx \in Int
    BY <1>2, <1>3, Moduli
  <1>6. NowIndex \in Index /\ TxIndex \in Index
    BY <1>5, DivMod, Moduli DEF NowIndex, TxIndex, Index
  <1> QED
    BY <1>2, <1>3, <1>4, <1>6

(* A stored request has a slot and a block. *)
LEMMA StoredRequest ==
  ASSUME BufferTypes, NEW i \in Index, NEW kind \in SlotKinds
  PROVE /\ Req(i, kind) \in Requests \cup {NoReq}
        /\ Req(i, kind) # NoReq => Req(i, kind).slot \in 0 .. M - 1 /\ Req(i, kind).block \in Heap
        /\ Req(i, kind) = NoReq => Req(i, kind).slot = -1 /\ Req(i, kind).block = 0
  <1>1. Req(i, kind) \in Requests \cup {NoReq}
    BY DEF BufferTypes, Req
  <1> QED
    BY <1>1 DEF Requests, NoReq

(* A request handler stores a new block under the slot of the request. *)
LEMMA RequestCases ==
  ASSUME BufferTypes, Request
  PROVE /\ \E kind \in SlotKinds, d \in 0 .. M - 1, b \in Heap \ heap :
             /\ StoreSlot(kind, [slot |-> d, block |-> b])
             /\ \E lead \in IF kind = "ul_tti_req" THEN TtiLeads ELSE DciLeads : d = (rx + lead) % M
        /\ UNCHANGED <<rx, tx>> /\ freed' = {}
  <1>1. \A lead \in TtiLeads \cup DciLeads : (rx + lead) % M \in 0 .. M - 1
    <2>1. SUFFICES ASSUME NEW lead \in TtiLeads \cup DciLeads PROVE (rx + lead) % M \in 0 .. M - 1
      OBVIOUS
    <2>2. rx + lead \in Int
      BY SlotAssumption, Moduli DEF BufferTypes
    <2> QED
      BY <2>2, DivMod, Moduli
  <1>2. PICK kind \in SlotKinds, lead \in TtiLeads \cup DciLeads :
            /\ HandleSlotRequest(kind, (rx + lead) % M)
            /\ lead \in IF kind = "ul_tti_req" THEN TtiLeads ELSE DciLeads
    BY DEF Request, SlotKinds
  <1>3. PICK b \in Heap \ heap : StoreSlot(kind, [slot |-> (rx + lead) % M, block |-> b])
    BY <1>2 DEF HandleSlotRequest
  <1> QED
    BY <1>1, <1>2, <1>3 DEF HandleSlotRequest

(* The entry of the slot takes the request, the old one is freed. *)
LEMMA StoreFacts ==
  ASSUME BufferTypes, NEW kind \in SlotKinds, NEW d \in 0 .. M - 1, NEW b \in Heap \ heap,
         StoreSlot(kind, [slot |-> d, block |-> b])
  PROVE /\ d % SlotsPerFrame \in Index
        /\ slot_buffer' \in [Index -> [SlotKinds -> Requests \cup {NoReq}]]
        /\ \A i \in Index, k \in SlotKinds :
             Req(i, k)' = IF i = d % SlotsPerFrame /\ k = kind THEN [slot |-> d, block |-> b] ELSE Req(i, k)
        /\ \A c : c \in heap' <=> (c \in heap \/ c = b) /\ c # Req(d % SlotsPerFrame, kind).block
        /\ dropped' = IF Req(d % SlotsPerFrame, kind).slot = d THEN {}
                      ELSE Lost(kind, Req(d % SlotsPerFrame, kind))
  <1> DEFINE n == d % SlotsPerFrame
             r == [slot |-> d, block |-> b]
  <1>1. n \in Index
    <2>1. d \in Int
      BY Moduli
    <2> QED
      BY <2>1, DivMod, Moduli DEF Index
  <1>2. r \in Requests /\ r.slot = d /\ r.block = b
    BY DEF Requests
  <1>3. /\ slot_buffer' = [slot_buffer EXCEPT ![n][kind] = r]
        /\ heap' = (heap \cup {b}) \ {slot_buffer[n][kind].block}
        /\ dropped' = IF slot_buffer[n][kind].slot = d THEN {} ELSE Lost(kind, slot_buffer[n][kind])
    BY DEF StoreSlot
  <1>4. slot_buffer \in [Index -> [SlotKinds -> Requests \cup {NoReq}]]
    BY DEF BufferTypes
  <1> HIDE DEF n, r
  <1>5. slot_buffer' \in [Index -> [SlotKinds -> Requests \cup {NoReq}]]
    BY <1>1, <1>2, <1>3, <1>4
  <1>6. \A i \in Index, k \in SlotKinds :
          slot_buffer'[i][k] = IF i = n /\ k = kind THEN r ELSE slot_buffer[i][k]
    BY <1>1, <1>3, <1>4
  <1> QED
    BY <1>1, <1>3, <1>5, <1>6 DEF Req, n, r

(* A slot indication frees what is due and empties the entry of its slot,   *)
(* with an UL_DCI request that it may still hold.                           *)
LEMMA SlotIndFacts ==
  ASSUME BufferTypes, SlotInd
  PROVE /\ rx' = Now /\ tx' = Tx
        /\ slot_buffer' \in [Index -> [SlotKinds -> Requests \cup {NoReq}]]
        /\ \A i \in Index, k \in SlotKinds :
             Req(i, k)' = IF i = NowIndex \/ Due(i, k) THEN NoReq ELSE Req(i, k)
        /\ heap' = heap \ {Req(NowIndex, "ul_tti_req").block, Req(TxIndex, "ul_dci_req").block}
        /\ freed' = Taken("ul_dci_req", Req(TxIndex, "ul_dci_req"), Tx)
                      \cup Taken("ul_tti_req", Req(NowIndex, "ul_tti_req"), Now)
        /\ dropped' = Lost("ul_dci_req", IF NowIndex = TxIndex THEN NoReq ELSE Req(NowIndex, "ul_dci_req"))
  <1>1. rx' = Now /\ tx' = Tx /\ UseEntries(Now)
    BY DEF SlotInd, sfnslot_add_slot, Now, Tx
  <1>2. NowIndex \in Index /\ TxIndex \in Index
    BY Indexes
  <1>3. slot_buffer \in [Index -> [SlotKinds -> Requests \cup {NoReq}]]
    BY DEF BufferTypes
  <1> DEFINE buffer1 == [slot_buffer EXCEPT ![TxIndex]["ul_dci_req"] = NoReq]
  <1>4. /\ buffer1 \in [Index -> [SlotKinds -> Requests \cup {NoReq}]]
        /\ \A i \in Index, k \in SlotKinds :
             buffer1[i][k] = IF i = TxIndex /\ k = "ul_dci_req" THEN NoReq ELSE slot_buffer[i][k]
    BY <1>2, <1>3
  <1>5. /\ freed' = Taken("ul_dci_req", slot_buffer[TxIndex]["ul_dci_req"], Tx)
                      \cup Taken("ul_tti_req", buffer1[NowIndex]["ul_tti_req"], Now)
        /\ dropped' = Lost("ul_dci_req", buffer1[NowIndex]["ul_dci_req"])
        /\ slot_buffer' = [buffer1 EXCEPT ![NowIndex] = EmptyEntry]
        /\ heap' = heap \ {buffer1[NowIndex]["ul_tti_req"].block, slot_buffer[TxIndex]["ul_dci_req"].block}
    BY <1>1, Zenon DEF UseEntries, NowIndex, TxIndex
  <1> HIDE DEF buffer1
  <1>6. EmptyEntry \in [SlotKinds -> Requests \cup {NoReq}] /\ \A k \in SlotKinds : EmptyEntry[k] = NoReq
    BY DEF EmptyEntry
  <1>7. slot_buffer' \in [Index -> [SlotKinds -> Requests \cup {NoReq}]]
    BY <1>4, <1>5, <1>6
  <1>8. \A i \in Index : slot_buffer'[i] = IF i = NowIndex THEN EmptyEntry ELSE buffer1[i]
    BY <1>4, <1>5
  <1>9. \A i \in Index, k \in SlotKinds :
          Req(i, k)' = IF i = NowIndex \/ Due(i, k) THEN NoReq ELSE Req(i, k)
    BY <1>4, <1>6, <1>8 DEF Req, Due
  <1>10. /\ buffer1[NowIndex]["ul_tti_req"] = Req(NowIndex, "ul_tti_req")
         /\ slot_buffer[TxIndex]["ul_dci_req"] = Req(TxIndex, "ul_dci_req")
         /\ buffer1[NowIndex]["ul_dci_req"] = IF NowIndex = TxIndex THEN NoReq
                                              ELSE Req(NowIndex, "ul_dci_req")
    BY <1>2, <1>4 DEF Req, SlotKinds
  <1> QED
    BY <1>1, <1>5, <1>7, <1>9, <1>10

-----------------------------------------------------------------------------
(* The invariants.                                                          *)

(* The condition of the theorems about due requests: the VNF sends at most  *)
(* one ring ahead, and UL_DCI requests before their transmit slot.          *)
InRing ==
  /\ TtiLeads \subseteq 1 .. SlotsPerFrame
  /\ DciLeads \subseteq (Ahead + 1) .. SlotsPerFrame

(* How far ahead a stored request of a kind is at least. *)
Nearest(kind) == IF kind = "ul_dci_req" THEN Ahead + 1 ELSE 1

(* A stored request is in the entry of its slot and its turn is to come. *)
InPlace(i, kind, slot, cur) ==
  slot % SlotsPerFrame = i /\ \E n \in Nearest(kind) .. SlotsPerFrame : slot = (cur + n) % M

PlaceInv ==
  \A i \in Index, k \in SlotKinds : Req(i, k) # NoReq => InPlace(i, k, Req(i, k).slot, rx)

(* The blocks of the stored requests are allocated and all different. *)
BlockInv ==
  /\ \A i \in Index, k \in SlotKinds : Req(i, k) # NoReq => Req(i, k).block \in heap
  /\ \A i, j \in Index, k, l \in SlotKinds :
       Req(i, k) # NoReq /\ Req(j, l) # NoReq /\ Req(i, k).block = Req(j, l).block => i = j /\ k = l

(* The allocated blocks are those of the stored requests. *)
NoLeak == \A b \in heap : \E i \in Index, k \in SlotKinds : Req(i, k) # NoReq /\ Req(i, k).block = b

(* The ring is empty at the start. *)
LEMMA EmptyRing == Init => BufferTypes /\ \A i \in Index, k \in SlotKinds : Req(i, k) = NoReq
  <1> SUFFICES ASSUME Init PROVE BufferTypes /\ \A i \in Index, k \in SlotKinds : Req(i, k) = NoReq
    OBVIOUS
  <1>1. EmptyEntry \in [SlotKinds -> Requests \cup {NoReq}] /\ \A k \in SlotKinds : EmptyEntry[k] = NoReq
    BY DEF EmptyEntry
  <1>2. slot_buffer = [i \in Index |-> EmptyEntry]
    BY DEF Init, Index
  <1> QED
    BY <1>1, <1>2 DEF Init, BufferTypes, Req, sfnslot_add_slot

(* The types are kept. *)
LEMMA TypesStep ==
  ASSUME BufferTypes, [Next]_vars
  PROVE BufferTypes'
  <1>1. CASE Request
    <2>1. PICK kind \in SlotKinds, d \in 0 .. M - 1, b \in Heap \ heap :
               StoreSlot(kind, [slot |-> d, block |-> b])
      BY <1>1, RequestCases
    <2>2. slot_buffer' \in [Index -> [SlotKinds -> Requests \cup {NoReq}]]
      BY <2>1, StoreFacts
    <2>3. \A c : c \in heap' => c \in heap \/ c = b
      BY <2>1, StoreFacts
    <2>4. rx' = rx /\ tx' = tx
      BY <1>1, RequestCases
    <2> QED
      BY <2>2, <2>3, <2>4 DEF BufferTypes
  <1>2. CASE SlotInd
    <2>1. /\ rx' = Now /\ tx' = (Now + Ahead) % M
          /\ slot_buffer' \in [Index -> [SlotKinds -> Requests \cup {NoReq}]]
          /\ heap' \subseteq heap
      BY <1>2, SlotIndFacts DEF Tx
    <2> QED
      BY <2>1, Indexes DEF BufferTypes
  <1>3. CASE Forward \/ DlNodeSync \/ UNCHANGED vars
    <2>1. UNCHANGED <<rx, tx, slot_buffer, heap>>
      BY <1>3 DEF Forward, DlNodeSync, vars
    <2> QED
      BY <2>1 DEF BufferTypes
  <1> QED
    BY <1>1, <1>2, <1>3 DEF Next

(* No block is freed while a request uses it, nor given to a second one. *)
LEMMA BlockStep ==
  ASSUME BufferTypes, BlockInv, [Next]_vars
  PROVE BlockInv'
  <1>1. CASE Request
    <2>1. PICK kind \in SlotKinds, d \in 0 .. M - 1, b \in Heap \ heap :
               StoreSlot(kind, [slot |-> d, block |-> b])
      BY <1>1, RequestCases
    <2> DEFINE n == d % SlotsPerFrame
               r == [slot |-> d, block |-> b]
    <2>2. n \in Index /\ \A c : c \in heap' <=> (c \in heap \/ c = b) /\ c # Req(n, kind).block
      BY <2>1, StoreFacts
    <2>3. \A i \in Index, k \in SlotKinds :
            Req(i, k)' = IF i = n /\ k = kind THEN r ELSE Req(i, k)
      BY <2>1, StoreFacts
    <2>4. r.block = b
      OBVIOUS
    <2> HIDE DEF n, r
    <2>5. b # Req(n, kind).block
      <3>1. CASE Req(n, kind) = NoReq
        BY <2>2, <3>1, StoredRequest, SlotAssumption
      <3>2. CASE Req(n, kind) # NoReq
        BY <2>2, <3>2 DEF BlockInv
      <3> QED
        BY <3>1, <3>2
    <2>6. ASSUME NEW i \in Index, NEW k \in SlotKinds, Req(i, k) # NoReq, ~(i = n /\ k = kind)
          PROVE Req(i, k).block \in heap /\ Req(i, k).block # Req(n, kind).block
      <3>1. Req(i, k).block \in heap /\ Req(i, k).block \in Heap
        BY <2>6, StoredRequest DEF BlockInv
      <3>2. CASE Req(n, kind) = NoReq
        BY <2>2, <3>1, <3>2, StoredRequest, SlotAssumption
      <3>3. CASE Req(n, kind) # NoReq
        BY <2>2, <2>6, <3>1, <3>3 DEF BlockInv
      <3> QED
        BY <3>1, <3>2, <3>3
    <2>7. ASSUME NEW i \in Index, NEW k \in SlotKinds, Req(i, k)' # NoReq
          PROVE Req(i, k)'.block \in heap'
      <3>1. CASE i = n /\ k = kind
        BY <2>2, <2>3, <2>4, <2>5, <3>1
      <3>2. CASE ~(i = n /\ k = kind)
        BY <2>2, <2>3, <2>6, <2>7, <3>2
      <3> QED
        BY <3>1, <3>2
    <2>8. ASSUME NEW i \in Index, NEW j \in Index, NEW k \in SlotKinds, NEW l \in SlotKinds,
                 Req(i, k)' # NoReq, Req(j, l)' # NoReq, Req(i, k)'.block = Req(j, l)'.block
          PROVE i = j /\ k = l
      <3>1. CASE ~(i = n /\ k = kind) /\ ~(j = n /\ l = kind)
        BY <2>3, <2>8, <3>1 DEF BlockInv
      <3>2. CASE i = n /\ k = kind /\ ~(j = n /\ l = kind)
        BY <2>3, <2>4, <2>6, <2>8, <3>2
      <3>3. CASE ~(i = n /\ k = kind) /\ j = n /\ l = kind
        BY <2>3, <2>4, <2>6, <2>8, <3>3
      <3> QED
        BY <3>1, <3>2, <3>3
    <2> QED
      BY <2>7, <2>8 DEF BlockInv
  <1>2. CASE SlotInd
    <2>1. \A i \in Index, k \in SlotKinds :
            Req(i, k)' # NoReq => Req(i, k)' = Req(i, k) /\ ~Due(i, k)
      BY <1>2, SlotIndFacts
    <2>2. ASSUME NEW i \in Index, NEW k \in SlotKinds, Req(i, k)' # NoReq
          PROVE Req(i, k)'.block \in heap'
      <3>1. /\ Req(i, k)' = Req(i, k) /\ Req(i, k) # NoReq /\ ~Due(i, k)
            /\ Req(i, k).block \in heap /\ Req(i, k).block # 0
        BY <2>1, <2>2, StoredRequest, SlotAssumption DEF BlockInv
      <3>2. ASSUME NEW j \in Index, NEW l \in SlotKinds, Due(j, l)
            PROVE Req(i, k).block # Req(j, l).block
        <4>1. CASE Req(j, l) = NoReq
          BY <3>1, <4>1, StoredRequest
        <4>2. CASE Req(j, l) # NoReq
          BY <3>1, <3>2, <4>2 DEF BlockInv
        <4> QED
          BY <4>1, <4>2
      <3>3. /\ Req(i, k).block # Req(NowIndex, "ul_tti_req").block
            /\ Req(i, k).block # Req(TxIndex, "ul_dci_req").block
        BY <3>2, Indexes DEF Due, SlotKinds
      <3> QED
        BY <1>2, <3>1, <3>3, SlotIndFacts
    <2> QED
      BY <2>1, <2>2 DEF BlockInv
  <1>3. CASE Forward \/ DlNodeSync \/ UNCHANGED vars
    BY <1>3 DEF Forward, DlNodeSync, vars, BlockInv, Req
  <1> QED
    BY <1>1, <1>2, <1>3 DEF Next

(* A request that is stored comes to the entry of its slot and replaces at  *)
(* most one for the same slot.                                              *)
LEMMA StoreKeepsPlaces ==
  ASSUME InRing, BufferTypes, PlaceInv, Request
  PROVE PlaceInv' /\ dropped' = {} /\ freed' = {}
  <1>1. PICK kind \in SlotKinds, d \in 0 .. M - 1, b \in Heap \ heap :
             /\ StoreSlot(kind, [slot |-> d, block |-> b])
             /\ \E lead \in IF kind = "ul_tti_req" THEN TtiLeads ELSE DciLeads : d = (rx + lead) % M
    BY RequestCases
  <1>2. PICK lead \in Nearest(kind) .. SlotsPerFrame : d = (rx + lead) % M
    BY <1>1 DEF InRing, Nearest, SlotKinds
  <1> DEFINE n == d % SlotsPerFrame
             r == [slot |-> d, block |-> b]
  <1>3. /\ n \in Index
        /\ dropped' = IF Req(n, kind).slot = d THEN {} ELSE Lost(kind, Req(n, kind))
        /\ \A i \in Index, k \in SlotKinds :
             Req(i, k)' = IF i = n /\ k = kind THEN r ELSE Req(i, k)
    BY <1>1, StoreFacts
  <1>4. r.slot = d /\ rx' = rx
    BY RequestCases
  <1>5. InPlace(n, kind, d, rx)
    BY <1>2 DEF InPlace
  <1> HIDE DEF r
  <1>6. PlaceInv'
    <2>1. ASSUME NEW i \in Index, NEW k \in SlotKinds, Req(i, k)' # NoReq
          PROVE InPlace(i, k, Req(i, k)'.slot, rx')
      <3>1. CASE i = n /\ k = kind
        BY <1>3, <1>4, <1>5, <3>1
      <3>2. CASE ~(i = n /\ k = kind)
        BY <1>3, <1>4, <2>1, <3>2 DEF PlaceInv
      <3> QED
        BY <3>1, <3>2
    <2> QED
      BY <2>1 DEF PlaceInv, InPlace
  <1>7. dropped' = {}
    <2>1. CASE Req(n, kind) = NoReq
      BY <1>3, <2>1 DEF Lost
    <2>2. CASE Req(n, kind) # NoReq
      <3>1. InPlace(n, kind, Req(n, kind).slot, rx)
        BY <1>3, <2>2 DEF PlaceInv
      <3>2. PICK m \in Nearest(kind) .. SlotsPerFrame : Req(n, kind).slot = (rx + m) % M
        BY <3>1 DEF InPlace
      <3>3. ((rx + m) % M) % SlotsPerFrame = ((rx + lead) % M) % SlotsPerFrame
        BY <1>2, <3>1, <3>2 DEF InPlace
      <3>4. Nearest(kind) \in Int /\ Nearest(kind) >= 1
        BY Moduli DEF Nearest
      <3>5. /\ m \in 0 .. M /\ lead \in 0 .. M
            /\ m - lead < SlotsPerFrame /\ m - lead > -SlotsPerFrame
        BY <3>4, Moduli
      <3>6. rx \in 0 .. M - 1
        BY DEF BufferTypes
      <3>7. m = lead
        BY <3>3, <3>5, <3>6, SameEntry
      <3> QED
        BY <1>2, <1>3, <3>2, <3>7
    <2> QED
      BY <2>1, <2>2
  <1>8. freed' = {}
    BY RequestCases
  <1> QED
    BY <1>6, <1>7, <1>8

(* What is due at a slot indication is exactly for the two slots it is      *)
(* about, and the entry that is reset holds nothing else.                   *)
LEMMA DueIsInTime ==
  ASSUME BufferTypes, PlaceInv
  PROVE /\ Req(NowIndex, "ul_tti_req") # NoReq => Req(NowIndex, "ul_tti_req").slot = Now
        /\ Req(TxIndex, "ul_dci_req") # NoReq => Req(TxIndex, "ul_dci_req").slot = Tx
        /\ NowIndex # TxIndex => Req(NowIndex, "ul_dci_req") = NoReq
  <1>1. /\ NowIndex \in Index /\ TxIndex \in Index
        /\ Tx = (rx + (Ahead + 1)) % M /\ Now = (rx + 1) % M
        /\ rx \in 0 .. M - 1 /\ 1 \in 0 .. M /\ Ahead + 1 \in 0 .. M
    BY Indexes, Moduli DEF Now, BufferTypes
  <1>2. ASSUME NEW kind \in SlotKinds, NEW i \in Index, NEW p \in 0 .. M, Req(i, kind) # NoReq,
               i = ((rx + p) % M) % SlotsPerFrame, p \in 1 .. Nearest(kind)
        PROVE p = Nearest(kind) /\ Req(i, kind).slot = (rx + p) % M
    <2>1. InPlace(i, kind, Req(i, kind).slot, rx)
      BY <1>2 DEF PlaceInv
    <2>2. PICK m \in Nearest(kind) .. SlotsPerFrame : Req(i, kind).slot = (rx + m) % M
      BY <2>1 DEF InPlace
    <2>3. ((rx + m) % M) % SlotsPerFrame = ((rx + p) % M) % SlotsPerFrame
      BY <1>2, <2>1, <2>2 DEF InPlace
    <2>4. Nearest(kind) \in Int /\ Nearest(kind) >= 1
      BY Moduli DEF Nearest
    <2>5. m \in 0 .. M /\ m - p < SlotsPerFrame /\ m - p > -SlotsPerFrame
      BY <1>2, <2>4, Moduli
    <2>6. m = p
      BY <1>1, <2>3, <2>5, SameEntry
    <2>7. p = Nearest(kind)
      BY <1>2, <2>4, <2>6
    <2> QED
      BY <2>2, <2>6, <2>7
  <1>3. Req(NowIndex, "ul_tti_req") # NoReq => Req(NowIndex, "ul_tti_req").slot = Now
    BY <1>1, <1>2 DEF Nearest, SlotKinds, NowIndex
  <1>4. Req(TxIndex, "ul_dci_req") # NoReq => Req(TxIndex, "ul_dci_req").slot = Tx
    BY <1>1, <1>2, Moduli DEF Nearest, SlotKinds, TxIndex
  <1>5. ASSUME Req(NowIndex, "ul_dci_req") # NoReq
        PROVE NowIndex = TxIndex
    <2>1. 1 \in 1 .. Nearest("ul_dci_req") /\ "ul_dci_req" \in SlotKinds
      BY Moduli DEF Nearest, SlotKinds
    <2>2. 1 = Nearest("ul_dci_req")
      BY <1>1, <1>2, <1>5, <2>1 DEF NowIndex
    <2>3. Ahead + 1 = 1
      BY <2>2, Moduli DEF Nearest
    <2> QED
      BY <1>1, <2>3 DEF NowIndex, TxIndex
  <1> QED
    BY <1>3, <1>4, <1>5

(* A slot indication frees what is due and forgets nothing. *)
LEMMA SlotIndKeepsPlaces ==
  ASSUME BufferTypes, PlaceInv, SlotInd
  PROVE PlaceInv' /\ dropped' = {} /\ \A f \in freed' : f.slot = f.at
  <1>1. PlaceInv'
    <2>1. ASSUME NEW i \in Index, NEW k \in SlotKinds, Req(i, k)' # NoReq
          PROVE InPlace(i, k, Req(i, k)'.slot, rx')
      <3>1. /\ Req(i, k)' = Req(i, k) /\ Req(i, k) # NoReq /\ ~Due(i, k) /\ rx' = Now
        BY <2>1, SlotIndFacts
      <3>2. InPlace(i, k, Req(i, k).slot, rx)
        BY <3>1 DEF PlaceInv
      <3>3. PICK m \in Nearest(k) .. SlotsPerFrame : Req(i, k).slot = (rx + m) % M
        BY <3>2 DEF InPlace
      <3>4. Nearest(k) \in Int /\ Nearest(k) >= 1
        BY Moduli DEF Nearest
      <3>5. m # Nearest(k)
        <4>1. SUFFICES ASSUME m = Nearest(k) PROVE FALSE
          OBVIOUS
        <4>2. CASE k = "ul_tti_req"
          <5>1. m = 1
            BY <4>1, <4>2 DEF Nearest
          <5>2. i = NowIndex
            BY <3>2, <3>3, <5>1 DEF InPlace, NowIndex, Now
          <5> QED
            BY <3>1, <4>2, <5>2 DEF Due
        <4>3. CASE k = "ul_dci_req"
          <5>1. m = Ahead + 1
            BY <4>1, <4>3 DEF Nearest
          <5>2. i = TxIndex
            BY <3>2, <3>3, <5>1, Indexes DEF InPlace, TxIndex
          <5> QED
            BY <3>1, <4>3, <5>2 DEF Due
        <4> QED
          BY <4>2, <4>3 DEF SlotKinds
      <3>6. m - 1 \in Nearest(k) .. SlotsPerFrame /\ m \in 1 .. M
        BY <3>4, <3>5, Moduli
      <3>7. (rx + m) % M = (Now + (m - 1)) % M
        BY <3>6, OneNearer DEF Now, BufferTypes
      <3> QED
        BY <3>1, <3>2, <3>3, <3>6, <3>7 DEF InPlace
    <2> QED
      BY <2>1 DEF PlaceInv, InPlace
  <1>2. dropped' = {}
    <2>1. dropped' = Lost("ul_dci_req", NoReq)
      BY SlotIndFacts, DueIsInTime
    <2> QED
      BY <2>1 DEF Lost
  <1>3. ASSUME NEW f \in freed'
        PROVE f.slot = f.at
    <2> DEFINE tti == Req(NowIndex, "ul_tti_req")
               dci == Req(TxIndex, "ul_dci_req")
    <2>1. f \in Taken("ul_dci_req", dci, Tx) \cup Taken("ul_tti_req", tti, Now)
      BY <1>3, SlotIndFacts
    <2>2. (tti # NoReq => tti.slot = Now) /\ (dci # NoReq => dci.slot = Tx)
      BY DueIsInTime
    <2> HIDE DEF tti, dci
    <2> QED
      BY <2>1, <2>2 DEF Taken
  <1> QED
    BY <1>1, <1>2, <1>3

(* Every step keeps stored requests in place. *)
LEMMA PlaceStep ==
  ASSUME InRing, BufferTypes, PlaceInv, [Next]_vars
  PROVE PlaceInv'
  <1>1. CASE Forward \/ DlNodeSync \/ UNCHANGED vars
    <2>1. UNCHANGED <<rx, slot_buffer>>
      BY <1>1 DEF Forward, DlNodeSync, vars
    <2> QED
      BY <2>1 DEF PlaceInv, Req, InPlace
  <1> QED
    BY <1>1, StoreKeepsPlaces, SlotIndKeepsPlaces DEF Next

(* No block is forgotten. *)
LEMMA NoLeakStep ==
  ASSUME BufferTypes, PlaceInv, NoLeak, [Next]_vars
  PROVE NoLeak'
  <1>1. CASE Request
    <2>1. PICK kind \in SlotKinds, d \in 0 .. M - 1, b \in Heap \ heap :
               StoreSlot(kind, [slot |-> d, block |-> b])
      BY <1>1, RequestCases
    <2> DEFINE n == d % SlotsPerFrame
               r == [slot |-> d, block |-> b]
    <2>2. n \in Index /\ \A c : c \in heap' <=> (c \in heap \/ c = b) /\ c # Req(n, kind).block
      BY <2>1, StoreFacts
    <2>3. \A i \in Index, k \in SlotKinds :
            Req(i, k)' = IF i = n /\ k = kind THEN r ELSE Req(i, k)
      BY <2>1, StoreFacts
    <2>4. r.block = b /\ r # NoReq
      BY SlotAssumption DEF NoReq
    <2> HIDE DEF n, r
    <2>5. ASSUME NEW c \in heap'
          PROVE \E i \in Index, k \in SlotKinds : Req(i, k)' # NoReq /\ Req(i, k)'.block = c
      <3>1. CASE c = b
        BY <2>2, <2>3, <2>4, <3>1
      <3>2. CASE c # b
        <4>1. PICK i \in Index, k \in SlotKinds : Req(i, k) # NoReq /\ Req(i, k).block = c
          BY <2>2, <2>5, <3>2 DEF NoLeak
        <4>2. ~(i = n /\ k = kind)
          BY <2>2, <4>1
        <4> QED
          BY <2>3, <4>1, <4>2
      <3> QED
        BY <3>1, <3>2
    <2> QED
      BY <2>5 DEF NoLeak
  <1>2. CASE SlotInd
    <2>1. ASSUME NEW b \in heap'
          PROVE \E i \in Index, k \in SlotKinds : Req(i, k)' # NoReq /\ Req(i, k)'.block = b
      <3>1. /\ b \in heap /\ b # Req(NowIndex, "ul_tti_req").block
            /\ b # Req(TxIndex, "ul_dci_req").block
        BY <1>2, SlotIndFacts
      <3>2. PICK i \in Index, k \in SlotKinds : Req(i, k) # NoReq /\ Req(i, k).block = b
        BY <3>1 DEF NoLeak
      <3>3. ~Due(i, k)
        BY <3>1, <3>2 DEF Due
      <3>4. i # NowIndex
        BY <3>2, <3>3, DueIsInTime DEF Due, SlotKinds
      <3>5. Req(i, k)' = Req(i, k)
        BY <1>2, <3>3, <3>4, SlotIndFacts
      <3> QED
        BY <3>2, <3>5
    <2> QED
      BY <2>1 DEF NoLeak
  <1>3. CASE Forward \/ DlNodeSync \/ UNCHANGED vars
    BY <1>3 DEF Forward, DlNodeSync, vars, NoLeak, Req
  <1> QED
    BY <1>1, <1>2, <1>3 DEF Next

-----------------------------------------------------------------------------
(* The theorems.                                                            *)

(* The numbers, the entries and the heap keep their types. *)
THEOREM SlotBufferTypes == Spec => []BufferTypes
  <1>1. Init => BufferTypes
    BY EmptyRing
  <1> QED
    BY <1>1, TypesStep, PTL DEF Spec

(* For every stream of requests, node syncs and shifts, without any         *)
(* condition: a stored request is allocated and has its block alone, so     *)
(* that neither the request handlers nor pnf_p7_slot_ind free one twice or  *)
(* use it after it was freed.                                               *)
THEOREM SlotBlocksStayOwned == Spec => []BlockInv
  <1>1. Init => BlockInv
    BY EmptyRing DEF BlockInv
  <1> QED
    BY <1>1, BlockStep, SlotBufferTypes, PTL DEF Spec

(* Where the VNF sends in time, a stored request stays in place. *)
LEMMA PlacesKept ==
  ASSUME InRing
  PROVE Spec => []PlaceInv
  <1>1. Init => PlaceInv
    BY EmptyRing DEF PlaceInv
  <1>2. BufferTypes /\ PlaceInv /\ [Next]_vars => PlaceInv'
    BY PlaceStep
  <1> QED
    BY <1>1, <1>2, SlotBufferTypes, PTL DEF Spec

(* Then every request that a handler stored is freed in the turn of its own *)
(* slot and not before, although neither the window test nor the entry's    *)
(* own number is looked at.                                                 *)
THEOREM SlotRequestsFreedInTheirSlot ==
  ASSUME InRing
  PROVE Spec => []FreedInItsSlot
  <1>1. Init => FreedInItsSlot
    BY DEF Init, FreedInItsSlot
  <1>2. BufferTypes /\ PlaceInv /\ FreedInItsSlot /\ [Next]_vars => FreedInItsSlot'
    <2> SUFFICES ASSUME BufferTypes, PlaceInv, FreedInItsSlot, [Next]_vars
                 PROVE FreedInItsSlot'
      OBVIOUS
    <2>1. CASE Request
      BY <2>1, StoreKeepsPlaces DEF FreedInItsSlot
    <2>2. CASE SlotInd
      BY <2>2, SlotIndKeepsPlaces DEF FreedInItsSlot
    <2>3. CASE Forward \/ DlNodeSync
      BY <2>3 DEF Forward, DlNodeSync, FreedInItsSlot
    <2>4. CASE UNCHANGED vars
      BY <2>4 DEF vars, FreedInItsSlot
    <2> QED
      BY <2>1, <2>2, <2>3, <2>4 DEF Next
  <1> QED
    BY <1>1, <1>2, SlotBufferTypes, PlacesKept, PTL DEF Spec

(* And no memory is lost: the UL_DCI request that the reset of an entry     *)
(* would forget was freed Ahead slots earlier.                              *)
THEOREM SlotBufferLeaksNothing ==
  ASSUME InRing
  PROVE Spec => []OneOwner
  <1>1. Init => NoLeak
    BY DEF Init, NoLeak
  <1>2. BufferTypes /\ PlaceInv /\ NoLeak /\ [Next]_vars => NoLeak'
    BY NoLeakStep
  <1>3. BufferTypes /\ BlockInv /\ NoLeak => OneOwner
    <2> SUFFICES ASSUME BufferTypes, BlockInv, NoLeak PROVE OneOwner
      OBVIOUS
    <2>1. DOMAIN slot_buffer = Index
      BY DEF BufferTypes
    <2>2. \A p : p \in Places <=> p \in Index \X SlotKinds /\ Req(p[1], p[2]) # NoReq
      BY <2>1 DEF Places, Req
    <2>3. \A p : At(p) = Req(p[1], p[2])
      BY DEF At, Req
    <2>4. ASSUME NEW b \in heap PROVE b \in {At(p).block : p \in Places}
      <3>1. PICK i \in Index, k \in SlotKinds : Req(i, k) # NoReq /\ Req(i, k).block = b
        BY DEF NoLeak
      <3>2. <<i, k>> \in Places /\ At(<<i, k>>).block = b
        BY <2>2, <2>3, <3>1
      <3> QED
        BY <3>2
    <2>5. ASSUME NEW p \in Places PROVE At(p).block \in heap
      BY <2>2, <2>3 DEF BlockInv
    <2>6. ASSUME NEW p \in Places, NEW q \in Places, At(p).block = At(q).block PROVE p = q
      <3>1. p[1] = q[1] /\ p[2] = q[2] /\ p \in Index \X SlotKinds /\ q \in Index \X SlotKinds
        BY <2>2, <2>3, <2>6 DEF BlockInv
      <3> QED
        BY <3>1
    <2> QED
      BY <2>4, <2>5, <2>6 DEF OneOwner
  <1> QED
    BY <1>1, <1>2, <1>3, SlotBufferTypes, SlotBlocksStayOwned, PlacesKept, PTL DEF Spec

=============================================================================
