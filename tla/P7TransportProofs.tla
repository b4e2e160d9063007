------------------------- MODULE P7TransportProofs --------------------------
(***************************************************************************)
(* What comes out of the reassembly, for any lengths, any number of        *)
(* messages and any sizes of the header and of the segments.               *)
(***************************************************************************)
EXTENDS P7Transport, FiniteSetTheorems, SequenceTheorems, TLAPS

-----------------------------------------------------------------------------
(* What holds in every scenario.                                           *)

SegBody == SegmentSize - HeaderLength
Count(m) == SegmentCount(sent[m])
Keys == 0 .. SeqNumbers - 1
Slots == 0 .. MaxSegments - 1
Chunks0 == [msg : Nat, from : Nat, to : Nat]
Datagrams == [msg : Nat \ {0}, seq : Keys, seg : Nat, more : BOOLEAN, from : Nat, to : Nat, at : Nat]
Entries == [received : Nat, expected : Nat, rx_hr_time : Nat,
            segments : [Slots -> Datagrams \cup {NoSegment}]]

(* The bytes of segment number k of message m. *)
Piece(m, k) ==
  [msg |-> m, from |-> HeaderLength + SegBody * k,
   to |-> IF k + 1 = Count(m) THEN sent[m] ELSE HeaderLength + SegBody * k + SegBody]

(* d is a segment of a message that was sent. *)
IsSegment(d) ==
  /\ d.msg \in DOMAIN sent /\ d.seg < Count(d.msg)
  /\ d.more = (d.seg + 1 # Count(d.msg)) /\ Chunk(d) = Piece(d.msg, d.seg)

Busy(t) == thread[t].pc # "idle"
Sending(t) == thread[t].pc = "send"

(* The types of the variables but dispatched. *)
Types ==
  /\ scenario \in Scenarios /\ clock \in 1 .. MaxClock
  /\ sent \in Seq(scenario.lengths) /\ sequence_number \in Nat
  /\ thread \in [Threads -> [pc : {"idle", "lock", "send"}, msg : Nat, seq : Nat, next : Nat, last : Nat]]
  /\ net \in Seq(Datagrams) /\ lost \in Nat /\ duplicated \in Nat
  /\ lost + duplicated <= scenario.faults
  /\ reassembly_queue \in [Keys -> Entries]

(* A busy thread has a message of its own, which it started in this tick.  *)
SenderInv ==
  \A t \in Threads :
    /\ thread[t].last <= clock
    /\ Busy(t) => /\ thread[t].msg \in DOMAIN sent /\ thread[t].next < Count(thread[t].msg)
                  /\ thread[t].last = clock
                  /\ \A u \in Threads : Busy(u) /\ thread[u].msg = thread[t].msg => t = u
    /\ thread[t].pc = "lock" => thread[t].next = 0

(* What is under way is a segment, not too old, that its thread has sent.  *)
NetInv ==
  \A i \in DOMAIN net :
    /\ IsSegment(net[i]) /\ net[i].at <= clock /\ clock <= net[i].at + MaxDelay
    /\ \A t \in Threads : Busy(t) /\ thread[t].msg = net[i].msg => net[i].seg < thread[t].next

Base == Types /\ SenderInv /\ NetInv

(* What is dispatched has the segments of one message in their places, and *)
(* nothing is missing unless a datagram was duplicated.                    *)
Sound(c) ==
  \E m \in DOMAIN sent :
    /\ Len(c) = Count(m)
    /\ \A i \in 1 .. Len(c) : c[i] = Piece(m, i - 1) \/ (duplicated > 0 /\ c[i] = Hole)
SoundDispatched ==
  dispatched \in Seq(Seq(Chunks0)) /\ \A k \in DOMAIN dispatched : Sound(dispatched[k])

-----------------------------------------------------------------------------
(* A network that keeps the order and neither loses nor duplicates.        *)

Quiet == ~scenario.reorder /\ lost = 0 /\ duplicated = 0

(* Only the holder of pack_mutex sends. *)
OneSender ==
  /\ \A t, u \in Threads : Sending(t) /\ Sending(u) => t = u
  /\ PackMutex => \A t \in Threads : Sending(t) <=> pack_mutex = t

(* The datagram that thread t sends next. *)
Coming(t) == Segment(thread[t].msg, thread[t].seq, thread[t].next)

(* d comes directly after c. *)
Follows(c, d) ==
  IF c.more THEN d.msg = c.msg /\ d.seq = c.seq /\ d.seg = c.seg + 1 /\ d.at = c.at
            ELSE d.seg = 0

StreamInv ==
  /\ \A i \in DOMAIN net : i + 1 \in DOMAIN net => Follows(net[i], net[i + 1])
  /\ net # <<>> =>
       /\ \A t \in Threads : Sending(t) => Follows(net[Len(net)], Coming(t))
       /\ net[Len(net)].more => \E t \in Threads : Sending(t)

(* Entry e holds what comes before datagram d of its message. *)
Before(e, d) ==
  /\ e.received = d.seg /\ e.expected = 255
  /\ \E then \in 1 .. clock : e.rx_hr_time = TimeHr(then) /\ d.at <= then
  /\ \A k \in Slots :
       IF k < d.seg THEN /\ e.segments[k] # NoSegment /\ IsSegment(e.segments[k])
                         /\ e.segments[k].msg = d.msg /\ e.segments[k].seg = k
                    ELSE e.segments[k] = NoSegment

(* The queue when d is the next datagram to arrive. *)
Opened(d) ==
  \A s \in Keys : IF d.seg > 0 /\ s = d.seq THEN Before(reassembly_queue[s], d)
                                            ELSE reassembly_queue[s] = NoEntry

QueueInv ==
  /\ net # <<>> => Opened(net[1])
  /\ net = <<>> =>
       /\ \A t \in Threads : Sending(t) => Opened(Coming(t))
       /\ (\A t \in Threads : ~Sending(t)) => \A s \in Keys : reassembly_queue[s] = NoEntry

(* The message of the k-th dispatch. *)
Done(k) == dispatched[k][1].msg

(* Each message is with its thread, or its last segment is under way, or   *)
(* it was dispatched, and it is in one of these places once.               *)
AccountInv ==
  /\ \A m \in DOMAIN sent :
       \/ \E t \in Threads : Busy(t) /\ thread[t].msg = m
       \/ \E i \in DOMAIN net : ~net[i].more /\ net[i].msg = m
       \/ \E k \in DOMAIN dispatched : Done(k) = m
  /\ \A i, j \in DOMAIN net : i < j /\ net[i].msg = net[j].msg => net[i].more
  /\ \A k, l \in DOMAIN dispatched : Done(k) = Done(l) => k = l
  /\ \A k \in DOMAIN dispatched :
       /\ Done(k) \in DOMAIN sent
       /\ \A i \in DOMAIN net : Done(k) # net[i].msg
       /\ \A t \in Threads : Busy(t) => Done(k) # thread[t].msg

Flow == StreamInv /\ QueueInv /\ SoundDispatched /\ AccountInv

QuietInv == OneSender /\ (Quiet => Flow)

-----------------------------------------------------------------------------
(* A network that reorders, loses and duplicates.                          *)

(* Segments stored in the entry of sequence number s. *)
Stored(s) == {k \in Slots : reassembly_queue[s].segments[k] # NoSegment}
StoredSegment(s, k) == reassembly_queue[s].segments[k]

(* All the segments that the receiver may still use. *)
Live == {net[i] : i \in DOMAIN net} \cup
        UNION {{StoredSegment(s, k) : k \in Stored(s)} : s \in Keys}

(* The thread's message is the newest one, numbered one after the other.   *)
NewestInv ==
  \A t \in Threads :
    IF Busy(t) THEN /\ thread[t].msg = Len(sent) /\ thread[t].seq = Len(sent) - 1
                    /\ sequence_number = Len(sent) - 1
               ELSE sequence_number = Len(sent)

(* A thread starts at most one message in a tick. *)
DatedInv ==
  /\ \A d \in Live, t \in Threads : Len(sent) - d.msg <= thread[t].last - d.at
  /\ \A c, d \in Live : c.msg <= d.msg => d.msg - c.msg <= d.at - c.at

LiveInv ==
  \A d \in Live :
    /\ IsSegment(d) /\ d.seq = (d.msg - 1) % SeqNumbers
    /\ \A t \in Threads : Busy(t) /\ thread[t].msg = d.msg => d.seg < thread[t].next /\ d.at = thread[t].last

TimelyInv == NewestInv /\ DatedInv /\ LiveInv

(* An entry holds segments of one message, in their places. *)
EntryInv ==
  \A s \in Keys : reassembly_queue[s] # NoEntry =>
    /\ Stored(s) # {}
    /\ \A k \in Stored(s) :
         /\ StoredSegment(s, k).seg = k /\ StoredSegment(s, k).seq = s
         /\ \A l \in Stored(s) : StoredSegment(s, k).msg = StoredSegment(s, l).msg
         /\ reassembly_queue[s].expected \in {255, Count(StoredSegment(s, k).msg)}
    /\ \E then \in 1 .. clock :
         /\ reassembly_queue[s].rx_hr_time = TimeHr(then)
         /\ \A k \in Stored(s) : then <= StoredSegment(s, k).at + MaxDelay
    /\ duplicated = 0 => reassembly_queue[s].received = Cardinality(Stored(s))

(* Datagrams of message m under way. *)
InNet(m) == {i \in DOMAIN net : net[i].msg = m}

(* No more than n copies of segments of m were sent. *)
Within(m, n) ==
  /\ n <= Count(m) + duplicated
  /\ \A t \in Threads : Busy(t) /\ thread[t].msg = m => n <= thread[t].next + duplicated

(* Received and under way is what was sent and duplicated. *)
CopiesInv ==
  /\ \A m \in DOMAIN sent : Within(m, Cardinality(InNet(m)))
  /\ \A s \in Keys : \A k \in Stored(s) :
       Within(StoredSegment(s, k).msg,
              reassembly_queue[s].received + Cardinality(InNet(StoredSegment(s, k).msg)))

(* Without duplicates a segment is in one place. *)
OnceInv ==
  duplicated = 0 =>
    /\ \A i, j \in DOMAIN net : net[i].msg = net[j].msg /\ net[i].seg = net[j].seg => i = j
    /\ \A i \in DOMAIN net, s \in Keys : \A k \in Stored(s) :
         ~(net[i].msg = StoredSegment(s, k).msg /\ net[i].seg = k)

(* Messages from number first on of which nothing is under way. *)
Missing(first) ==
  {m \in first .. Len(sent) : InNet(m) = {} /\ \A t \in Threads : Busy(t) => thread[t].msg # m}

(* While there is an entry, all that was sent after it became stale is     *)
(* under way or lost: the first datagram to arrive removes the entry.      *)
StaleInv ==
  \A s \in Keys : \A k \in Stored(s) :
    Cardinality(Missing(StoredSegment(s, k).msg + MaxDelay + Delta + 1)) <= lost

RoomyInv ==
  /\ TimelyInv /\ EntryInv /\ CopiesInv /\ OnceInv /\ StaleInv
  /\ SoundDispatched

-----------------------------------------------------------------------------
(* Segments and time stamps.                                               *)

(* Products. *)
LEMMA Products ==
  ASSUME NEW a \in Int, NEW b \in Int, NEW c \in Int
  PROVE  /\ a * b \in Int /\ (a + c) * b = a * b + c * b /\ (a - c) * b = a * b - c * b
         /\ b * a = a * b /\ (a >= c /\ b >= 0 => a * b >= c * b)
         /\ (a >= 0 /\ b >= c => a * b >= a * c)
  <1>1. /\ a * b \in Int /\ (a + c) * b = a * b + c * b /\ (a - c) * b = a * b - c * b
        /\ b * a = a * b
    OBVIOUS
  <1>2. a >= c /\ b >= 0 => (a - c) * b >= 0
    OBVIOUS
  <1>3. a >= 0 /\ b >= c => a * (b - c) >= 0
    OBVIOUS
  <1>4. a * (b - c) = a * b - a * c /\ a * c \in Int /\ c * b \in Int
    OBVIOUS
  <1> QED
    BY <1>1, <1>2, <1>3, <1>4

(* Quotient and remainder. *)
LEMMA DivMod ==
  ASSUME NEW a \in Int, NEW b \in Nat \ {0}
  PROVE  a \div b \in Int /\ a % b \in 0 .. b - 1 /\ a = (a \div b) * b + (a % b)
  OBVIOUS

LEMMA SmallMod == \A a \in 0 .. 255 : a % 256 = a
  OBVIOUS

(* The lengths are those of messages with a body. *)
LEMMA Sizes ==
  /\ HeaderLength \in Nat /\ SegmentSize \in Nat /\ SegBody \in Nat \ {0}
  /\ SegmentSize = HeaderLength + SegBody
  BY LengthsAssumption DEF SegBody

(* The segments of a message tile its body: each has a byte at least and   *)
(* SegmentSize at most with its header.                                    *)
LEMMA SegmentsTile ==
  ASSUME NEW len \in Nat, HeaderLength < len
  PROVE  /\ SegmentCount(len) \in Nat \ {0}
         /\ SegBody * (SegmentCount(len) - 1) < len - HeaderLength
         /\ len - HeaderLength <= SegBody * (SegmentCount(len) - 1) + SegBody
  <1> DEFINE b == len - HeaderLength
             q == b \div SegBody
             r == b % SegBody
             n == SegmentCount(len)
  <1>1. b \in Nat \ {0} /\ SegBody \in Nat \ {0}
    BY Sizes
  <1>2. q \in Int /\ r \in 0 .. SegBody - 1 /\ b = q * SegBody + r
    <2>1. b \in Int
      BY <1>1
    <2> HIDE DEF b
    <2> QED
      BY <1>1, <2>1, DivMod
  <1>3. n = IF b <= SegBody THEN 1 ELSE q + (IF r # 0 THEN 1 ELSE 0)
    BY Sizes DEF SegmentCount, SegBody
  <1> HIDE DEF b, q, r, n
  <1>4. CASE b <= SegBody
    <2>1. n = 1
      BY <1>3, <1>4
    <2>2. SegBody * (n - 1) = 0
      BY <1>1, <2>1
    <2> QED
      BY <1>1, <1>4, <2>1, <2>2 DEF b, n
  <1>5. CASE b > SegBody
    <2>1. q >= 1
      <3>1. SUFFICES ASSUME q <= 0 PROVE FALSE
        BY <1>2
      <3>2. q * SegBody <= 0
        BY <1>1, <1>2, <3>1
      <3> QED
        BY <1>1, <1>2, <1>5, <3>2
    <2>2. /\ SegBody * q = q * SegBody /\ SegBody * (q - 1) = q * SegBody - SegBody
          /\ q * SegBody \in Int
      BY <1>1, <1>2
    <2>3. CASE r # 0
      <3>1. n = q + 1 /\ n - 1 = q
        BY <1>1, <1>2, <1>3, <1>5, <2>3
      <3> QED
        BY <1>1, <1>2, <2>1, <2>2, <2>3, <3>1 DEF b, n
    <2>4. CASE r = 0
      <3>1. n = q
        BY <1>1, <1>2, <1>3, <1>5, <2>4
      <3> QED
        BY <1>1, <1>2, <2>1, <2>2, <2>4, <3>1 DEF b, n
    <2> QED
      BY <1>2, <2>3, <2>4
  <1> QED
    BY <1>1, <1>4, <1>5

(* A time stamp is a number. *)
LEMMA TimeHrNat == \A t \in Nat : TimeHr(t) \in Nat
  <1> SUFFICES ASSUME NEW t \in Nat PROVE TimeHr(t) \in Nat
    OBVIOUS
  <1> DEFINE p == t \div Second
             u == t % Second
  <1>1. Second \in Nat \ {0} /\ SecondWrap \in Nat \ {0} /\ SecondField \in Nat
    BY TimeAssumption
  <1>2. p \in Int /\ u \in Nat /\ p % SecondWrap \in Nat
    BY <1>1
  <1>3. (p % SecondWrap) * SecondField \in Nat
    <2> HIDE DEF p
    <2> QED
      BY <1>1, <1>2
  <1> QED
    BY <1>2, <1>3 DEF TimeHr

(* Until the seconds come round, a time stamp is the seconds and the rest. *)
LEMMA TimeHrValue ==
  ASSUME NEW t \in Nat, t < SecondWrap * Second
  PROVE  \E p \in 0 .. SecondWrap - 1, u \in 0 .. Second - 1 :
           t = p * Second + u /\ TimeHr(t) = p * SecondField + u
  <1> DEFINE p == t \div Second
             u == t % Second
  <1>1. Second \in Nat \ {0} /\ SecondWrap \in Nat \ {0} /\ SecondField \in Nat
    BY TimeAssumption
  <1>2. p \in Int /\ u \in 0 .. Second - 1 /\ t = p * Second + u
    BY <1>1
  <1>3. TimeHr(t) = (p % SecondWrap) * SecondField + u
    BY DEF TimeHr
  <1> HIDE DEF p, u
  <1>4. p >= 0
    <2>1. SUFFICES ASSUME p <= -1 PROVE FALSE
      BY <1>2
    <2>2. p * Second <= -Second
      BY <1>1, <1>2, <2>1
    <2> QED
      BY <1>1, <1>2, <2>2
  <1>5. p < SecondWrap
    <2>1. SUFFICES ASSUME p >= SecondWrap PROVE FALSE
      BY <1>1, <1>2
    <2>2. p * Second >= SecondWrap * Second /\ p * Second \in Int /\ SecondWrap * Second \in Int
      BY <1>1, <1>2, <2>1, Products
    <2> QED
      BY <1>1, <1>2, <2>2
  <1>6. p % SecondWrap = p
    BY <1>1, <1>2, <1>4, <1>5
  <1> QED
    <2>1. p \in 0 .. SecondWrap - 1 /\ TimeHr(t) = p * SecondField + u
      BY <1>1, <1>2, <1>3, <1>4, <1>5, <1>6
    <2> QED
      BY <1>2, <2>1

(* An entry's age is never underestimated, and an entry of this very tick  *)
(* is not stale.                                                           *)
LEMMA AgeAtLeast ==
  ASSUME NEW then \in Nat, NEW now \in Nat, then <= now, now < SecondWrap * Second
  PROVE  Age(TimeHr(now), TimeHr(then)) \in Nat /\ Age(TimeHr(now), TimeHr(then)) >= now - then
  <1>1. /\ Second \in Nat \ {0} /\ SecondWrap \in Nat \ {0} /\ SecondField \in Nat \ {0}
        /\ Second <= SecondField /\ SecondWrap * Second \in Int
    BY TimeAssumption
  <1>2. then < SecondWrap * Second
    BY <1>1
  <1>3. PICK p \in 0 .. SecondWrap - 1, u \in 0 .. Second - 1 :
          now = p * Second + u /\ TimeHr(now) = p * SecondField + u
    BY TimeHrValue
  <1>4. PICK q \in 0 .. SecondWrap - 1, v \in 0 .. Second - 1 :
          then = q * Second + v /\ TimeHr(then) = q * SecondField + v
    BY <1>2, TimeHrValue
  <1> DEFINE n == p - q
             m == SecondWrap * SecondField
  <1>5. /\ n * Second = p * Second - q * Second /\ n * SecondField = p * SecondField - q * SecondField
        /\ n \in Int /\ m \in Nat \ {0} /\ p * Second \in Int /\ q * Second \in Int
        /\ p * SecondField \in Int /\ q * SecondField \in Int
    BY <1>1, <1>3, <1>4
  <1>6. n >= 0
    <2>1. SUFFICES ASSUME n <= -1 PROVE FALSE
      BY <1>5
    <2>2. n * Second <= -Second
      BY <1>1, <1>5, <2>1
    <2> QED
      BY <1>1, <1>3, <1>4, <1>5, <2>2
  <1>7. n * SecondField >= n * Second
    BY <1>1, <1>5, <1>6, Products
  <1> DEFINE a == TimeHr(now) - TimeHr(then)
  <1>8. a \in Int /\ a >= now - then
    BY <1>1, <1>3, <1>4, <1>5, <1>7
  <1>9. a < m
    <2>1. (p + 1) * SecondField = p * SecondField + SecondField
      BY <1>1, <1>3
    <2>2. (p + 1) * SecondField <= m
      BY <1>1, <1>3, Products
    <2>3. q * SecondField >= 0
      BY <1>1, <1>4
    <2> QED
      BY <1>1, <1>3, <1>4, <1>5, <2>1, <2>2, <2>3
  <1> HIDE DEF a, m, n
  <1>10. a % m = a
    BY <1>5, <1>8, <1>9
  <1> QED
    BY <1>8, <1>10 DEF Age, a, m

(* Within the first second, entries outlive any delay up to Delta.         *)
LEMMA LastingInSecond ==
  ASSUME MaxClock < Second, MaxDelay <= Delta
  PROVE  Lasting
  <1>1. /\ Second \in Nat \ {0} /\ SecondWrap \in Nat \ {0} /\ SecondField \in Nat \ {0} /\ Second <= SecondField
        /\ MaxClock \in Nat /\ MaxDelay \in Nat /\ Delta \in Nat
    BY TimeAssumption, BoundsAssumption
  <1>2. ASSUME NEW t \in Nat, t < Second PROVE TimeHr(t) = t
    <2>1. t \div Second = 0 /\ t % Second = t
      BY <1>1, <1>2
    <2>2. 0 % SecondWrap = 0 /\ 0 * SecondField = 0
      BY <1>1
    <2> QED
      BY <2>1, <2>2 DEF TimeHr
  <1>3. PICK m \in Nat : m = SecondWrap * SecondField /\ m >= Second
    <2>1. SecondWrap * SecondField >= 1 * SecondField /\ 1 * SecondField = SecondField /\ SecondWrap * SecondField \in Nat
      BY <1>1, Products
    <2> QED
      BY <1>1, <2>1
  <1> SUFFICES ASSUME NEW then \in 1 .. MaxClock, NEW now \in then .. MaxClock, now <= then + MaxDelay
               PROVE  Age(TimeHr(now), TimeHr(then)) <= Delta
    BY DEF Lasting
  <1>4. now \in Nat /\ then \in Nat /\ now < Second /\ then < Second
    BY <1>1
  <1>5. now - then \in 0 .. m - 1 /\ now - then <= Delta
    BY <1>1, <1>3, <1>4
  <1>6. (now - then) % m = now - then
    BY <1>3, <1>5
  <1> QED
    BY <1>2, <1>3, <1>4, <1>5, <1>6 DEF Age

-----------------------------------------------------------------------------
(* Sequences of datagrams.                                                 *)

(* What a sequence without its i-th element holds. *)
LEMMA Removed ==
  ASSUME NEW s \in Seq(Datagrams), NEW i \in 1 .. Len(s)
  PROVE  /\ RemoveAt(s, i) \in Seq(Datagrams) /\ Len(RemoveAt(s, i)) = Len(s) - 1
         /\ DOMAIN RemoveAt(s, i) = 1 .. Len(s) - 1
         /\ \A k \in 1 .. Len(s) - 1 : RemoveAt(s, i)[k] = IF k < i THEN s[k] ELSE s[k + 1]
  <1> DEFINE a == SubSeq(s, 1, i - 1)
             b == SubSeq(s, i + 1, Len(s))
  <1>1. a \in Seq(Datagrams) /\ Len(a) = i - 1 /\ \A k \in 1 .. i - 1 : a[k] = s[k]
    OBVIOUS
  <1>2. b \in Seq(Datagrams) /\ Len(b) = Len(s) - i /\ \A k \in 1 .. Len(s) - i : b[k] = s[i + k]
    OBVIOUS
  <1>3. RemoveAt(s, i) = a \o b
    BY DEF RemoveAt
  <1> HIDE DEF a, b
  <1>4. /\ a \o b \in Seq(Datagrams) /\ Len(a \o b) = Len(s) - 1
        /\ \A k \in 1 .. Len(s) - 1 : (a \o b)[k] = IF k <= Len(a) THEN a[k] ELSE b[k - Len(a)]
    <2>1. /\ a \o b \in Seq(Datagrams) /\ Len(a \o b) = Len(a) + Len(b)
          /\ \A k \in 1 .. Len(a) + Len(b) : (a \o b)[k] = IF k <= Len(a) THEN a[k] ELSE b[k - Len(a)]
      BY <1>1, <1>2, ConcatProperties
    <2>2. Len(a) + Len(b) = Len(s) - 1
      BY <1>1, <1>2
    <2> QED
      BY <2>1, <2>2
  <1>5. \A k \in 1 .. Len(s) - 1 : (a \o b)[k] = IF k < i THEN s[k] ELSE s[k + 1]
    <2> SUFFICES ASSUME NEW k \in 1 .. Len(s) - 1
                 PROVE  (a \o b)[k] = IF k < i THEN s[k] ELSE s[k + 1]
      OBVIOUS
    <2>1. CASE k < i
      BY <1>1, <1>4, <2>1
    <2>2. CASE k >= i
      <3>1. k - (i - 1) \in 1 .. Len(s) - i /\ i + (k - (i - 1)) = k + 1
        BY <2>2
      <3> QED
        BY <1>1, <1>2, <1>4, <2>2, <3>1
    <2>3. k < i \/ k >= i
      OBVIOUS
    <2> QED
      BY <2>1, <2>2, <2>3
  <1> QED
    BY <1>3, <1>4, <1>5

(* What a sequence with one more element at place i holds. *)
LEMMA Inserted ==
  ASSUME NEW s \in Seq(Datagrams), NEW i \in 1 .. Len(s), NEW e \in Datagrams
  PROVE  /\ InsertAt(s, i, e) \in Seq(Datagrams) /\ Len(InsertAt(s, i, e)) = Len(s) + 1
         /\ DOMAIN InsertAt(s, i, e) = 1 .. Len(s) + 1
         /\ \A k \in 1 .. Len(s) + 1 :
              InsertAt(s, i, e)[k] = IF k < i THEN s[k] ELSE IF k = i THEN e ELSE s[k - 1]
  BY DEF InsertAt

(* The places of a sequence that hold a datagram of message m. *)
PlacesOf(s, m) == {k \in DOMAIN s : s[k].msg = m}

(* Removing a datagram leaves one place less to its message. *)
LEMMA PlacesRemoved ==
  ASSUME NEW s \in Seq(Datagrams), NEW i \in 1 .. Len(s), NEW m
  PROVE  /\ IsFiniteSet(PlacesOf(s, m)) /\ Cardinality(PlacesOf(s, m)) \in Nat
         /\ IsFiniteSet(PlacesOf(RemoveAt(s, i), m))
         /\ Cardinality(PlacesOf(RemoveAt(s, i), m)) =
              Cardinality(PlacesOf(s, m)) - (IF s[i].msg = m THEN 1 ELSE 0)
  <1> DEFINE P == PlacesOf(s, m)
             r == RemoveAt(s, i)
             R == PlacesOf(r, m)
             f == [k \in P \ {i} |-> IF k < i THEN k ELSE k - 1]
  <1>1. /\ DOMAIN s = 1 .. Len(s) /\ Len(s) \in Nat /\ DOMAIN r = 1 .. Len(s) - 1
        /\ \A k \in 1 .. Len(s) - 1 : r[k] = IF k < i THEN s[k] ELSE s[k + 1]
    <2>1. DOMAIN s = 1 .. Len(s) /\ Len(s) \in Nat
      OBVIOUS
    <2>2. DOMAIN r = 1 .. Len(s) - 1 /\ \A k \in 1 .. Len(s) - 1 : r[k] = IF k < i THEN s[k] ELSE s[k + 1]
      BY Removed, Zenon
    <2> QED
      BY <2>1, <2>2, Zenon
  <1>2. IsFiniteSet(P) /\ Cardinality(P) \in Nat
    <2>1. IsFiniteSet(1 .. Len(s)) /\ P \in SUBSET (1 .. Len(s))
      BY <1>1, FS_Interval DEF PlacesOf
    <2> QED
      BY <2>1, FS_Subset, FS_CardinalityType
  <1>3. /\ IsFiniteSet(P \ {i})
        /\ Cardinality(P \ {i}) = Cardinality(P) - (IF s[i].msg = m THEN 1 ELSE 0)
    <2>1. i \in P <=> s[i].msg = m
      BY <1>1 DEF PlacesOf
    <2>2. /\ IsFiniteSet(P \ {i})
          /\ Cardinality(P \ {i}) = IF i \in P THEN Cardinality(P) - 1 ELSE Cardinality(P)
      BY <1>2, FS_RemoveElement
    <2> QED
      BY <1>2, <2>1, <2>2
  <1>4. \A k : k \in P <=> k \in 1 .. Len(s) /\ s[k].msg = m
    BY <1>1 DEF PlacesOf
  <1>5. \A k : k \in R <=> k \in 1 .. Len(s) - 1 /\ (IF k < i THEN s[k].msg = m ELSE s[k + 1].msg = m)
    BY <1>1 DEF PlacesOf
  <1> HIDE DEF P, R
  <1>6. f \in [P \ {i} -> R]
    BY <1>4, <1>5
  <1>7. \A a, b \in P \ {i} : f[a] = f[b] => a = b
    BY <1>4
  <1>8. \A k \in R : \E a \in P \ {i} : f[a] = k
    <2> SUFFICES ASSUME NEW k \in R PROVE \E a \in P \ {i} : f[a] = k
      OBVIOUS
    <2>1. CASE k < i
      <3>1. k \in P \ {i} /\ f[k] = k
        BY <1>4, <1>5, <2>1
      <3> QED
        BY <3>1
    <2>2. CASE k >= i
      <3>1. k + 1 \in P \ {i} /\ f[k + 1] = k
        BY <1>4, <1>5, <2>2
      <3> QED
        BY <3>1
    <2> QED
      BY <1>5, <2>1, <2>2
  <1> HIDE DEF f
  <1>9. ExistsBijection(P \ {i}, R)
    <2>1. f \in Bijection(P \ {i}, R)
      BY <1>6, <1>7, <1>8 DEF Bijection, Injection, IsInjective, Surjection
    <2> QED
      BY <2>1 DEF ExistsBijection
  <1>10. IsFiniteSet(R) /\ Cardinality(R) = Cardinality(P \ {i})
    BY <1>3, <1>9, FS_Bijection
  <1> QED
    BY <1>2, <1>3, <1>10 DEF P, R

(* Doubling a datagram gives one place more to its message. *)
LEMMA PlacesInserted ==
  ASSUME NEW s \in Seq(Datagrams), NEW i \in 1 .. Len(s), NEW m
  PROVE  Cardinality(PlacesOf(InsertAt(s, i, s[i]), m)) =
           Cardinality(PlacesOf(s, m)) + (IF s[i].msg = m THEN 1 ELSE 0)
  <1> DEFINE r == InsertAt(s, i, s[i])
  <1>1. s[i] \in Datagrams /\ Len(s) \in Nat
    OBVIOUS
  <1>2. /\ r \in Seq(Datagrams) /\ Len(r) = Len(s) + 1 /\ i \in 1 .. Len(r)
        /\ \A k \in 1 .. Len(s) + 1 : r[k] = IF k < i THEN s[k] ELSE IF k = i THEN s[i] ELSE s[k - 1]
    <2> DEFINE e == s[i]
    <2> HIDE DEF e
    <2>1. e \in Datagrams
      BY <1>1 DEF e
    <2>2. /\ InsertAt(s, i, e) \in Seq(Datagrams) /\ Len(InsertAt(s, i, e)) = Len(s) + 1
          /\ \A k \in 1 .. Len(s) + 1 :
               InsertAt(s, i, e)[k] = IF k < i THEN s[k] ELSE IF k = i THEN e ELSE s[k - 1]
      BY <2>1, Inserted
    <2>3. i \in 1 .. Len(s) + 1
      BY <1>1
    <2> QED
      BY <2>2, <2>3 DEF e
  <1> HIDE DEF r
  <1>3. /\ RemoveAt(r, i) \in Seq(Datagrams) /\ Len(RemoveAt(r, i)) = Len(s)
        /\ \A k \in 1 .. Len(s) : RemoveAt(r, i)[k] = IF k < i THEN r[k] ELSE r[k + 1]
    <2>1. /\ RemoveAt(r, i) \in Seq(Datagrams) /\ Len(RemoveAt(r, i)) = Len(r) - 1
          /\ \A k \in 1 .. Len(r) - 1 : RemoveAt(r, i)[k] = IF k < i THEN r[k] ELSE r[k + 1]
      BY <1>2, Removed
    <2>2. Len(r) - 1 = Len(s)
      BY <1>1, <1>2
    <2> QED
      BY <2>1, <2>2
  <1>4. \A k \in 1 .. Len(s) : RemoveAt(r, i)[k] = s[k]
    <2>1. SUFFICES ASSUME NEW k \in 1 .. Len(s) PROVE RemoveAt(r, i)[k] = s[k]
      OBVIOUS
    <2>2. k \in Int /\ i \in Int /\ (k + 1) - 1 = k /\ k \in 1 .. Len(s) + 1 /\ k + 1 \in 1 .. Len(s) + 1
      BY <1>1
    <2>3. CASE k < i
      <3>1. RemoveAt(r, i)[k] = r[k]
        BY <1>3, <2>3
      <3>2. r[k] = s[k]
        BY <1>2, <2>2, <2>3
      <3> QED
        BY <3>1, <3>2
    <2>4. CASE ~(k < i)
      <3>1. RemoveAt(r, i)[k] = r[k + 1]
        BY <1>3, <2>4
      <3>2. ~(k + 1 < i) /\ k + 1 # i
        BY <2>2, <2>4
      <3>3. r[k + 1] = s[(k + 1) - 1]
        BY <1>2, <2>2, <3>2
      <3> QED
        BY <2>2, <3>1, <3>3
    <2> QED
      BY <2>3, <2>4
  <1>5. DOMAIN RemoveAt(r, i) = DOMAIN s /\ DOMAIN s = 1 .. Len(s)
    BY <1>3
  <1>6. PlacesOf(RemoveAt(r, i), m) = PlacesOf(s, m)
    BY <1>4, <1>5 DEF PlacesOf
  <1>7. r[i] = s[i]
    BY <1>2
  <1>8. /\ Cardinality(PlacesOf(r, m)) \in Nat
        /\ Cardinality(PlacesOf(s, m)) = Cardinality(PlacesOf(r, m)) - (IF s[i].msg = m THEN 1 ELSE 0)
    BY <1>2, <1>6, <1>7, PlacesRemoved
  <1> QED
    BY <1>8 DEF r

(* So does sending one. *)
LEMMA PlacesAppended ==
  ASSUME NEW s \in Seq(Datagrams), NEW d \in Datagrams, NEW m
  PROVE  Cardinality(PlacesOf(Append(s, d), m)) =
           Cardinality(PlacesOf(s, m)) + (IF d.msg = m THEN 1 ELSE 0)
  <1> DEFINE P == PlacesOf(s, m)
             n == Len(s) + 1
  <1>1. /\ DOMAIN s = 1 .. Len(s) /\ Len(s) \in Nat /\ DOMAIN Append(s, d) = 1 .. n
        /\ \A k \in 1 .. n : Append(s, d)[k] = IF k = n THEN d ELSE s[k]
    OBVIOUS
  <1>2. IsFiniteSet(P) /\ Cardinality(P) \in Nat
    <2>1. IsFiniteSet(1 .. Len(s)) /\ P \in SUBSET (1 .. Len(s))
      BY <1>1, FS_Interval DEF PlacesOf
    <2> QED
      BY <2>1, FS_Subset, FS_CardinalityType
  <1>3. n \notin P
    BY <1>1 DEF PlacesOf
  <1>4. PlacesOf(Append(s, d), m) = IF d.msg = m THEN P \cup {n} ELSE P
    BY <1>1 DEF PlacesOf
  <1>5. Cardinality(P \cup {n}) = Cardinality(P) + 1
    BY <1>2, <1>3, FS_AddElement
  <1> QED
    BY <1>2, <1>4, <1>5

-----------------------------------------------------------------------------
(* What holds in every scenario.                                           *)

(* What the assumptions say of the chosen scenario. *)
LEMMA ScenarioFacts ==
  ASSUME scenario \in Scenarios
  PROVE  /\ \A l \in scenario.lengths :
              l \in Nat /\ HeaderLength < l /\ SegmentCount(l) \in 1 .. MaxSegments
         /\ scenario.faults \in Nat /\ scenario.messages \in Nat /\ scenario.reorder \in BOOLEAN
         /\ MaxSegments \in Nat /\ MaxSegments < 255
         /\ SeqNumbers \in Nat \ {0} /\ NoThread \notin Threads /\ Threads # {}
         /\ Delta \in Nat /\ MaxDelay \in Nat /\ MaxClock \in Nat \ {0}
  <1>1. MaxSegments \in Nat /\ MaxSegments < 255 /\ \A l \in scenario.lengths : SegmentCount(l) <= MaxSegments
    BY SegmentsAssumption
  <1>2. \A l \in scenario.lengths : l \in Nat /\ HeaderLength < l
    BY LengthsAssumption
  <1>3. \A l \in scenario.lengths : SegmentCount(l) \in Nat \ {0}
    BY <1>2, SegmentsTile
  <1> QED
    BY <1>1, <1>2, <1>3, SeqAssumption, BoundsAssumption, ScenarioAssumption DEF Threads

(* A message has at least one segment and at most as many as fit. *)
LEMMA CountFacts ==
  ASSUME Types, NEW m \in DOMAIN sent
  PROVE  Count(m) \in 1 .. MaxSegments /\ sent[m] \in Nat /\ m \in Nat \ {0} /\ MaxSegments \in Nat
  <1>1. sent[m] \in scenario.lengths /\ m \in 1 .. Len(sent) /\ Len(sent) \in Nat
    BY DEF Types
  <1>2. \A l \in scenario.lengths : l \in Nat /\ SegmentCount(l) \in 1 .. MaxSegments
    BY ScenarioFacts DEF Types
  <1>3. MaxSegments \in Nat
    BY SegmentsAssumption
  <1> QED
    BY <1>1, <1>2, <1>3 DEF Count

(* The bytes of a piece lie within the message. *)
LEMMA PieceType ==
  ASSUME Types, NEW m \in DOMAIN sent, NEW k \in Nat
  PROVE  Piece(m, k) \in Chunks0
  <1>1. SegBody \in Nat \ {0} /\ HeaderLength \in Nat
    BY Sizes
  <1>2. SegBody * k \in Nat
    BY <1>1
  <1> QED
    BY <1>1, <1>2, CountFacts DEF Piece, Chunks0

(* The datagrams that a thread sends are segments of its message. *)
LEMMA SegmentFacts ==
  ASSUME Types, NEW m \in DOMAIN sent, NEW seq \in Nat, NEW seg \in Nat, seg < Count(m)
  PROVE  LET d == Segment(m, seq, seg)
         IN  /\ d \in Datagrams /\ IsSegment(d) /\ d.msg = m /\ d.seq = seq % SeqNumbers
             /\ d.seg = seg /\ d.at = clock
  <1> DEFINE d == Segment(m, seq, seg)
             p == Piece(m, seg)
  <1>1. Count(m) \in Nat \ {0} /\ m \in Nat \ {0} /\ clock \in Nat
    BY CountFacts DEF Types
  <1>2. seq % SeqNumbers \in Keys
    <2>1. SeqNumbers \in Nat \ {0} /\ seq \in Int
      BY SeqAssumption
    <2> QED
      BY <2>1, DivMod DEF Keys
  <1>3. /\ d.msg = m /\ d.seq = seq % SeqNumbers /\ d.seg = seg /\ d.more = (seg + 1 # Count(m))
        /\ d.from = p.from /\ d.to = p.to /\ d.at = clock
    BY DEF Segment, Piece, Count, SegBody
  <1>4. d = [msg |-> m, seq |-> seq % SeqNumbers, seg |-> seg, more |-> (seg + 1 # Count(m)),
             from |-> p.from, to |-> p.to, at |-> clock]
    BY DEF Segment, Piece, Count, SegBody
  <1>5. p \in Chunks0 /\ p.msg = m /\ p = [msg |-> m, from |-> p.from, to |-> p.to]
    BY PieceType DEF Piece
  <1>6. p.from \in Nat /\ p.to \in Nat
    BY <1>5 DEF Chunks0
  <1> HIDE DEF p
  <1>7. d \in Datagrams
    BY <1>1, <1>2, <1>4, <1>6 DEF Datagrams
  <1> HIDE DEF d
  <1>8. Chunk(d) = Piece(m, seg)
    BY <1>3, <1>5 DEF Chunk, p
  <1>9. IsSegment(d)
    BY <1>3, <1>8 DEF IsSegment
  <1> QED
    BY <1>3, <1>7, <1>9 DEF d

(* A segment remains one when more messages are sent. *)
LEMMA SegmentStays ==
  ASSUME \A m \in DOMAIN sent : m \in DOMAIN sent' /\ sent'[m] = sent[m]
  PROVE  /\ \A m \in DOMAIN sent : Count(m)' = Count(m)
         /\ \A m \in DOMAIN sent : \A k : Piece(m, k)' = Piece(m, k)
         /\ \A d : IsSegment(d) => IsSegment(d)'
  <1>1. \A m \in DOMAIN sent : Count(m)' = Count(m)
    BY DEF Count
  <1>2. \A m \in DOMAIN sent : \A k : Piece(m, k)' = Piece(m, k)
    BY <1>1 DEF Piece
  <1> QED
    BY <1>1, <1>2 DEF IsSegment, Chunk

-----------------------------------------------------------------------------
(* What the actions do.                                                    *)

ThreadStates == [pc : {"idle", "lock", "send"}, msg : Nat, seq : Nat, next : Nat, last : Nat]

(* A new message: the next number, with the sequence number of the moment. *)
LEMMA StartEffect ==
  ASSUME Types, NEW t \in Threads, StartSend(t)
  PROVE  /\ ~Busy(t) /\ thread[t].last < clock
         /\ sent' \in Seq(scenario.lengths) /\ Len(sent') = Len(sent) + 1 /\ Len(sent) \in Nat
         /\ DOMAIN sent = 1 .. Len(sent) /\ DOMAIN sent' = 1 .. Len(sent) + 1
         /\ \A m \in DOMAIN sent : m \in DOMAIN sent' /\ sent'[m] = sent[m]
         /\ thread' \in [Threads -> ThreadStates]
         /\ \A u \in Threads : u # t => thread'[u] = thread[u]
         /\ thread'[t].pc = "lock" /\ thread'[t].msg = Len(sent) + 1
         /\ thread'[t].seq = sequence_number /\ thread'[t].next = 0 /\ thread'[t].last = clock
         /\ UNCHANGED <<scenario, clock, sequence_number, pack_mutex, net, lost, duplicated,
                        reassembly_queue, dispatched>>
  <1>1. PICK len \in scenario.lengths : sent' = Append(sent, len)
    BY DEF StartSend
  <1>2. sent \in Seq(scenario.lengths) /\ Len(sent) \in Nat
    BY DEF Types
  <1>3. /\ sent' \in Seq(scenario.lengths) /\ Len(sent') = Len(sent) + 1
        /\ DOMAIN sent = 1 .. Len(sent) /\ DOMAIN sent' = 1 .. Len(sent) + 1
        /\ \A m \in 1 .. Len(sent) : sent'[m] = sent[m]
    BY <1>1, <1>2
  <1> DEFINE new == [pc |-> "lock", msg |-> Len(sent) + 1, seq |-> sequence_number,
                     next |-> 0, last |-> clock]
  <1>4. thread' = [thread EXCEPT ![t] = new] /\ ~Busy(t) /\ thread[t].last < clock
    BY DEF StartSend, Busy
  <1>5. new \in ThreadStates
    BY <1>2 DEF Types, ThreadStates
  <1>6. thread \in [Threads -> ThreadStates]
    BY DEF Types, ThreadStates
  <1>7. thread' \in [Threads -> ThreadStates] /\ thread'[t] = new /\ \A u \in Threads : u # t => thread'[u] = thread[u]
    <2> HIDE DEF new
    <2> QED
      BY <1>4, <1>5, <1>6
  <1> QED
    BY <1>2, <1>3, <1>4, <1>7 DEF StartSend

(* The lock. *)
LEMMA LockEffect ==
  ASSUME Types, NEW t \in Threads, LockPackMutex(t)
  PROVE  /\ thread[t].pc = "lock"
         /\ PackMutex => pack_mutex = NoThread /\ pack_mutex' = t
         /\ thread' \in [Threads -> ThreadStates]
         /\ \A u \in Threads : u # t => thread'[u] = thread[u]
         /\ thread'[t].pc = "send" /\ thread'[t].msg = thread[t].msg
         /\ thread'[t].seq = thread[t].seq /\ thread'[t].next = thread[t].next
         /\ thread'[t].last = thread[t].last
         /\ UNCHANGED <<scenario, clock, sent, sequence_number, net, lost, duplicated,
                        reassembly_queue, dispatched>>
  <1>1. thread \in [Threads -> ThreadStates]
    BY DEF Types, ThreadStates
  <1>2. thread' = [thread EXCEPT ![t].pc = "send"]
    BY DEF LockPackMutex
  <1>3. /\ thread' \in [Threads -> ThreadStates]
        /\ \A u \in Threads : u # t => thread'[u] = thread[u]
        /\ thread'[t].pc = "send" /\ thread'[t].msg = thread[t].msg
        /\ thread'[t].seq = thread[t].seq /\ thread'[t].next = thread[t].next
        /\ thread'[t].last = thread[t].last
    BY <1>1, <1>2 DEF ThreadStates
  <1> QED
    BY <1>3 DEF LockPackMutex

(* A segment: the thread's next one; after the last one the thread is idle. *)
LEMMA SendEffect ==
  ASSUME Types, SenderInv, NEW t \in Threads, SendSegment(t)
  PROVE  /\ Sending(t) /\ net' = Append(net, Coming(t)) /\ Coming(t) \in Datagrams
         /\ IsSegment(Coming(t)) /\ Coming(t).msg = thread[t].msg
         /\ Coming(t).seq = thread[t].seq % SeqNumbers
         /\ Coming(t).seg = thread[t].next /\ Coming(t).at = clock
         /\ Coming(t).more = (thread[t].next + 1 # Count(thread[t].msg))
         /\ thread' \in [Threads -> ThreadStates]
         /\ \A u \in Threads : u # t => thread'[u] = thread[u]
         /\ thread'[t].pc = IF Coming(t).more THEN "send" ELSE "idle"
         /\ thread'[t].msg = thread[t].msg
         /\ thread'[t].seq = thread[t].seq /\ thread'[t].next = thread[t].next + 1
         /\ thread'[t].last = thread[t].last
         /\ sequence_number' = IF Coming(t).more THEN sequence_number ELSE sequence_number + 1
         /\ pack_mutex' = IF Coming(t).more THEN pack_mutex ELSE NoThread
         /\ UNCHANGED <<scenario, clock, sent, lost, duplicated, reassembly_queue, dispatched>>
  <1>1. thread \in [Threads -> ThreadStates] /\ thread[t] \in ThreadStates
    BY DEF Types, ThreadStates
  <1>2. thread[t].seq \in Nat /\ thread[t].next \in Nat /\ thread[t].msg \in Nat /\ thread[t].last \in Nat
    BY <1>1 DEF ThreadStates
  <1>3. Sending(t) /\ Busy(t)
    BY DEF SendSegment, Sending, Busy
  <1>4. thread[t].msg \in DOMAIN sent /\ thread[t].next < Count(thread[t].msg)
    BY <1>3 DEF SenderInv
  <1>5. /\ Coming(t) \in Datagrams /\ IsSegment(Coming(t)) /\ Coming(t).msg = thread[t].msg
        /\ Coming(t).seq = thread[t].seq % SeqNumbers
        /\ Coming(t).seg = thread[t].next /\ Coming(t).at = clock
    BY <1>2, <1>4, SegmentFacts DEF Coming
  <1>6. Coming(t).more = (thread[t].next + 1 # Count(thread[t].msg)) /\ Coming(t).more \in BOOLEAN
    BY <1>5 DEF IsSegment, Datagrams
  <1> DEFINE last == thread[t].next + 1 = SegmentCount(sent[thread[t].msg])
  <1>7. last <=> ~Coming(t).more
    BY <1>6 DEF Count
  <1>8. /\ net' = Append(net, Coming(t))
        /\ thread' = [thread EXCEPT ![t].next = @ + 1, ![t].pc = IF last THEN "idle" ELSE "send"]
        /\ sequence_number' = IF last THEN sequence_number + 1 ELSE sequence_number
        /\ pack_mutex' = IF last THEN NoThread ELSE pack_mutex
        /\ UNCHANGED <<scenario, clock, sent, lost, duplicated, reassembly_queue, dispatched>>
    BY DEF SendSegment, Coming
  <1> DEFINE pc == IF last THEN "idle" ELSE "send"
             sending == [thread[t] EXCEPT !.next = thread[t].next + 1, !.pc = pc]
  <1> HIDE DEF last
  <1>9. /\ thread' \in [Threads -> ThreadStates]
        /\ \A u \in Threads : u # t => thread'[u] = thread[u]
        /\ thread'[t].pc = IF last THEN "idle" ELSE "send"
        /\ thread'[t].msg = thread[t].msg
        /\ thread'[t].seq = thread[t].seq /\ thread'[t].next = thread[t].next + 1
        /\ thread'[t].last = thread[t].last
    <2>1. pc \in {"idle", "send"} /\ thread[t].next + 1 \in Nat
      BY <1>2
    <2>2. thread' = [thread EXCEPT ![t] = sending]
      BY <1>1, <1>8
    <2> HIDE DEF pc
    <2>3. /\ sending \in ThreadStates /\ sending.pc = pc /\ sending.msg = thread[t].msg
          /\ sending.seq = thread[t].seq /\ sending.next = thread[t].next + 1
          /\ sending.last = thread[t].last
      BY <1>1, <2>1 DEF ThreadStates
    <2> HIDE DEF sending
    <2>4. /\ thread' \in [Threads -> ThreadStates] /\ thread'[t] = sending
          /\ \A u \in Threads : u # t => thread'[u] = thread[u]
      BY <1>1, <2>2, <2>3
    <2> QED
      BY <2>3, <2>4 DEF pc
  <1> QED
    BY <1>3, <1>5, <1>6, <1>7, <1>8, <1>9

(* The entry of its sequence number after segment d is stored, and what    *)
(* is left of an entry when the stale ones are removed.                    *)
Joined(d) ==
  LET e == reassembly_queue[d.seq]
  IN  IF e # NoEntry
      THEN [received |-> (e.received + 1) % 256, expected |-> Expected(d, e.expected),
            rx_hr_time |-> e.rx_hr_time, segments |-> [e.segments EXCEPT ![d.seg] = d]]
      ELSE [received |-> 1, expected |-> Expected(d, 255),
            rx_hr_time |-> TimeHr(clock), segments |-> [NoSegments EXCEPT ![d.seg] = d]]
Stale(e) == e # NoEntry /\ Age(TimeHr(clock), e.rx_hr_time) > Delta
Kept(e) == IF Stale(e) THEN NoEntry ELSE e
Whole(d) == ~d.more /\ d.seg = 0

(* There is such an entry as none, and segments fit into an entry. *)
LEMMA EntryTypes ==
  /\ NoEntry \in Entries /\ NoSegments \in [Slots -> Datagrams \cup {NoSegment}]
  /\ \A e \in Entries : Kept(e) \in Entries
  /\ NoEntry.segments = NoSegments /\ \A k \in Slots : NoSegments[k] = NoSegment
  /\ NoSegment \notin Datagrams
  <1>1. NoSegments \in [Slots -> Datagrams \cup {NoSegment}] /\ \A k \in Slots : NoSegments[k] = NoSegment
    BY DEF NoSegments, Slots
  <1>2. NoEntry \in Entries /\ NoEntry.segments = NoSegments
    BY <1>1 DEF NoEntry, Entries
  <1>3. NoSegment \notin Datagrams
    BY DEF NoSegment, Datagrams
  <1> QED
    BY <1>1, <1>2, <1>3 DEF Kept

(* What storing a segment does to its entry. *)
LEMMA JoinedFacts ==
  ASSUME Types, NEW d \in Datagrams, IsSegment(d)
  PROVE  /\ d.seg \in Slots /\ d.seq \in Keys /\ Joined(d) \in Entries /\ Joined(d) # NoEntry
         /\ d # NoSegment
         /\ \A k \in Slots :
              Joined(d).segments[k] = IF k = d.seg THEN d ELSE reassembly_queue[d.seq].segments[k]
         /\ reassembly_queue[d.seq] = NoEntry =>
              /\ Joined(d).received = 1 /\ Joined(d).expected = Expected(d, 255)
              /\ Joined(d).rx_hr_time = TimeHr(clock)
         /\ reassembly_queue[d.seq] # NoEntry =>
              /\ Joined(d).received = (reassembly_queue[d.seq].received + 1) % 256
              /\ Joined(d).expected = Expected(d, reassembly_queue[d.seq].expected)
              /\ Joined(d).rx_hr_time = reassembly_queue[d.seq].rx_hr_time
  <1> DEFINE e == reassembly_queue[d.seq]
             segs == IF e # NoEntry THEN e.segments ELSE NoSegments
             new == [segs EXCEPT ![d.seg] = d]
             r == IF e # NoEntry THEN (e.received + 1) % 256 ELSE 1
             x == Expected(d, IF e # NoEntry THEN e.expected ELSE 255)
             h == IF e # NoEntry THEN e.rx_hr_time ELSE TimeHr(clock)
  <1>1. d.seq \in Keys /\ d.seg \in Nat /\ d.msg \in Nat \ {0}
    BY DEF Datagrams
  <1>2. d.seg \in Slots
    <2>1. d.msg \in DOMAIN sent /\ d.seg < Count(d.msg)
      BY DEF IsSegment
    <2>2. Count(d.msg) \in 1 .. MaxSegments /\ MaxSegments \in Nat
      BY <2>1, CountFacts
    <2> QED
      BY <1>1, <2>1, <2>2 DEF Slots
  <1>3. e \in Entries
    BY <1>1 DEF Types
  <1>4. segs \in [Slots -> Datagrams \cup {NoSegment}] /\ \A k \in Slots : segs[k] = e.segments[k]
    <2>1. e.segments \in [Slots -> Datagrams \cup {NoSegment}]
      BY <1>3 DEF Entries
    <2> QED
      BY <2>1, EntryTypes
  <1>5. r \in Nat /\ x \in Nat /\ h \in Nat
    <2>1. e.received \in Nat /\ e.expected \in Nat /\ e.rx_hr_time \in Nat
      BY <1>3 DEF Entries
    <2>2. (e.received + 1) % 256 \in Nat
      BY <2>1
    <2>3. TimeHr(clock) \in Nat
      BY TimeHrNat DEF Types
    <2> QED
      BY <1>1, <2>1, <2>2, <2>3 DEF Expected
  <1>6. Joined(d) = [received |-> r, expected |-> x, rx_hr_time |-> h, segments |-> new]
    BY DEF Joined
  <1> HIDE DEF segs, r, x, h
  <1>7. /\ new \in [Slots -> Datagrams \cup {NoSegment}]
        /\ \A k \in Slots : new[k] = IF k = d.seg THEN d ELSE e.segments[k]
    BY <1>2, <1>4
  <1> HIDE DEF new
  <1>8. Joined(d) \in Entries /\ \A k \in Slots : Joined(d).segments[k] = IF k = d.seg THEN d ELSE e.segments[k]
    BY <1>5, <1>6, <1>7 DEF Entries
  <1>9. d # NoSegment /\ Joined(d) # NoEntry
    BY <1>2, <1>8, EntryTypes
  <1> QED
    BY <1>1, <1>2, <1>6, <1>8, <1>9 DEF r, x, h

(* The entries after d was received. *)
After(d, s) ==
  IF Whole(d) THEN IF ExpireAlways THEN Kept(reassembly_queue[s]) ELSE reassembly_queue[s]
  ELSE IF s # d.seq THEN Kept(reassembly_queue[s])
  ELSE IF Joined(d).received = Joined(d).expected THEN NoEntry ELSE Kept(Joined(d))

(* A reception: a whole message and the last segment of one are dispatched. *)
LEMMA ReceiveEffect ==
  ASSUME Types, NetInv, Receive
  PROVE  \E i \in 1 .. Len(net) :
           /\ net[i] \in Datagrams /\ IsSegment(net[i]) /\ net' = RemoveAt(net, i)
           /\ ~scenario.reorder => i = 1
           /\ reassembly_queue' \in [Keys -> Entries]
           /\ \A s \in Keys : reassembly_queue'[s] = After(net[i], s)
           /\ Whole(net[i]) => dispatched' = Append(dispatched, <<Chunk(net[i])>>)
           /\ ~Whole(net[i]) =>
                dispatched' = IF Joined(net[i]).received = Joined(net[i]).expected
                              THEN Append(dispatched, Concatenate(Joined(net[i]))) ELSE dispatched
           /\ UNCHANGED <<scenario, clock, sent, sequence_number, thread, pack_mutex, lost, duplicated>>
  <1>1. net \in Seq(Datagrams) /\ DOMAIN net = 1 .. Len(net)
    BY DEF Types
  <1>2. PICK i \in DOMAIN net :
          /\ ~scenario.reorder => i = 1
          /\ Handle(net[i]) /\ net' = RemoveAt(net, i)
    BY DEF Receive
  <1> DEFINE d == net[i]
  <1>3. d \in Datagrams /\ IsSegment(d)
    BY <1>1, <1>2 DEF NetInv
  <1>4. Handle(d)
    BY <1>2
  <1> HIDE DEF d
  <1>5. d.seq \in Keys /\ Joined(d) \in Entries /\ Joined(d) # NoEntry
    BY <1>3, JoinedFacts
  <1>6. /\ reassembly_queue \in [Keys -> Entries]
    BY DEF Types
  <1> DEFINE q == add_segment(reassembly_queue, d)
             kept(f) == [s \in Keys |-> Kept(f[s])]
  <1>7. q = [reassembly_queue EXCEPT ![d.seq] = Joined(d)]
    BY DEF add_segment, Joined
  <1> HIDE DEF q
  <1>8. q \in [Keys -> Entries] /\ \A s \in Keys : q[s] = IF s = d.seq THEN Joined(d) ELSE reassembly_queue[s]
    BY <1>5, <1>6, <1>7
  <1>9. ASSUME NEW f \in [Keys -> Entries] PROVE remove_old_msgs(f) = kept(f)
    BY <1>9 DEF remove_old_msgs, Kept, Stale
  <1>10. ASSUME NEW f \in [Keys -> Entries] PROVE kept(f) \in [Keys -> Entries]
    BY <1>10, EntryTypes
  <1>11. Kept(NoEntry) = NoEntry
    BY DEF Kept
  <1>12. /\ reassembly_queue' \in [Keys -> Entries]
         /\ \A s \in Keys : reassembly_queue'[s] = After(d, s)
         /\ Whole(d) => dispatched' = Append(dispatched, <<Chunk(d)>>)
         /\ ~Whole(d) =>
              dispatched' = IF Joined(d).received = Joined(d).expected
                            THEN Append(dispatched, Concatenate(Joined(d))) ELSE dispatched
    <2>1. CASE Whole(d)
      <3>1. /\ dispatched' = Append(dispatched, <<Chunk(d)>>)
            /\ reassembly_queue' = IF ExpireAlways THEN remove_old_msgs(reassembly_queue)
                                   ELSE reassembly_queue
        BY <1>4, <2>1 DEF Handle, Whole
      <3> QED
        BY <1>6, <1>9, <1>10, <2>1, <3>1 DEF After
    <2>2. CASE ~Whole(d) /\ Joined(d).received = Joined(d).expected
      <3>1. q[d.seq] = Joined(d)
        BY <1>5, <1>8
      <3>2. /\ dispatched' = Append(dispatched, Concatenate(Joined(d)))
            /\ reassembly_queue' = remove_old_msgs(remove_msg(q, d.seq))
        BY <1>4, <2>2, <3>1 DEF Handle, Whole, q
      <3>3. /\ remove_msg(q, d.seq) \in [Keys -> Entries]
            /\ \A s \in Keys : remove_msg(q, d.seq)[s] = IF s = d.seq THEN NoEntry ELSE reassembly_queue[s]
        BY <1>5, <1>8, EntryTypes DEF remove_msg
      <3> DEFINE f == remove_msg(q, d.seq)
      <3> HIDE DEF f
      <3>4. reassembly_queue' = kept(f) /\ kept(f) \in [Keys -> Entries]
        BY <1>9, <1>10, <3>2, <3>3 DEF f
      <3>5. \A s \in Keys : f[s] = IF s = d.seq THEN NoEntry ELSE reassembly_queue[s]
        BY <3>3 DEF f
      <3> QED
        BY <1>11, <2>2, <3>2, <3>4, <3>5 DEF After
    <2>3. CASE ~Whole(d) /\ Joined(d).received # Joined(d).expected
      <3>1. q[d.seq] = Joined(d)
        BY <1>5, <1>8
      <3>2. dispatched' = dispatched /\ reassembly_queue' = remove_old_msgs(q)
        BY <1>4, <2>3, <3>1 DEF Handle, Whole, q
      <3>3. reassembly_queue' = kept(q) /\ kept(q) \in [Keys -> Entries]
        BY <1>8, <1>9, <1>10, <3>2
      <3> QED
        BY <1>8, <2>3, <3>2, <3>3 DEF After
    <2> QED
      BY <2>1, <2>2, <2>3
  <1> QED
    BY <1>1, <1>2, <1>3, <1>12 DEF d, Receive

(* What holds in every scenario holds at first. *)
LEMMA BaseInit == Init => Base
  <1> SUFFICES ASSUME Init PROVE Base
    OBVIOUS
  <1>1. sent = <<>> /\ net = <<>> /\ clock = 1 /\ lost = 0 /\ duplicated = 0
    BY DEF Init
  <1>2. scenario \in Scenarios /\ scenario.faults \in Nat /\ MaxClock \in Nat \ {0}
    BY ScenarioAssumption, BoundsAssumption DEF Init
  <1>3. reassembly_queue \in [Keys -> Entries]
    BY EntryTypes DEF Init, Keys
  <1>4. /\ thread \in [Threads -> ThreadStates]
        /\ \A t \in Threads : thread[t].pc = "idle" /\ thread[t].last = 0
    BY DEF Init, ThreadStates
  <1>5. Types
    BY <1>1, <1>2, <1>3, <1>4 DEF Types, Init, ThreadStates
  <1>6. SenderInv
    BY <1>1, <1>4 DEF SenderInv, Busy
  <1>7. NetInv
    BY <1>1 DEF NetInv
  <1> QED
    BY <1>5, <1>6, <1>7 DEF Base

(* Datagrams that were under way stay what they are. *)
NetStays ==
  /\ net' \in Seq(Datagrams)
  /\ \A j \in DOMAIN net' : \E i \in DOMAIN net : net'[j] = net[i]

LEMMA RemovedStays ==
  ASSUME Types, NEW i \in 1 .. Len(net), net' = RemoveAt(net, i)
  PROVE  NetStays
  <1>1. net \in Seq(Datagrams) /\ DOMAIN net = 1 .. Len(net) /\ Len(net) \in Nat
    BY DEF Types
  <1>2. /\ net' \in Seq(Datagrams) /\ DOMAIN net' = 1 .. Len(net) - 1
        /\ \A k \in 1 .. Len(net) - 1 : net'[k] = IF k < i THEN net[k] ELSE net[k + 1]
    BY <1>1, Removed
  <1>3. ASSUME NEW j \in DOMAIN net' PROVE \E k \in DOMAIN net : net'[j] = net[k]
    <2>1. j \in DOMAIN net /\ j + 1 \in DOMAIN net /\ j \in 1 .. Len(net) - 1
      BY <1>1, <1>2
    <2>2. net'[j] = net[j] \/ net'[j] = net[j + 1]
      BY <1>2, <2>1
    <2> QED
      BY <2>1, <2>2
  <1> QED
    BY <1>2, <1>3 DEF NetStays

LEMMA InsertedStays ==
  ASSUME Types, NEW i \in 1 .. Len(net), net' = InsertAt(net, i, net[i])
  PROVE  NetStays
  <1>1. net \in Seq(Datagrams) /\ DOMAIN net = 1 .. Len(net) /\ Len(net) \in Nat /\ net[i] \in Datagrams
    BY DEF Types
  <1>2. PICK e \in Datagrams : e = net[i] /\ net' = InsertAt(net, i, e)
    BY <1>1
  <1>4. /\ net' \in Seq(Datagrams) /\ DOMAIN net' = 1 .. Len(net) + 1
        /\ \A k \in 1 .. Len(net) + 1 : net'[k] = IF k < i THEN net[k] ELSE IF k = i THEN e ELSE net[k - 1]
    <2>1. InsertAt(net, i, e) \in Seq(Datagrams)
      BY <1>1, Inserted
    <2>2. DOMAIN InsertAt(net, i, e) = 1 .. Len(net) + 1
      BY <1>1, Inserted
    <2>3. \A k \in 1 .. Len(net) + 1 :
            InsertAt(net, i, e)[k] = IF k < i THEN net[k] ELSE IF k = i THEN e ELSE net[k - 1]
      <3> SUFFICES ASSUME NEW k \in 1 .. Len(net) + 1
                   PROVE  InsertAt(net, i, e)[k] = IF k < i THEN net[k] ELSE IF k = i THEN e ELSE net[k - 1]
        OBVIOUS
      <3> QED
        BY <1>1 DEF InsertAt
    <2> QED
      BY <1>2, <2>1, <2>2, <2>3
  <1>3. ASSUME NEW j \in DOMAIN net' PROVE \E k \in DOMAIN net : net'[j] = net[k]
    <2>1. /\ j \in 1 .. Len(net) + 1 /\ (j < i => j \in DOMAIN net) /\ i \in DOMAIN net
          /\ (j > i => j - 1 \in DOMAIN net)
      BY <1>1, <1>4
    <2>2. (j < i /\ net'[j] = net[j]) \/ net'[j] = net[i] \/ (j > i /\ net'[j] = net[j - 1])
      BY <1>1, <1>2, <1>4, <2>1
    <2> QED
      BY <2>1, <2>2
  <1> QED
    BY <1>3, <1>4 DEF NetStays

(* The network and the receiver leave the sender alone. *)
LEMMA BaseNet ==
  ASSUME Base, NetStays, reassembly_queue' \in [Keys -> Entries],
         lost' \in Nat, duplicated' \in Nat, lost' + duplicated' <= scenario.faults,
         UNCHANGED <<scenario, clock, sent, sequence_number, thread, pack_mutex>>
  PROVE  Base'
  <1>1. Types'
    BY DEF Base, Types, NetStays, Threads
  <1>2. SenderInv'
    BY DEF Base, SenderInv, Busy, Count, Threads
  <1>3. NetInv'
    BY DEF Base, NetInv, NetStays, IsSegment, Piece, Count, Busy, Threads
  <1> QED
    BY <1>1, <1>2, <1>3 DEF Base

(* A reception. *)
LEMMA BaseReceive ==
  ASSUME Base, Receive
  PROVE  Base'
  <1>1. Types /\ NetInv
    BY DEF Base
  <1>2. PICK i \in 1 .. Len(net) :
          /\ net' = RemoveAt(net, i) /\ reassembly_queue' \in [Keys -> Entries]
          /\ UNCHANGED <<scenario, clock, sent, sequence_number, thread, pack_mutex, lost, duplicated>>
    BY <1>1, ReceiveEffect
  <1>4. NetStays
    BY <1>1, <1>2, RemovedStays
  <1> QED
    BY <1>1, <1>2, <1>4, BaseNet DEF Types

(* A loss: one datagram less. *)
LEMMA LoseEffect ==
  ASSUME Types, Lose
  PROVE  /\ \E i \in 1 .. Len(net) : net' = RemoveAt(net, i)
         /\ lost' = lost + 1 /\ lost + duplicated < scenario.faults
         /\ UNCHANGED <<scenario, clock, sent, sequence_number, thread, pack_mutex, duplicated,
                        reassembly_queue, dispatched>>
  <1>1. net \in Seq(Datagrams) /\ DOMAIN net = 1 .. Len(net)
    BY DEF Types
  <1> QED
    BY <1>1 DEF Lose

(* A duplicate: one datagram more. *)
LEMMA DuplicateEffect ==
  ASSUME Types, Duplicate
  PROVE  /\ \E i \in 1 .. Len(net) : net' = InsertAt(net, i, net[i])
         /\ duplicated' = duplicated + 1 /\ lost + duplicated < scenario.faults
         /\ UNCHANGED <<scenario, clock, sent, sequence_number, thread, pack_mutex, lost,
                        reassembly_queue, dispatched>>
  <1>1. net \in Seq(Datagrams) /\ DOMAIN net = 1 .. Len(net)
    BY DEF Types
  <1> QED
    BY <1>1 DEF Duplicate

LEMMA BaseLose ==
  ASSUME Base, Lose
  PROVE  Base'
  <1>1. Types
    BY DEF Base
  <1>2. PICK i \in 1 .. Len(net) : net' = RemoveAt(net, i)
    BY <1>1, LoseEffect
  <1>4. NetStays
    BY <1>1, <1>2, RemovedStays
  <1>5. lost \in Nat /\ duplicated \in Nat /\ scenario.faults \in Nat
    BY <1>1, ScenarioFacts DEF Types
  <1>6. lost' \in Nat /\ duplicated' \in Nat /\ lost' + duplicated' <= scenario.faults
    BY <1>1, <1>5, LoseEffect
  <1> QED
    BY <1>1, <1>4, <1>6, BaseNet, LoseEffect DEF Types

LEMMA BaseDuplicate ==
  ASSUME Base, Duplicate
  PROVE  Base'
  <1>1. Types
    BY DEF Base
  <1>2. PICK i \in 1 .. Len(net) : net' = InsertAt(net, i, net[i])
    BY <1>1, DuplicateEffect
  <1>4. NetStays
    BY <1>1, <1>2, InsertedStays
  <1>5. lost \in Nat /\ duplicated \in Nat /\ scenario.faults \in Nat
    BY <1>1, ScenarioFacts DEF Types
  <1>6. lost' \in Nat /\ duplicated' \in Nat /\ lost' + duplicated' <= scenario.faults
    BY <1>1, <1>5, DuplicateEffect
  <1> QED
    BY <1>1, <1>4, <1>6, BaseNet, DuplicateEffect DEF Types

(* Time passes while nobody sends and nothing is too old. *)
LEMMA BaseTick ==
  ASSUME Base, Tick
  PROVE  Base'
  <1>1. /\ clock' = clock + 1 /\ clock < MaxClock /\ clock \in 1 .. MaxClock /\ MaxClock \in Nat
        /\ \A t \in Threads : ~Busy(t)
        /\ UNCHANGED <<scenario, sent, sequence_number, thread, pack_mutex, net, lost, duplicated,
                       reassembly_queue, dispatched>>
    BY BoundsAssumption DEF Tick, Base, Types, Busy
  <1>2. Types'
    BY <1>1 DEF Base, Types, Threads
  <1>3. SenderInv'
    <2>1. \A t \in Threads : thread[t].last \in Nat /\ thread[t].last <= clock
      BY DEF Base, Types, SenderInv
    <2>2. \A t \in Threads : thread[t].pc = "idle"
      BY <1>1 DEF Busy
    <2> QED
      BY <1>1, <2>1, <2>2 DEF SenderInv, Busy, Threads
  <1>4. NetInv'
    <2> SUFFICES ASSUME NEW i \in DOMAIN net
                 PROVE  /\ IsSegment(net[i]) /\ net[i].at <= clock + 1 /\ clock + 1 <= net[i].at + MaxDelay
      BY <1>1 DEF NetInv, IsSegment, Piece, Count, Busy, Threads
    <2>1. net[i] \in Datagrams
      BY DEF Base, Types
    <2>3. net[i].at \in Nat
      BY <2>1 DEF Datagrams
    <2>2. clock - net[i].at < MaxDelay /\ IsSegment(net[i]) /\ net[i].at <= clock
      BY DEF Tick, Base, NetInv
    <2> QED
      BY <1>1, <2>2, <2>3, BoundsAssumption
  <1> QED
    BY <1>2, <1>3, <1>4 DEF Base

LEMMA BaseStart ==
  ASSUME Base, NEW t \in Threads, StartSend(t)
  PROVE  Base'
  <1>1. Types /\ SenderInv /\ NetInv
    BY DEF Base
  <1>2. /\ ~Busy(t) /\ Len(sent) \in Nat /\ sent' \in Seq(scenario.lengths)
        /\ DOMAIN sent = 1 .. Len(sent) /\ DOMAIN sent' = 1 .. Len(sent) + 1
        /\ \A m \in DOMAIN sent : m \in DOMAIN sent' /\ sent'[m] = sent[m]
        /\ thread' \in [Threads -> ThreadStates]
        /\ \A u \in Threads : u # t => thread'[u] = thread[u]
        /\ thread'[t].pc = "lock" /\ thread'[t].msg = Len(sent) + 1
        /\ thread'[t].next = 0 /\ thread'[t].last = clock
        /\ UNCHANGED <<scenario, clock, sequence_number, pack_mutex, net, lost, duplicated,
                       reassembly_queue, dispatched>>
    BY <1>1, StartEffect
  <1>3. /\ \A m \in DOMAIN sent : Count(m)' = Count(m)
        /\ \A d : IsSegment(d) => IsSegment(d)'
    BY <1>2, SegmentStays
  <1>4. Types'
    BY <1>1, <1>2 DEF Types, Threads, ThreadStates
  <1>5. Threads' = Threads /\ clock' = clock
    BY <1>2 DEF Threads
  <1>6. \A u \in Threads : u # t => Busy(u)' = Busy(u)
    BY <1>2 DEF Busy
  <1>7. SenderInv'
    <2> SUFFICES ASSUME NEW u \in Threads
                 PROVE  /\ thread'[u].last <= clock
                        /\ Busy(u)' =>
                             /\ thread'[u].msg \in DOMAIN sent' /\ thread'[u].next < Count(thread[u].msg)'
                             /\ thread'[u].last = clock
                             /\ \A v \in Threads : Busy(v)' /\ thread'[v].msg = thread'[u].msg => u = v
                        /\ thread'[u].pc = "lock" => thread'[u].next = 0
      BY <1>5 DEF SenderInv
    <2>1. \A v \in Threads : v # t /\ Busy(v)' => thread'[v].msg # Len(sent) + 1
      BY <1>1, <1>2, <1>6 DEF SenderInv
    <2>2. CASE u = t
      <3>1. thread'[t].msg \in DOMAIN sent'
        BY <1>2
      <3>2. Count(thread[t].msg)' \in Nat \ {0}
        <4>1. sent'[thread'[t].msg] \in scenario.lengths
          BY <1>2, <3>1
        <4>2. \A l \in scenario.lengths : SegmentCount(l) \in 1 .. MaxSegments
          BY <1>1, ScenarioFacts DEF Types
        <4>3. SegmentCount(sent'[thread'[t].msg]) \in 1 .. MaxSegments
          BY <4>1, <4>2
        <4> QED
          BY <4>3, SegmentsAssumption DEF Count
      <3> QED
        BY <1>2, <2>1, <2>2, <3>1, <3>2, <1>1 DEF Types
    <2>3. CASE u # t
      <3>1. thread'[u] = thread[u] /\ Busy(u)' = Busy(u)
        BY <1>2, <1>6, <2>3
      <3>2. Busy(u) => /\ thread[u].msg \in DOMAIN sent /\ thread[u].msg # Len(sent) + 1
                       /\ Count(thread[u].msg)' = Count(thread[u].msg)
        BY <1>1, <1>2, <1>3, <3>1 DEF SenderInv
      <3>3. \A v \in Threads : Busy(u)' /\ Busy(v)' /\ thread'[v].msg = thread'[u].msg => u = v
        BY <1>1, <1>2, <1>6, <2>1, <3>1, <3>2 DEF SenderInv
      <3> QED
        BY <1>1, <1>2, <1>3, <3>1, <3>2, <3>3 DEF SenderInv
    <2> QED
      BY <2>2, <2>3
  <1>8. NetInv'
    <2> SUFFICES ASSUME NEW i \in DOMAIN net
                 PROVE  /\ IsSegment(net[i])' /\ net[i].at <= clock /\ clock <= net[i].at + MaxDelay
                        /\ \A u \in Threads : Busy(u)' /\ thread'[u].msg = net[i].msg => net[i].seg < thread'[u].next
      BY <1>2, <1>5 DEF NetInv
    <2>1. /\ IsSegment(net[i]) /\ net[i].msg \in DOMAIN sent
          /\ net[i].at <= clock /\ clock <= net[i].at + MaxDelay
          /\ \A u \in Threads : Busy(u) /\ thread[u].msg = net[i].msg => net[i].seg < thread[u].next
      BY <1>1 DEF NetInv, IsSegment
    <2>2. IsSegment(net[i])'
      BY <1>2, <1>3, <2>1
    <2>3. net[i].msg # Len(sent) + 1
      BY <1>2, <2>1
    <2> QED
      BY <1>2, <1>6, <2>1, <2>2, <2>3
  <1> QED
    BY <1>4, <1>7, <1>8 DEF Base

LEMMA BaseLock ==
  ASSUME Base, NEW t \in Threads, LockPackMutex(t)
  PROVE  Base'
  <1>1. Types /\ SenderInv /\ NetInv
    BY DEF Base
  <1>2. /\ thread[t].pc = "lock"
        /\ thread' \in [Threads -> ThreadStates]
        /\ \A u \in Threads : u # t => thread'[u] = thread[u]
        /\ thread'[t].pc = "send" /\ thread'[t].msg = thread[t].msg
        /\ thread'[t].seq = thread[t].seq /\ thread'[t].next = thread[t].next
        /\ thread'[t].last = thread[t].last
        /\ UNCHANGED <<scenario, clock, sent, sequence_number, net, lost, duplicated,
                       reassembly_queue, dispatched>>
    BY <1>1, LockEffect
  <1>3. \A u \in Threads : /\ Busy(u)' = Busy(u) /\ thread'[u].msg = thread[u].msg
                           /\ thread'[u].next = thread[u].next /\ thread'[u].last = thread[u].last
                           /\ thread'[u].pc = "lock" => thread[u].pc = "lock"
    BY <1>2 DEF Busy
  <1>4. Types'
    BY <1>1, <1>2 DEF Types, Threads, ThreadStates
  <1>5. Threads' = Threads /\ clock' = clock /\ sent' = sent /\ net' = net /\ \A m : Count(m)' = Count(m)
    BY <1>2 DEF Threads, Count
  <1>6. SenderInv'
    BY <1>1, <1>3, <1>5 DEF SenderInv
  <1>7. \A d : IsSegment(d)' = IsSegment(d)
    BY <1>5 DEF IsSegment, Piece
  <1>8. NetInv'
    BY <1>1, <1>3, <1>5, <1>7 DEF NetInv
  <1> QED
    BY <1>4, <1>6, <1>8 DEF Base

LEMMA BaseSend ==
  ASSUME Base, NEW t \in Threads, SendSegment(t)
  PROVE  Base'
  <1> DEFINE d == Coming(t)
  <1>1. Types /\ SenderInv /\ NetInv
    BY DEF Base
  <1>2. /\ Busy(t) /\ net' = Append(net, d) /\ d \in Datagrams /\ IsSegment(d) /\ d.msg = thread[t].msg
        /\ d.seg = thread[t].next /\ d.at = clock /\ d.more = (thread[t].next + 1 # Count(thread[t].msg))
        /\ thread' \in [Threads -> ThreadStates]
        /\ \A u \in Threads : u # t => thread'[u] = thread[u]
        /\ thread'[t].pc = IF d.more THEN "send" ELSE "idle"
        /\ thread'[t].msg = thread[t].msg /\ thread'[t].next = thread[t].next + 1
        /\ thread'[t].last = thread[t].last
        /\ sequence_number' = (IF d.more THEN sequence_number ELSE sequence_number + 1)
        /\ UNCHANGED <<scenario, clock, sent, lost, duplicated, reassembly_queue, dispatched>>
    BY <1>1, SendEffect DEF Sending, Busy
  <1> HIDE DEF d
  <1>3. Threads' = Threads /\ clock' = clock /\ sent' = sent /\ \A m : Count(m)' = Count(m)
    BY <1>2 DEF Threads, Count
  <1>4. \A c : IsSegment(c)' = IsSegment(c)
    BY <1>3 DEF IsSegment, Piece
  <1>5. net \in Seq(Datagrams) /\ Len(net) \in Nat /\ DOMAIN net = 1 .. Len(net)
    BY <1>1 DEF Types
  <1>6. /\ net' \in Seq(Datagrams) /\ DOMAIN net' = 1 .. Len(net) + 1
        /\ \A i \in DOMAIN net' : net'[i] = IF i = Len(net) + 1 THEN d ELSE net[i]
    BY <1>2, <1>5
  <1>7. Types'
    <2>1. sequence_number' \in Nat
      BY <1>1, <1>2 DEF Types
    <2> QED
      BY <1>1, <1>2, <1>6, <2>1 DEF Types, Threads, ThreadStates
  <1>8. /\ thread[t].msg \in DOMAIN sent /\ thread[t].next \in Nat /\ thread[t].next < Count(thread[t].msg)
        /\ Count(thread[t].msg) \in Nat /\ thread[t].last = clock /\ clock \in Nat
    <2>1. /\ thread[t].msg \in DOMAIN sent /\ thread[t].next < Count(thread[t].msg) /\ thread[t].last = clock
      BY <1>1, <1>2 DEF SenderInv
    <2> QED
      BY <1>1, <2>1, CountFacts DEF Types
  <1>9. \A u \in Threads : /\ Busy(u)' => Busy(u)
                           /\ thread'[u].msg = thread[u].msg
    BY <1>2 DEF Busy
  <1>10. SenderInv'
    <2> SUFFICES ASSUME NEW u \in Threads
                 PROVE  /\ thread'[u].last <= clock
                        /\ Busy(u)' =>
                             /\ thread'[u].msg \in DOMAIN sent /\ thread'[u].next < Count(thread'[u].msg)
                             /\ thread'[u].last = clock
                             /\ \A v \in Threads : Busy(v)' /\ thread'[v].msg = thread'[u].msg => u = v
                        /\ thread'[u].pc = "lock" => thread'[u].next = 0
      BY <1>3 DEF SenderInv
    <2>1. \A v \in Threads : Busy(u)' /\ Busy(v)' /\ thread'[v].msg = thread'[u].msg => u = v
      BY <1>1, <1>9 DEF SenderInv
    <2>2. CASE u = t
      <3>1. Busy(u)' => thread[t].next + 1 # Count(thread[t].msg)
        BY <1>2, <2>2 DEF Busy
      <3>2. thread'[u].pc # "lock"
        BY <1>2, <2>2
      <3>3. Busy(u)' => thread[t].next + 1 < Count(thread[t].msg)
        BY <1>8, <3>1
      <3>4. thread'[u].msg = thread[t].msg /\ thread'[u].next = thread[t].next + 1 /\ thread'[u].last = clock
        BY <1>2, <1>8, <2>2
      <3> QED
        BY <1>8, <2>1, <3>2, <3>3, <3>4
    <2>3. CASE u # t
      <3>1. thread'[u] = thread[u] /\ (Busy(u)' => Busy(u))
        BY <1>2, <1>9, <2>3
      <3>2. /\ thread[u].last <= clock
            /\ Busy(u) => /\ thread[u].msg \in DOMAIN sent /\ thread[u].next < Count(thread[u].msg)
                          /\ thread[u].last = clock
            /\ thread[u].pc = "lock" => thread[u].next = 0
        BY <1>1 DEF SenderInv
      <3> QED
        BY <2>1, <3>1, <3>2
    <2> QED
      BY <2>2, <2>3
  <1>11. NetInv'
    <2> SUFFICES ASSUME NEW i \in DOMAIN net'
                 PROVE  /\ IsSegment(net'[i]) /\ net'[i].at <= clock /\ clock <= net'[i].at + MaxDelay
                        /\ \A u \in Threads : Busy(u)' /\ thread'[u].msg = net'[i].msg
                                              => net'[i].seg < thread'[u].next
      BY <1>3, <1>4 DEF NetInv
    <2>1. CASE i = Len(net) + 1
      <3>1. net'[i] = d
        BY <1>6, <2>1
      <3>2. \A u \in Threads : Busy(u)' /\ thread'[u].msg = d.msg => u = t
        BY <1>1, <1>2, <1>9 DEF SenderInv
      <3> QED
        BY <1>2, <1>8, <3>1, <3>2, BoundsAssumption
    <2>2. CASE i # Len(net) + 1
      <3>1. net'[i] = net[i] /\ i \in DOMAIN net
        BY <1>5, <1>6, <2>2
      <3>2. /\ IsSegment(net[i]) /\ net[i].at <= clock /\ clock <= net[i].at + MaxDelay
            /\ \A u \in Threads : Busy(u) /\ thread[u].msg = net[i].msg => net[i].seg < thread[u].next
        BY <1>1, <3>1 DEF NetInv
      <3>3. net[i] \in Datagrams
        BY <1>5, <3>1
      <3>4. net[i].seg \in Nat
        BY <3>3 DEF Datagrams
      <3> QED
        BY <1>2, <1>8, <1>9, <3>1, <3>2, <3>4
    <2> QED
      BY <2>1, <2>2
  <1> QED
    BY <1>7, <1>10, <1>11 DEF Base

LEMMA BaseNext == Base /\ [Next]_vars => Base'
  <1> SUFFICES ASSUME Base, [Next]_vars PROVE Base'
    OBVIOUS
  <1>1. CASE UNCHANGED vars
    BY <1>1 DEF vars, Base, Types, SenderInv, NetInv, IsSegment, Piece, Count, Busy, Threads
  <1>2. CASE Next
    BY <1>2, BaseStart, BaseLock, BaseSend, BaseReceive, BaseLose, BaseDuplicate, BaseTick DEF Next
  <1> QED
    BY <1>1, <1>2

-----------------------------------------------------------------------------
(* A network that keeps the order.                                         *)

(* At first. *)
LEMMA QuietInit == Init => QuietInv
  <1> SUFFICES ASSUME Init PROVE QuietInv
    OBVIOUS
  <1>1. /\ sent = <<>> /\ net = <<>> /\ dispatched = <<>> /\ pack_mutex = NoThread
        /\ \A t \in Threads : thread[t].pc = "idle"
        /\ \A s \in Keys : reassembly_queue[s] = NoEntry
        /\ NoThread \notin Threads
    BY ScenarioAssumption DEF Init, Keys, Threads
  <1>2. OneSender
    BY <1>1 DEF OneSender, Sending
  <1>3. StreamInv /\ AccountInv
    BY <1>1 DEF StreamInv, AccountInv
  <1>4. QueueInv
    BY <1>1 DEF QueueInv, Sending
  <1>5. SoundDispatched
    BY <1>1 DEF SoundDispatched
  <1> QED
    BY <1>2, <1>3, <1>4, <1>5 DEF QuietInv, Flow

(* Who takes the lock finds nobody sending. *)
LEMMA LockedAlone ==
  ASSUME Base, Orderly(scenario), OneSender, NEW t \in Threads, LockPackMutex(t)
  PROVE  \A u \in Threads : ~Sending(u)
  <1>1. thread[t].pc = "lock" /\ (PackMutex => pack_mutex = NoThread)
    BY LockEffect DEF Base
  <1>2. NoThread \notin Threads
    BY ScenarioFacts DEF Base, Types
  <1>3. PackMutex \/ \A u, v \in Threads : u = v
    BY DEF Orderly, PackMutex, Threads
  <1> QED
    BY <1>1, <1>2, <1>3 DEF OneSender, Sending

LEMMA OneSenderNext ==
  ASSUME Base, Orderly(scenario), OneSender, [Next]_vars
  PROVE  OneSender'
  <1>1. Types /\ SenderInv /\ NoThread \notin Threads
    BY ScenarioFacts DEF Base, Types
  <1>2. ASSUME NEW t \in Threads, StartSend(t) PROVE OneSender'
    <2>1. /\ \A u \in Threads : u # t => thread'[u] = thread[u]
          /\ thread'[t].pc = "lock" /\ ~Busy(t)
          /\ UNCHANGED <<scenario, pack_mutex>>
      BY <1>1, <1>2, StartEffect
    <2> QED
      BY <2>1 DEF OneSender, Sending, Busy, Threads, PackMutex
  <1>3. ASSUME NEW t \in Threads, LockPackMutex(t) PROVE OneSender'
    <2>1. /\ \A u \in Threads : u # t => thread'[u] = thread[u]
          /\ thread'[t].pc = "send" /\ (PackMutex => pack_mutex' = t)
          /\ UNCHANGED scenario
      BY <1>1, <1>3, LockEffect
    <2>2. \A u \in Threads : ~Sending(u)
      BY <1>3, LockedAlone
    <2> QED
      BY <2>1, <2>2 DEF OneSender, Sending, Threads, PackMutex
  <1>4. ASSUME NEW t \in Threads, SendSegment(t) PROVE OneSender'
    <2> DEFINE more == Coming(t).more
    <2>1. /\ \A u \in Threads : u # t => thread'[u] = thread[u]
          /\ thread'[t].pc = (IF more THEN "send" ELSE "idle") /\ Sending(t)
          /\ pack_mutex' = IF more THEN pack_mutex ELSE NoThread
          /\ UNCHANGED scenario
      BY <1>1, <1>4, SendEffect
    <2> HIDE DEF more
    <2>2. \A u \in Threads : Sending(u)' => u = t
      BY <2>1 DEF OneSender, Sending
    <2> QED
      BY <1>1, <2>1, <2>2 DEF OneSender, Sending, Threads, PackMutex
  <1>5. ASSUME UNCHANGED <<scenario, thread, pack_mutex>> PROVE OneSender'
    BY <1>5 DEF OneSender, Sending, Threads, PackMutex
  <1>6. Receive \/ Lose \/ Duplicate \/ Tick \/ UNCHANGED vars => UNCHANGED <<scenario, thread, pack_mutex>>
    BY DEF Receive, Lose, Duplicate, Tick, vars
  <1> QED
    BY <1>2, <1>3, <1>4, <1>5, <1>6 DEF Next

(* The next datagram to arrive remains it while the queue is left alone. *)
LEMMA OpenedStays ==
  ASSUME Types, reassembly_queue' = reassembly_queue, clock' \in {clock, clock + 1},
         \A m \in DOMAIN sent : m \in DOMAIN sent' /\ sent'[m] = sent[m]
  PROVE  \A d : Opened(d) => Opened(d)'
  <1>1. \A c : IsSegment(c) => IsSegment(c)'
    BY SegmentStays
  <1>2. \A then : then \in 1 .. clock => then \in 1 .. clock'
    BY DEF Types
  <1>3. \A e, d : Before(e, d) => Before(e, d)'
    BY <1>1, <1>2 DEF Before
  <1> QED
    BY <1>3 DEF Opened

(* What was dispatched remains sound. *)
LEMMA SoundStays ==
  ASSUME duplicated' >= duplicated, duplicated \in Nat, duplicated' \in Nat,
         \A m \in DOMAIN sent : m \in DOMAIN sent' /\ sent'[m] = sent[m]
  PROVE  \A c : Sound(c) => Sound(c)'
  <1>1. \A m \in DOMAIN sent : Count(m)' = Count(m) /\ \A k : Piece(m, k)' = Piece(m, k)
    BY SegmentStays
  <1>2. duplicated > 0 => duplicated' > 0
    OBVIOUS
  <1> QED
    BY <1>1, <1>2 DEF Sound

LEMMA FlowStart ==
  ASSUME Base, OneSender, Flow, NEW t \in Threads, StartSend(t)
  PROVE  Flow'
  <1>1. Types /\ SenderInv /\ NetInv
    BY DEF Base
  <1>2. /\ ~Busy(t) /\ Len(sent) \in Nat /\ DOMAIN sent = 1 .. Len(sent)
        /\ DOMAIN sent' = 1 .. Len(sent) + 1
        /\ \A m \in DOMAIN sent : m \in DOMAIN sent' /\ sent'[m] = sent[m]
        /\ \A u \in Threads : u # t => thread'[u] = thread[u]
        /\ thread'[t].pc = "lock" /\ thread'[t].msg = Len(sent) + 1
        /\ UNCHANGED <<scenario, clock, sequence_number, pack_mutex, net, lost, duplicated,
                       reassembly_queue, dispatched>>
    BY <1>1, StartEffect
  <1>3. /\ Threads' = Threads /\ ~Sending(t) /\ ~Sending(t)'
        /\ \A u \in Threads : u # t => Sending(u)' = Sending(u) /\ Busy(u)' = Busy(u)
        /\ Busy(t)'
    BY <1>2 DEF Threads, Sending, Busy
  <1>4. \A u \in Threads : Sending(u) => Coming(u)' = Coming(u)
    <2> SUFFICES ASSUME NEW u \in Threads, Sending(u) PROVE Coming(u)' = Coming(u)
      OBVIOUS
    <2>1. thread'[u] = thread[u] /\ thread[u].msg \in DOMAIN sent
      BY <1>1, <1>2, <1>3 DEF SenderInv, Sending, Busy
    <2>2. sent'[thread[u].msg] = sent[thread[u].msg] /\ clock' = clock
      BY <1>2, <2>1
    <2> QED
      BY <2>1, <2>2 DEF Coming, Segment
  <1>5. StreamInv'
    BY <1>2, <1>3, <1>4 DEF Flow, StreamInv, Follows
  <1>6. \A d : Opened(d) => Opened(d)'
    BY <1>1, <1>2, OpenedStays
  <1>7. QueueInv'
    BY <1>2, <1>3, <1>4, <1>6 DEF Flow, QueueInv
  <1>8. SoundDispatched'
    <2>1. \A c : Sound(c) => Sound(c)'
      BY <1>1, <1>2, SoundStays DEF Types
    <2> QED
      BY <1>2, <2>1 DEF Flow, SoundDispatched
  <1>9. AccountInv'
    <2>1. AccountInv /\ \A i \in DOMAIN net : net[i].msg \in DOMAIN sent
      BY <1>1 DEF Flow, NetInv, IsSegment
    <2>2. \A m \in DOMAIN sent' : m \in DOMAIN sent \/ m = Len(sent) + 1
      BY <1>2
    <2>3. \A k : Done(k)' = Done(k)
      BY <1>2 DEF Done
    <2>4. \A m \in DOMAIN sent' :
            \/ \E u \in Threads : Busy(u)' /\ thread'[u].msg = m
            \/ \E i \in DOMAIN net : ~net[i].more /\ net[i].msg = m
            \/ \E k \in DOMAIN dispatched : Done(k) = m
      <3> SUFFICES ASSUME NEW m \in DOMAIN sent, NEW u \in Threads, Busy(u), thread[u].msg = m
                   PROVE  \E v \in Threads : Busy(v)' /\ thread'[v].msg = m
        BY <1>2, <1>3, <2>1, <2>2 DEF AccountInv
      <3> QED
        BY <1>2, <1>3
    <2>5. \A k \in DOMAIN dispatched :
            /\ Done(k) \in DOMAIN sent'
            /\ \A u \in Threads : Busy(u)' => Done(k) # thread'[u].msg
      <3> SUFFICES ASSUME NEW k \in DOMAIN dispatched, NEW u \in Threads
                   PROVE  Done(k) \in DOMAIN sent' /\ (Busy(u)' => Done(k) # thread'[u].msg)
        OBVIOUS
      <3>1. Done(k) \in DOMAIN sent /\ (Busy(u) => Done(k) # thread[u].msg)
        BY <2>1 DEF AccountInv
      <3> QED
        BY <1>2, <1>3, <3>1
    <2> QED
      BY <1>2, <1>3, <2>1, <2>3, <2>4, <2>5 DEF AccountInv
  <1> QED
    BY <1>5, <1>7, <1>8, <1>9 DEF Flow

LEMMA FlowLock ==
  ASSUME Base, Orderly(scenario), OneSender, Flow, NEW t \in Threads, LockPackMutex(t)
  PROVE  Flow'
  <1>1. Types /\ SenderInv /\ NetInv
    BY DEF Base
  <1>2. /\ thread[t].pc = "lock"
        /\ thread' \in [Threads -> ThreadStates]
        /\ \A u \in Threads : u # t => thread'[u] = thread[u]
        /\ thread'[t].pc = "send" /\ thread'[t].msg = thread[t].msg
        /\ thread'[t].seq = thread[t].seq /\ thread'[t].next = thread[t].next
        /\ UNCHANGED <<scenario, clock, sent, sequence_number, net, lost, duplicated,
                       reassembly_queue, dispatched>>
    BY <1>1, LockEffect
  <1>3. \A u \in Threads : ~Sending(u)
    BY LockedAlone
  <1>4. /\ Threads' = Threads /\ (\A u \in Threads : Sending(u)' => u = t)
        /\ \A u \in Threads : Busy(u)' = Busy(u) /\ thread'[u].msg = thread[u].msg
    BY <1>2, <1>3 DEF Threads, Sending, Busy
  <1>5. Coming(t)'.seg = 0
    <2>1. thread'[t].next = 0
      BY <1>1, <1>2 DEF SenderInv
    <2> QED
      BY <2>1 DEF Coming, Segment
  <1>6. StreamInv'
    <2>1. net # <<>> => ~net[Len(net)].more
      BY <1>3 DEF Flow, StreamInv
    <2>2. net' # <<>> => \A u \in Threads : Sending(u)' => Follows(net'[Len(net')], Coming(u)')
      BY <1>2, <1>4, <1>5, <2>1 DEF Follows
    <2> QED
      BY <1>2, <1>4, <2>1, <2>2 DEF Flow, StreamInv, Follows
  <1>7. \A d : Opened(d) => Opened(d)'
    BY <1>1, <1>2, OpenedStays
  <1>8. QueueInv'
    <2>1. net = <<>> => \A s \in Keys : reassembly_queue'[s] = NoEntry
      BY <1>2, <1>3 DEF Flow, QueueInv
    <2>2. net = <<>> => Opened(Coming(t))'
      BY <1>5, <2>1 DEF Opened
    <2>3. net = <<>> => \A u \in Threads : Sending(u)' => Opened(Coming(u))'
      BY <1>4, <2>2
    <2>4. net # <<>> => Opened(net[1])'
      BY <1>2, <1>7 DEF Flow, QueueInv
    <2> QED
      BY <1>2, <1>4, <2>1, <2>3, <2>4 DEF QueueInv
  <1>9. SoundDispatched'
    <2>1. \A c : Sound(c) => Sound(c)'
      BY <1>1, <1>2, SoundStays DEF Types
    <2> QED
      BY <1>2, <2>1 DEF Flow, SoundDispatched
  <1>10. AccountInv'
    BY <1>2, <1>4 DEF Flow, AccountInv, Done
  <1> QED
    BY <1>6, <1>8, <1>9, <1>10 DEF Flow

LEMMA FlowTick ==
  ASSUME Base, Flow, Tick
  PROVE  Flow'
  <1>1. Types /\ SenderInv /\ NetInv
    BY DEF Base
  <1>2. /\ clock' = clock + 1 /\ (\A t \in Threads : thread[t].pc = "idle")
        /\ UNCHANGED <<scenario, sent, sequence_number, thread, pack_mutex, net, lost, duplicated,
                       reassembly_queue, dispatched>>
    BY DEF Tick
  <1>3. Threads' = Threads /\ \A u \in Threads : ~Sending(u) /\ ~Sending(u)' /\ ~Busy(u) /\ ~Busy(u)'
    BY <1>2 DEF Threads, Sending, Busy
  <1>4. StreamInv'
    BY <1>2, <1>3 DEF Flow, StreamInv, Follows
  <1>5. \A d : Opened(d) => Opened(d)'
    BY <1>1, <1>2, OpenedStays
  <1>6. QueueInv'
    BY <1>2, <1>3, <1>5 DEF Flow, QueueInv
  <1>7. SoundDispatched'
    <2>1. \A c : Sound(c) => Sound(c)'
      BY <1>1, <1>2, SoundStays DEF Types
    <2> QED
      BY <1>2, <2>1 DEF Flow, SoundDispatched
  <1>8. AccountInv'
    BY <1>2, <1>3 DEF Flow, AccountInv, Done
  <1> QED
    BY <1>4, <1>6, <1>7, <1>8 DEF Flow

LEMMA FlowSend ==
  ASSUME Base, OneSender, Flow, NEW t \in Threads, SendSegment(t)
  PROVE  Flow'
  <1> DEFINE d == Coming(t)
  <1>1. Types /\ SenderInv /\ NetInv
    BY DEF Base
  <1>2. /\ Sending(t) /\ Busy(t) /\ net' = Append(net, d) /\ d \in Datagrams /\ IsSegment(d)
        /\ d.msg = thread[t].msg /\ d.seq = thread[t].seq % SeqNumbers
        /\ d.seg = thread[t].next /\ d.at = clock /\ d.more = (thread[t].next + 1 # Count(thread[t].msg))
        /\ \A u \in Threads : u # t => thread'[u] = thread[u]
        /\ thread'[t].pc = (IF d.more THEN "send" ELSE "idle")
        /\ thread'[t].msg = thread[t].msg /\ thread'[t].next = thread[t].next + 1
        /\ thread'[t].seq = thread[t].seq
        /\ UNCHANGED <<scenario, clock, sent, lost, duplicated, reassembly_queue, dispatched>>
    BY <1>1, SendEffect DEF Sending, Busy
  <1>3. Coming(t)'.msg = d.msg /\ Coming(t)'.seq = d.seq /\ Coming(t)'.seg = d.seg + 1 /\ Coming(t)'.at = d.at
    BY <1>2 DEF Coming, Segment
  <1> HIDE DEF d
  <1>4. net \in Seq(Datagrams) /\ Len(net) \in Nat /\ DOMAIN net = 1 .. Len(net)
    BY <1>1 DEF Types
  <1>5. /\ net' \in Seq(Datagrams) /\ Len(net') = Len(net) + 1 /\ DOMAIN net' = 1 .. Len(net) + 1
        /\ net'[Len(net) + 1] = d
        /\ \A i \in 1 .. Len(net) : net'[i] = net[i]
    BY <1>2, <1>4
  <1>6. /\ Threads' = Threads /\ (\A u \in Threads : Sending(u)' => u = t) /\ Sending(t)' = d.more
        /\ (\A u \in Threads : u # t => Busy(u)' = Busy(u)) /\ Busy(t)' = d.more
        /\ d.more \in BOOLEAN
    <2>1. d.more \in BOOLEAN
      BY <1>2 DEF Datagrams
    <2> QED
      BY <1>2, <2>1 DEF Threads, Sending, Busy, OneSender
  <1>7. StreamInv'
    <2>1. net # <<>> => Follows(net[Len(net)], d)
      BY <1>2 DEF Flow, StreamInv, d
    <2>2. ASSUME NEW i \in 1 .. Len(net) + 1, i + 1 \in 1 .. Len(net) + 1
          PROVE  Follows(net'[i], net'[i + 1])
      <3>1. CASE i = Len(net)
        <4>1. net # <<>>
          BY <1>4, <2>2, <3>1
        <4> QED
          BY <1>5, <2>1, <2>2, <3>1, <4>1
      <3>2. CASE i # Len(net)
        <4>1. i \in 1 .. Len(net) /\ i + 1 \in 1 .. Len(net)
          <5>1. Len(net) \in Nat /\ i \in Nat /\ i >= 1 /\ i + 1 <= Len(net) + 1
            BY <1>4, <2>2
          <5> QED
            BY <3>2, <5>1
        <4>2. Follows(net[i], net[i + 1])
          BY <1>4, <4>1 DEF Flow, StreamInv
        <4> QED
          BY <1>5, <4>1, <4>2
      <3> QED
        BY <3>1, <3>2
    <2>3. d.more => Follows(d, Coming(t)')
      BY <1>3 DEF Follows
    <2>4. \A a, b : Follows(a, b)' = Follows(a, b)
      BY DEF Follows
    <2>5. net'[Len(net')] = d /\ net' # <<>>
      BY <1>4, <1>5
    <2>6. \A u \in Threads : Sending(u)' => Follows(net'[Len(net')], Coming(u)')
      BY <1>6, <2>3, <2>5
    <2>7. \A i \in DOMAIN net' : i + 1 \in DOMAIN net' => Follows(net'[i], net'[i + 1])
      BY <1>5, <2>2
    <2>8. net'[Len(net')].more => \E u \in Threads : Sending(u)'
      BY <1>6, <2>5
    <2> QED
      BY <1>6, <2>4, <2>6, <2>7, <2>8 DEF StreamInv
  <1>8. QueueInv'
    <2>1. \A c : Opened(c) => Opened(c)'
      BY <1>1, <1>2, OpenedStays
    <2>2. net = <<>> => Opened(d) /\ net'[1] = d
      BY <1>2, <1>4, <1>5 DEF Flow, QueueInv, d
    <2>3. net # <<>> => Opened(net[1]) /\ net'[1] = net[1]
      <3>1. net # <<>> => 1 \in 1 .. Len(net)
        BY <1>4
      <3> QED
        BY <1>5, <3>1 DEF Flow, QueueInv
    <2>4. net' # <<>>
      BY <1>4, <1>5
    <2>5. Opened(net[1])'
      BY <2>1, <2>2, <2>3
    <2> QED
      BY <2>4, <2>5 DEF QueueInv
  <1>9. SoundDispatched'
    <2>1. \A c : Sound(c) => Sound(c)'
      BY <1>1, <1>2, SoundStays DEF Types
    <2> QED
      BY <1>2, <2>1 DEF Flow, SoundDispatched
  <1>10. AccountInv'
    <2>1. AccountInv
      BY DEF Flow
    <2>2. \A k : Done(k)' = Done(k)
      BY <1>2 DEF Done
    <2>3. \A m \in DOMAIN sent :
            \/ \E u \in Threads : Busy(u)' /\ thread'[u].msg = m
            \/ \E i \in DOMAIN net' : ~net'[i].more /\ net'[i].msg = m
            \/ \E k \in DOMAIN dispatched : Done(k) = m
      <3> SUFFICES ASSUME NEW m \in DOMAIN sent
                   PROVE  \/ \E u \in Threads : Busy(u)' /\ thread'[u].msg = m
                          \/ \E i \in DOMAIN net' : ~net'[i].more /\ net'[i].msg = m
                          \/ \E k \in DOMAIN dispatched : Done(k) = m
        OBVIOUS
      <3>1. CASE \E u \in Threads : Busy(u) /\ thread[u].msg = m
        <4>1. PICK u \in Threads : Busy(u) /\ thread[u].msg = m
          BY <3>1
        <4>2. CASE u = t /\ ~d.more
          BY <1>2, <1>4, <1>5, <4>1, <4>2
        <4>3. CASE u # t \/ d.more
          BY <1>2, <1>6, <4>1, <4>3
        <4> QED
          BY <1>6, <4>2, <4>3
      <3>2. CASE \E i \in DOMAIN net : ~net[i].more /\ net[i].msg = m
        <4>1. \A i \in DOMAIN net : i \in DOMAIN net' /\ net'[i] = net[i]
          BY <1>4, <1>5
        <4> QED
          BY <3>2, <4>1
      <3> QED
        BY <2>1, <3>1, <3>2 DEF AccountInv
    <2>4. \A i, j \in DOMAIN net' : i < j /\ net'[i].msg = net'[j].msg => net'[i].more
      <3> SUFFICES ASSUME NEW i \in DOMAIN net', NEW j \in DOMAIN net', i < j, net'[i].msg = net'[j].msg
                   PROVE  net'[i].more
        OBVIOUS
      <3>1. i \in DOMAIN net /\ net'[i] = net[i]
        BY <1>4, <1>5
      <3>2. CASE j = Len(net) + 1
        <4>1. net[i].msg = thread[t].msg
          BY <1>2, <1>5, <3>1, <3>2
        <4>2. net[i].seg < thread[t].next /\ IsSegment(net[i])
          BY <1>1, <1>2, <3>1, <4>1 DEF NetInv
        <4>3. net[i] \in Datagrams
          BY <1>4, <3>1
        <4>4. net[i].seg \in Nat /\ net[i].more \in BOOLEAN
          BY <4>3 DEF Datagrams
        <4>5. thread[t].next \in Nat /\ thread[t].next < Count(thread[t].msg) /\ thread[t].msg \in DOMAIN sent
          BY <1>1, <1>2 DEF SenderInv, Types
        <4>6. Count(thread[t].msg) \in Nat
          BY <1>1, <4>5, CountFacts
        <4>7. net[i].seg + 1 # Count(net[i].msg)
          BY <4>1, <4>2, <4>4, <4>5, <4>6
        <4> QED
          BY <3>1, <4>2, <4>7 DEF IsSegment
      <3>3. CASE j # Len(net) + 1
        <4>1. j \in DOMAIN net /\ net'[j] = net[j]
          BY <1>4, <1>5, <3>3
        <4> QED
          BY <2>1, <3>1, <4>1 DEF AccountInv
      <3> QED
        BY <3>2, <3>3
    <2>5. \A k \in DOMAIN dispatched :
            /\ \A i \in DOMAIN net' : Done(k) # net'[i].msg
            /\ \A u \in Threads : Busy(u)' => Done(k) # thread'[u].msg
      <3> SUFFICES ASSUME NEW k \in DOMAIN dispatched
                   PROVE  /\ \A i \in DOMAIN net' : Done(k) # net'[i].msg
                          /\ \A u \in Threads : Busy(u)' => Done(k) # thread'[u].msg
        OBVIOUS
      <3>1. /\ \A i \in DOMAIN net : Done(k) # net[i].msg
            /\ \A u \in Threads : Busy(u) => Done(k) # thread[u].msg
        BY <2>1 DEF AccountInv
      <3>2. Done(k) # d.msg
        BY <1>2, <3>1
      <3>3. \A i \in DOMAIN net' : net'[i] = d \/ (i \in DOMAIN net /\ net'[i] = net[i])
        BY <1>4, <1>5
      <3> QED
        BY <1>2, <1>6, <3>1, <3>2, <3>3
    <2> QED
      BY <1>2, <1>6, <2>1, <2>2, <2>3, <2>4, <2>5 DEF AccountInv
  <1> QED
    BY <1>7, <1>8, <1>9, <1>10 DEF Flow

(* A message put together of its segments is sound. *)
LEMMA ConcatenateSound ==
  ASSUME Types, NEW e \in Entries, NEW m \in DOMAIN sent, e.expected = Count(m),
         \A k \in 0 .. Count(m) - 1 :
           \/ IsSegment(e.segments[k]) /\ e.segments[k].msg = m /\ e.segments[k].seg = k
           \/ duplicated > 0 /\ e.segments[k] = NoSegment
  PROVE  /\ Concatenate(e) \in Seq(Chunks0) /\ Sound(Concatenate(e)) /\ Len(Concatenate(e)) > 0
         /\ IsSegment(e.segments[0]) => Concatenate(e)[1].msg = m
  <1> DEFINE n == Count(m)
             c == Concatenate(e)
  <1>1. n \in Nat \ {0} /\ n <= MaxSegments /\ MaxSegments \in Nat /\ m \in Nat
    BY CountFacts
  <1>2. c = [i \in 1 .. n |-> Chunk(e.segments[i - 1])]
    BY DEF Concatenate
  <1>3. \A k \in 0 .. n - 1 : \/ Chunk(e.segments[k]) = Piece(m, k)
                              \/ duplicated > 0 /\ Chunk(e.segments[k]) = Hole
    BY DEF IsSegment, Chunk, NoSegment, Hole
  <1>4. \A k \in 0 .. n - 1 : Piece(m, k) \in Chunks0
    BY <1>1, PieceType
  <1>5. Hole \in Chunks0
    BY DEF Hole, Chunks0
  <1>6. \A i \in 1 .. n : i - 1 \in 0 .. n - 1
    BY <1>1
  <1>7. \A i \in 1 .. n : c[i] = Piece(m, i - 1) \/ (duplicated > 0 /\ c[i] = Hole)
    BY <1>2, <1>3, <1>6
  <1> HIDE DEF n
  <1>8. c \in Seq(Chunks0) /\ Len(c) = n
    BY <1>1, <1>2, <1>3, <1>4, <1>5, <1>6
  <1>9. Sound(c)
    BY <1>7, <1>8 DEF Sound, n
  <1>10. IsSegment(e.segments[0]) => c[1].msg = m
    <2>1. e.segments[0] = NoSegment => ~IsSegment(e.segments[0])
      <3>1. 0 \notin DOMAIN sent
        BY DEF Types
      <3>2. NoSegment.msg = 0
        BY DEF NoSegment
      <3> QED
        BY <3>1, <3>2 DEF IsSegment
    <2>2. 0 \in 0 .. n - 1 /\ 1 \in 1 .. n
      BY <1>1
    <2>3. c[1] = Chunk(e.segments[0])
      BY <1>2, <2>2
    <2>4. IsSegment(e.segments[0]) => e.segments[0].msg = m
      BY <2>1, <2>2 DEF n
    <2> QED
      BY <2>3, <2>4 DEF Chunk
  <1> QED
    BY <1>1, <1>8, <1>9, <1>10

(* Dispatching a sound message. *)
LEMMA DispatchSound ==
  ASSUME SoundDispatched, NEW c \in Seq(Chunks0), Sound(c), Types,
         dispatched' = Append(dispatched, c), UNCHANGED <<sent, duplicated>>
  PROVE  SoundDispatched'
  <1>1. \A x : Sound(x) => Sound(x)'
    BY SoundStays DEF Types
  <1>2. /\ dispatched' \in Seq(Seq(Chunks0))
        /\ \A k \in DOMAIN dispatched' : dispatched'[k] = c \/ (k \in DOMAIN dispatched /\ dispatched'[k] = dispatched[k])
    BY DEF SoundDispatched
  <1> QED
    BY <1>1, <1>2 DEF SoundDispatched

(* The only segment of a message is the message. *)
LEMMA WholeSound ==
  ASSUME Types, NEW d \in Datagrams, IsSegment(d), Whole(d)
  PROVE  <<Chunk(d)>> \in Seq(Chunks0) /\ Sound(<<Chunk(d)>>) /\ <<Chunk(d)>>[1].msg = d.msg
  <1>1. d.msg \in DOMAIN sent /\ d.seg = 0 /\ ~d.more /\ Chunk(d) = Piece(d.msg, 0)
    BY DEF IsSegment, Whole
  <1>2. Count(d.msg) = 1
    <2>1. d.seg + 1 = Count(d.msg)
      BY <1>1 DEF IsSegment
    <2> QED
      BY <1>1, <2>1
  <1>3. Chunk(d) \in Chunks0 /\ Chunk(d).msg = d.msg
    BY <1>1, PieceType DEF Chunk
  <1> DEFINE c == Chunk(d)
             m == d.msg
  <1> HIDE DEF c, m
  <1>4. c \in Chunks0 /\ c = Piece(m, 0) /\ m \in DOMAIN sent /\ Count(m) = 1
    BY <1>1, <1>2, <1>3 DEF c, m
  <1>5. <<c>> \in Seq(Chunks0) /\ Len(<<c>>) = 1 /\ <<c>>[1] = c
    BY <1>4
  <1>6. \A i \in 1 .. Len(<<c>>) : <<c>>[i] = Piece(m, i - 1)
    <2>1. \A i \in 1 .. Len(<<c>>) : i = 1 /\ i - 1 = 0
      BY <1>5
    <2> QED
      BY <1>4, <1>5, <2>1
  <1>7. Sound(<<c>>)
    BY <1>4, <1>5, <1>6 DEF Sound
  <1> QED
    BY <1>3, <1>5, <1>7 DEF c

(* The last segment of a message is counted as dispatched.                 *)
LEMMA AccountReceive ==
  ASSUME Base, AccountInv, SoundDispatched, net # <<>>, net' = RemoveAt(net, 1),
         IF net[1].more THEN dispatched' = dispatched
         ELSE \E c \in Seq(Chunks0) : dispatched' = Append(dispatched, c) /\ c[1].msg = net[1].msg,
         UNCHANGED <<scenario, sent, thread>>
  PROVE  AccountInv'
  <1> DEFINE d == net[1]
  <1>1. Types /\ SenderInv /\ NetInv
    BY DEF Base
  <1>2. net \in Seq(Datagrams) /\ Len(net) \in Nat /\ DOMAIN net = 1 .. Len(net) /\ 1 \in DOMAIN net
    BY <1>1 DEF Types
  <1>3. /\ DOMAIN net' = 1 .. Len(net) - 1
        /\ \A k \in 1 .. Len(net) - 1 : net'[k] = net[k + 1]
    BY <1>2, Removed
  <1>4. \A k \in DOMAIN net' : k + 1 \in DOMAIN net /\ net'[k] = net[k + 1] /\ 1 < k + 1
    BY <1>2, <1>3
  <1>5. \A i \in DOMAIN net : i = 1 \/ (i - 1 \in DOMAIN net' /\ net'[i - 1] = net[i])
    BY <1>2, <1>3
  <1>6. Threads' = Threads /\ \A u : Busy(u)' = Busy(u)
    BY DEF Threads, Busy
  <1>7. \A i, j \in DOMAIN net' : i < j /\ net'[i].msg = net'[j].msg => net'[i].more
    <2> SUFFICES ASSUME NEW i \in DOMAIN net', NEW j \in DOMAIN net', i < j, net'[i].msg = net'[j].msg
                 PROVE  net'[i].more
      OBVIOUS
    <2>1. i + 1 < j + 1
      BY <1>2, <1>3
    <2> QED
      BY <1>4, <2>1 DEF AccountInv
  <1>8. CASE d.more
    <2>1. dispatched' = dispatched /\ \A k : Done(k)' = Done(k)
      BY <1>8 DEF Done
    <2>2. \A m \in DOMAIN sent :
            \/ \E u \in Threads : Busy(u) /\ thread[u].msg = m
            \/ \E i \in DOMAIN net' : ~net'[i].more /\ net'[i].msg = m
            \/ \E k \in DOMAIN dispatched : Done(k) = m
      BY <1>5, <1>8 DEF AccountInv
    <2> QED
      BY <1>4, <1>6, <1>7, <2>1, <2>2 DEF AccountInv
  <1>9. CASE ~d.more
    <2>1. PICK c \in Seq(Chunks0) : dispatched' = Append(dispatched, c) /\ c[1].msg = d.msg
      BY <1>9
    <2>2. dispatched \in Seq(Seq(Chunks0)) /\ Len(dispatched) \in Nat /\ DOMAIN dispatched = 1 .. Len(dispatched)
      BY DEF SoundDispatched
    <2>11. PICK n \in Nat : n = Len(dispatched) + 1
      BY <2>2
    <2>3. /\ DOMAIN dispatched' = 1 .. n /\ dispatched'[n] = c
          /\ \A k \in DOMAIN dispatched : k \in DOMAIN dispatched' /\ dispatched'[k] = dispatched[k]
          /\ \A k \in DOMAIN dispatched' : k = n \/ k \in DOMAIN dispatched
          /\ n \notin DOMAIN dispatched /\ n \in DOMAIN dispatched'
      <3>1. /\ dispatched' \in Seq(Seq(Chunks0)) /\ Len(dispatched') = Len(dispatched) + 1
            /\ dispatched'[Len(dispatched) + 1] = c
            /\ \A k \in 1 .. Len(dispatched) : dispatched'[k] = dispatched[k]
        <4> DEFINE S == Seq(Chunks0)
        <4>1. c \in S /\ dispatched \in Seq(S) /\ dispatched' = Append(dispatched, c)
          BY <2>1, <2>2
        <4> HIDE DEF S
        <4>2. /\ Append(dispatched, c) \in Seq(S) /\ Len(Append(dispatched, c)) = Len(dispatched) + 1
              /\ Append(dispatched, c)[Len(dispatched) + 1] = c
              /\ \A k \in 1 .. Len(dispatched) : Append(dispatched, c)[k] = dispatched[k]
          BY <4>1
        <4> QED
          BY <4>1, <4>2 DEF S
      <3>2. DOMAIN dispatched' = 1 .. n
        BY <2>11, <3>1
      <3> QED
        BY <2>2, <2>11, <3>1, <3>2
    <2>4. (\A k \in DOMAIN dispatched : Done(k)' = Done(k)) /\ Done(n)' = d.msg
      BY <2>1, <2>3 DEF Done
    <2>5. \A k \in DOMAIN dispatched : Done(k) # d.msg
      BY <1>2 DEF AccountInv
    <2>6. d.msg \in DOMAIN sent /\ \A u \in Threads : Busy(u) => thread[u].msg # d.msg
      <3>1. IsSegment(d) /\ \A u \in Threads : Busy(u) /\ thread[u].msg = d.msg => d.seg < thread[u].next
        BY <1>1, <1>2 DEF NetInv
      <3>2. d.msg \in DOMAIN sent /\ d.seg + 1 = Count(d.msg)
        BY <1>9, <3>1 DEF IsSegment
      <3>3. d \in Datagrams /\ Count(d.msg) \in Nat
        BY <1>1, <1>2, <3>2, CountFacts
      <3>4. d.seg \in Nat
        BY <3>3 DEF Datagrams
      <3> SUFFICES ASSUME NEW u \in Threads, Busy(u), thread[u].msg = d.msg PROVE FALSE
        BY <3>2
      <3>5. thread[u].next \in Nat /\ thread[u].next < Count(d.msg)
        BY <1>1 DEF SenderInv, Types
      <3> QED
        BY <3>1, <3>2, <3>3, <3>4, <3>5
    <2>7. \A i \in DOMAIN net' : net'[i].msg # d.msg
      BY <1>2, <1>4, <1>9 DEF AccountInv
    <2>8. \A m \in DOMAIN sent :
            \/ \E u \in Threads : Busy(u) /\ thread[u].msg = m
            \/ \E i \in DOMAIN net' : ~net'[i].more /\ net'[i].msg = m
            \/ \E k \in DOMAIN dispatched' : Done(k)' = m
      <3> SUFFICES ASSUME NEW m \in DOMAIN sent
                   PROVE  \/ \E u \in Threads : Busy(u) /\ thread[u].msg = m
                          \/ \E i \in DOMAIN net' : ~net'[i].more /\ net'[i].msg = m
                          \/ \E k \in DOMAIN dispatched' : Done(k)' = m
        OBVIOUS
      <3>1. CASE m = d.msg
        BY <2>3, <2>4, <3>1
      <3>2. CASE \E i \in DOMAIN net : m # d.msg /\ ~net[i].more /\ net[i].msg = m
        BY <1>5, <3>2
      <3>3. CASE \E k \in DOMAIN dispatched : Done(k) = m
        BY <2>3, <2>4, <3>3
      <3> QED
        BY <3>1, <3>2, <3>3 DEF AccountInv
    <2>9. \A k, l \in DOMAIN dispatched' : Done(k)' = Done(l)' => k = l
      BY <2>3, <2>4, <2>5 DEF AccountInv
    <2>10. \A k \in DOMAIN dispatched' :
             /\ Done(k)' \in DOMAIN sent
             /\ \A i \in DOMAIN net' : Done(k)' # net'[i].msg
             /\ \A u \in Threads : Busy(u) => Done(k)' # thread[u].msg
      <3> SUFFICES ASSUME NEW k \in DOMAIN dispatched'
                   PROVE  /\ Done(k)' \in DOMAIN sent
                          /\ \A i \in DOMAIN net' : Done(k)' # net'[i].msg
                          /\ \A u \in Threads : Busy(u) => Done(k)' # thread[u].msg
        OBVIOUS
      <3>1. CASE k = n
        BY <2>4, <2>6, <2>7, <3>1
      <3>2. CASE k \in DOMAIN dispatched
        BY <1>4, <2>4, <3>2 DEF AccountInv
      <3> QED
        BY <2>3, <3>1, <3>2
    <2> QED
      BY <1>6, <1>7, <2>8, <2>9, <2>10 DEF AccountInv
  <1> QED
    BY <1>8, <1>9

(* An entry of this moment is not stale. *)
LEMMA FreshKept ==
  ASSUME Types, NEW e \in Entries, e.rx_hr_time = TimeHr(clock)
  PROVE  Kept(e) = e
  <1> DEFINE x == TimeHr(clock)
             n == SecondWrap * SecondField
  <1>1. x \in Nat
    BY TimeHrNat DEF Types
  <1>2. n \in Nat \ {0}
    BY TimeAssumption
  <1> HIDE DEF x, n
  <1>3. x - x = 0 /\ 0 % n = 0
    BY <1>1, <1>2
  <1>4. Age(x, x) = 0
    BY <1>3 DEF Age, n
  <1> QED
    BY <1>4, BoundsAssumption DEF Kept, Stale, x

(* An entry that lasts is kept until the next segment of its message.      *)
LEMMA LastingKept ==
  ASSUME Types, Lasting, NEW e \in Entries, NEW then \in 1 .. clock,
         e.rx_hr_time = TimeHr(then), clock <= then + MaxDelay
  PROVE  Kept(e) = e
  <1>1. then \in 1 .. MaxClock /\ clock \in then .. MaxClock /\ clock \in Nat /\ then \in Nat
    BY BoundsAssumption DEF Types
  <1>2. Age(TimeHr(clock), TimeHr(then)) <= Delta
    BY <1>1 DEF Lasting
  <1>3. Age(TimeHr(clock), TimeHr(then)) \in Int
    <2>1. TimeHr(clock) \in Nat /\ TimeHr(then) \in Nat
      BY <1>1, TimeHrNat
    <2>2. SecondWrap * SecondField \in Nat \ {0}
      BY TimeAssumption
    <2> DEFINE a == TimeHr(clock) - TimeHr(then)
               n == SecondWrap * SecondField
    <2>3. a \in Int
      BY <2>1
    <2> HIDE DEF a, n
    <2>4. a % n \in 0 .. n - 1 /\ n \in Nat
      BY <2>2, <2>3, DivMod DEF n
    <2> QED
      BY <2>4 DEF Age, a, n
  <1> QED
    BY <1>2, <1>3, BoundsAssumption DEF Kept, Stale

(* What arrives next after datagram d was received. *)
Upcoming(e) ==
  IF net # <<>> THEN e = net[1] ELSE \E t \in Threads : Sending(t) /\ e = Coming(t)

LEMMA ReceiveStream ==
  ASSUME Base, StreamInv, net # <<>>, net' = RemoveAt(net, 1),
         UNCHANGED <<scenario, clock, sent, thread>>
  PROVE  /\ StreamInv'
         /\ \A e : Upcoming(e)' => Follows(net[1], e)
         /\ net[1].more => \E e : Upcoming(e)'
         /\ (\A e : Upcoming(e)' => Opened(e)')
              /\ ((\A e : ~Upcoming(e)') => \A s \in Keys : reassembly_queue'[s] = NoEntry) => QueueInv'
  <1>1. net \in Seq(Datagrams) /\ Len(net) \in Nat /\ DOMAIN net = 1 .. Len(net) /\ 1 \in DOMAIN net
    BY DEF Base, Types
  <1>2. /\ net' \in Seq(Datagrams) /\ Len(net') = Len(net) - 1 /\ DOMAIN net' = 1 .. Len(net) - 1
        /\ \A k \in 1 .. Len(net) - 1 : net'[k] = net[k + 1]
    <2>1. 1 \in 1 .. Len(net)
      BY <1>1
    <2>2. /\ net' \in Seq(Datagrams) /\ Len(net') = Len(net) - 1
          /\ \A k \in 1 .. Len(net) - 1 : net'[k] = IF k < 1 THEN net[k] ELSE net[k + 1]
      BY <1>1, <2>1, Removed
    <2>3. DOMAIN net' = 1 .. Len(net) - 1
      BY <2>2
    <2>4. \A k \in 1 .. Len(net) - 1 : ~(k < 1)
      BY <1>1
    <2> QED
      BY <2>2, <2>3, <2>4
  <1>3. Threads' = Threads /\ \A t \in Threads : Sending(t)' = Sending(t) /\ Coming(t)' = Coming(t)
    BY DEF Threads, Sending, Coming, Segment
  <1>4. \A a, b : Follows(a, b)' = Follows(a, b)
    BY DEF Follows
  <1>5. net' # <<>> => /\ 1 \in 1 .. Len(net) - 1 /\ net'[1] = net[2] /\ 2 \in DOMAIN net
                       /\ net'[Len(net')] = net[Len(net)]
    <2> SUFFICES ASSUME net' # <<>>
                 PROVE  /\ 1 \in 1 .. Len(net) - 1 /\ net'[1] = net[2] /\ 2 \in DOMAIN net
                        /\ net'[Len(net')] = net[Len(net)]
      OBVIOUS
    <2>1. Len(net) - 1 \in Nat /\ Len(net) - 1 # 0
      BY <1>1, <1>2
    <2>2. 1 \in 1 .. Len(net) - 1 /\ Len(net) - 1 \in 1 .. Len(net) - 1 /\ 1 + 1 = 2
          /\ (Len(net) - 1) + 1 = Len(net)
      BY <1>1, <2>1
    <2> QED
      BY <1>1, <1>2, <2>1, <2>2
  <1>6. net' = <<>> => Len(net) = 1
    BY <1>1, <1>2
  <1>7. StreamInv'
    <2>1. ASSUME NEW k \in DOMAIN net', k + 1 \in DOMAIN net' PROVE Follows(net'[k], net'[k + 1])
      <3>1. k + 1 \in DOMAIN net /\ (k + 1) + 1 \in DOMAIN net
        BY <1>1, <1>2, <2>1
      <3>2. net'[k] = net[k + 1] /\ net'[k + 1] = net[(k + 1) + 1]
        BY <1>2, <2>1
      <3> QED
        BY <3>1, <3>2 DEF StreamInv
    <2>2. net' # <<>> =>
            /\ \A t \in Threads : Sending(t) => Follows(net'[Len(net')], Coming(t))
            /\ net'[Len(net')].more => \E t \in Threads : Sending(t)
      BY <1>5 DEF StreamInv
    <2> QED
      BY <1>3, <1>4, <2>1, <2>2 DEF StreamInv
  <1>8. \A e : Upcoming(e)' => Follows(net[1], e)
    <2> SUFFICES ASSUME NEW e, Upcoming(e)' PROVE Follows(net[1], e)
      OBVIOUS
    <2>1. CASE net' # <<>>
      <3>1. e = net[1 + 1] /\ 1 + 1 \in DOMAIN net
        BY <1>5, <2>1 DEF Upcoming
      <3> QED
        BY <1>1, <3>1 DEF StreamInv
    <2>2. CASE net' = <<>>
      BY <1>3, <1>6, <2>2 DEF Upcoming, StreamInv
    <2> QED
      BY <2>1, <2>2
  <1>9. net[1].more => \E e : Upcoming(e)'
    <2>1. CASE net' # <<>>
      BY <2>1 DEF Upcoming
    <2>2. CASE net' = <<>>
      BY <1>3, <1>6, <2>2 DEF Upcoming, StreamInv
    <2> QED
      BY <2>1, <2>2
  <1>10. ASSUME \A e : Upcoming(e)' => Opened(e)',
                (\A e : ~Upcoming(e)') => \A s \in Keys : reassembly_queue'[s] = NoEntry
         PROVE  QueueInv'
    <2>1. net' # <<>> => Opened(net[1])'
      BY <1>10 DEF Upcoming
    <2>2. net' = <<>> => \A t \in Threads : Sending(t)' => Opened(Coming(t))'
      BY <1>3, <1>10 DEF Upcoming
    <2>3. net' = <<>> /\ (\A t \in Threads : ~Sending(t)') => \A s \in Keys : reassembly_queue'[s] = NoEntry
      BY <1>3, <1>10 DEF Upcoming
    <2> QED
      BY <1>3, <2>1, <2>2, <2>3 DEF QueueInv
  <1> QED
    BY <1>7, <1>8, <1>9, <1>10

(* A reception in order: a segment goes on with its message, the last one  *)
(* completes it.                                                           *)
LEMMA FlowReceive ==
  ASSUME Base, Orderly(scenario), OneSender, Flow, Quiet, Receive
  PROVE  Flow'
  <1>1. Types /\ SenderInv /\ NetInv
    BY DEF Base
  <1>2. PICK i \in 1 .. Len(net) :
           /\ net[i] \in Datagrams /\ IsSegment(net[i]) /\ net' = RemoveAt(net, i)
           /\ i = 1
           /\ reassembly_queue' \in [Keys -> Entries]
           /\ \A s \in Keys : reassembly_queue'[s] = After(net[i], s)
           /\ Whole(net[i]) => dispatched' = Append(dispatched, <<Chunk(net[i])>>)
           /\ ~Whole(net[i]) =>
                dispatched' = IF Joined(net[i]).received = Joined(net[i]).expected
                              THEN Append(dispatched, Concatenate(Joined(net[i]))) ELSE dispatched
           /\ UNCHANGED <<scenario, clock, sent, sequence_number, thread, pack_mutex, lost, duplicated>>
    BY <1>1, ReceiveEffect DEF Quiet
  <1>3. PICK d \in Datagrams : d = net[1]
    BY <1>2
  <1> DEFINE m == d.msg
             e == reassembly_queue[d.seq]
             j == Joined(d)
  <1>4. net # <<>> /\ 1 \in DOMAIN net
    BY <1>1, <1>2 DEF Types
  <1>5. /\ IsSegment(d) /\ d.seq \in Keys /\ d.seg \in Slots /\ d.seg \in Nat /\ m \in DOMAIN sent
        /\ d.more \in BOOLEAN /\ d.more = (d.seg + 1 # Count(m)) /\ d.at \in Nat
        /\ d.at <= clock /\ clock <= d.at + MaxDelay
    <2>1. d.seg \in Slots
      BY <1>1, <1>2, <1>3, JoinedFacts
    <2> QED
      BY <1>1, <1>2, <1>3, <1>4, <2>1 DEF NetInv, IsSegment, Datagrams
  <1>6. Count(m) \in 1 .. MaxSegments /\ MaxSegments \in Nat /\ MaxSegments < 255 /\ clock \in Nat \ {0}
        /\ MaxDelay \in Nat
    BY <1>1, <1>5, CountFacts, SegmentsAssumption, BoundsAssumption DEF Types
  <1>18. d.seg + 1 \in 0 .. 255
    <2>1. d.seg \in Slots
      BY <1>5
    <2>2. MaxSegments \in Nat /\ MaxSegments < 255
      BY <1>6
    <2> DEFINE g == d.seg
    <2> HIDE DEF g
    <2>3. g \in 0 .. MaxSegments - 1
      BY <2>1 DEF g, Slots
    <2>4. g + 1 \in 0 .. 255
      BY <2>2, <2>3
    <2> QED
      BY <2>4 DEF g
  <1>7. /\ StreamInv'
        /\ \A x : Upcoming(x)' => Follows(d, x)
        /\ d.more => \E x : Upcoming(x)'
        /\ (\A x : Upcoming(x)' => Opened(x)')
             /\ ((\A x : ~Upcoming(x)') => \A s \in Keys : reassembly_queue'[s] = NoEntry) => QueueInv'
    BY <1>2, <1>3, <1>4, ReceiveStream DEF Flow
  <1>8. Opened(d)
    BY <1>3, <1>4 DEF Flow, QueueInv
  <1>9. /\ \A s \in Keys : reassembly_queue'[s] = After(d, s)
        /\ Whole(d) => dispatched' = Append(dispatched, <<Chunk(d)>>)
        /\ ~Whole(d) => dispatched' = IF j.received = j.expected
                                      THEN Append(dispatched, Concatenate(j)) ELSE dispatched
    BY <1>2, <1>3
  <1>10. /\ j \in Entries /\ j # NoEntry
         /\ \A k \in Slots : j.segments[k] = IF k = d.seg THEN d ELSE e.segments[k]
         /\ e = NoEntry => j.received = 1 /\ j.expected = Expected(d, 255) /\ j.rx_hr_time = TimeHr(clock)
         /\ e # NoEntry => /\ j.received = (e.received + 1) % 256 /\ j.expected = Expected(d, e.expected)
                           /\ j.rx_hr_time = e.rx_hr_time
    BY <1>1, <1>5, JoinedFacts
  <1> HIDE DEF j
  <1>11. \A s \in Keys : s # d.seq \/ d.seg = 0 => reassembly_queue[s] = NoEntry
    BY <1>5, <1>8 DEF Opened
  <1>12. \A s \in Keys : s # d.seq => reassembly_queue'[s] = NoEntry
    BY <1>9, <1>11 DEF After, Kept, Stale
  <1>13. /\ Threads' = Threads /\ Keys' = Keys /\ clock' = clock /\ sent' = sent
         /\ \A c : IsSegment(c)' = IsSegment(c)
    BY <1>2 DEF Threads, IsSegment, Piece, Count
  (* What is stored with the entry besides d. *)
  <1>14. \A k \in Slots :
           IF k < d.seg + 1 THEN /\ j.segments[k] # NoSegment /\ IsSegment(j.segments[k])
                                 /\ j.segments[k].msg = m /\ j.segments[k].seg = k
                            ELSE j.segments[k] = NoSegment
    <2> SUFFICES ASSUME NEW k \in Slots
                 PROVE  IF k < d.seg + 1 THEN /\ j.segments[k] # NoSegment /\ IsSegment(j.segments[k])
                                              /\ j.segments[k].msg = m /\ j.segments[k].seg = k
                                         ELSE j.segments[k] = NoSegment
      OBVIOUS
    <2>1. k \in Nat
      BY <1>6 DEF Slots
    <2>2. CASE k = d.seg
      <3>1. j.segments[k] = d /\ d # NoSegment
        BY <1>10, <2>2, EntryTypes
      <3> QED
        BY <1>5, <2>1, <2>2, <3>1
    <2>3. CASE k # d.seg
      <3>1. j.segments[k] = e.segments[k] /\ (k < d.seg + 1 <=> k < d.seg)
        BY <1>5, <1>10, <2>1, <2>3
      <3>2. CASE d.seg = 0
        <4>1. e = NoEntry
          BY <1>5, <1>11, <3>2
        <4> QED
          BY <1>5, <2>1, <3>1, <3>2, <4>1, EntryTypes
      <3>3. CASE d.seg > 0
        <4>1. Before(e, d)
          BY <1>5, <1>8, <3>3 DEF Opened
        <4> QED
          BY <3>1, <4>1 DEF Before
      <3> QED
        BY <1>5, <3>2, <3>3
    <2> QED
      BY <2>2, <2>3
  (* When the entry was opened, and that it is still there. *)
  <1>15. /\ j.received = d.seg + 1 /\ j.expected = IF d.more THEN 255 ELSE Count(m)
         /\ \E then \in 1 .. clock : j.rx_hr_time = TimeHr(then) /\ d.at <= then
         /\ d.more => Kept(j) = j
    <2>1. CASE d.seg = 0
      <3>1. e = NoEntry
        BY <1>5, <1>11, <2>1
      <3>2. j.received = 1 /\ j.expected = Expected(d, 255) /\ j.rx_hr_time = TimeHr(clock)
        BY <1>10, <3>1
      <3>3. Kept(j) = j
        BY <1>1, <1>10, <3>2, FreshKept
      <3>5. ~d.more => d.seg + 1 = Count(m)
        BY <1>5
      <3>6. d.seg + 1 = 1 /\ clock \in 1 .. clock
        BY <1>6, <2>1
      <3>4. d.seg + 1 = 1 /\ (~d.more => d.seg + 1 = Count(m)) /\ clock \in 1 .. clock
        BY <3>5, <3>6
      <3> QED
        BY <1>5, <3>2, <3>3, <3>4 DEF Expected
    <2>2. CASE d.seg > 0
      <3>1. Before(e, d)
        BY <1>5, <1>8, <2>2 DEF Opened
      <3>2. e # NoEntry
        <4>1. 0 \in Slots /\ 0 < d.seg
          BY <1>5, <1>6, <2>2 DEF Slots
        <4>2. e.segments[0] # NoSegment
          BY <3>1, <4>1 DEF Before
        <4> QED
          BY <4>1, <4>2, EntryTypes
      <3>3. e.received = d.seg /\ e.expected = 255
        BY <3>1 DEF Before
      <3>4. PICK then \in 1 .. clock : e.rx_hr_time = TimeHr(then) /\ d.at <= then
        BY <3>1 DEF Before
      <3>5. (d.seg + 1) % 256 = d.seg + 1
        BY <1>18, SmallMod
      <3>6. j.received = d.seg + 1 /\ j.expected = Expected(d, 255) /\ j.rx_hr_time = TimeHr(then)
        BY <1>10, <3>2, <3>3, <3>4, <3>5
      <3>7. d.more => Kept(j) = j
        <4> SUFFICES ASSUME d.more PROVE Kept(j) = j
          OBVIOUS
        <4>1. Count(m) > 2
          <5>1. d.seg + 1 # Count(m) /\ d.seg < Count(m)
            BY <1>5 DEF IsSegment
          <5> QED
            BY <1>5, <1>6, <2>2, <5>1
        <4>2. sent[m] \in scenario.lengths
          BY <1>1, <1>5 DEF Types
        <4>3. Lasting
          BY <1>6, <4>1, <4>2 DEF Orderly, Count
        <4>4. clock <= then + MaxDelay
          BY <1>5, <1>6, <3>4
        <4> QED
          BY <1>1, <1>10, <3>6, <4>3, <4>4, LastingKept
      <3>8. ~d.more => d.seg + 1 = Count(m)
        BY <1>5
      <3> QED
        BY <1>5, <3>4, <3>6, <3>7, <3>8 DEF Expected
    <2> QED
      BY <1>5, <2>1, <2>2
  <1>16. CASE d.more
    <2>1. ~Whole(d) /\ j.received # j.expected
      <3>1. d.seg < Count(m)
        BY <1>5 DEF IsSegment
      <3> QED
        BY <1>5, <1>6, <1>15, <1>16, <3>1 DEF Whole
    <2>2. dispatched' = dispatched /\ reassembly_queue'[d.seq] = j
      BY <1>5, <1>9, <1>15, <1>16, <2>1 DEF After, j
    <2>3. ASSUME NEW x, Upcoming(x)' PROVE Opened(x)'
      <3>1. x.msg = m /\ x.seq = d.seq /\ x.seg = d.seg + 1 /\ x.at = d.at
        BY <1>7, <1>16, <2>3 DEF Follows
      <3>2. \E y : y = j /\ Before(y, x)'
        <4>1. j.received = x.seg /\ j.expected = 255
          BY <1>15, <1>16, <3>1
        <4>2. \E then \in 1 .. clock : j.rx_hr_time = TimeHr(then) /\ x.at <= then
          BY <1>15, <3>1
        <4>3. \A k \in Slots :
                IF k < x.seg THEN /\ j.segments[k] # NoSegment /\ IsSegment(j.segments[k])
                                  /\ j.segments[k].msg = x.msg /\ j.segments[k].seg = k
                             ELSE j.segments[k] = NoSegment
          BY <1>14, <3>1
        <4>4. \E y : y = j
          OBVIOUS
        <4>5. PICK y : y = j
          BY <4>4
        <4>6. Before(y, x)'
          BY <1>13, <4>1, <4>2, <4>3, <4>5 DEF Before
        <4> QED
          BY <4>5, <4>6
      <3>3. Before(reassembly_queue[d.seq], x)'
        BY <2>2, <3>2
      <3>4. \A s \in Keys : s # x.seq => reassembly_queue'[s] = NoEntry
        BY <1>12, <3>1
      <3>5. d.seg + 1 > 0
        BY <1>5
      <3> QED
        BY <3>1, <3>3, <3>4, <3>5 DEF Opened
    <2>4. QueueInv'
      BY <1>7, <1>16, <2>3
    <2>5. SoundDispatched'
      <3>1. \A c : Sound(c) => Sound(c)'
        BY <1>1, <1>2, SoundStays DEF Types
      <3> QED
        BY <2>2, <3>1 DEF Flow, SoundDispatched
    <2>6. AccountInv'
      BY <1>2, <1>3, <1>4, <1>16, <2>2, AccountReceive DEF Flow
    <2> QED
      BY <1>7, <2>4, <2>5, <2>6 DEF Flow
  <1>17. CASE ~d.more
    <2>1. d.seg + 1 = Count(m)
      BY <1>5, <1>17
    <2>2. \A s \in Keys : reassembly_queue'[s] = NoEntry
      <3>1. reassembly_queue'[d.seq] = NoEntry
        <4>1. CASE Whole(d)
          <5>1. e = NoEntry
            BY <1>5, <1>11, <4>1 DEF Whole
          <5> QED
            BY <1>5, <1>9, <4>1, <5>1 DEF After, Kept, Stale
        <4>2. CASE ~Whole(d)
          BY <1>5, <1>9, <1>15, <1>17, <2>1, <4>2 DEF After, j
        <4> QED
          BY <4>1, <4>2
      <3> QED
        BY <1>12, <3>1
    <2>3. ASSUME NEW x, Upcoming(x)' PROVE Opened(x)'
      <3>1. x.seg = 0
        BY <1>7, <1>17, <2>3 DEF Follows
      <3> QED
        BY <2>2, <3>1 DEF Opened
    <2>4. QueueInv'
      BY <1>7, <2>2, <2>3
    <2>5. PICK c \in Seq(Chunks0) : dispatched' = Append(dispatched, c) /\ Sound(c) /\ c[1].msg = m
      <3>1. CASE Whole(d)
        BY <1>1, <1>5, <1>9, <3>1, WholeSound
      <3>2. CASE ~Whole(d)
        <4>1. dispatched' = Append(dispatched, Concatenate(j))
          BY <1>9, <1>15, <1>17, <2>1, <3>2
        <4>2. \A k \in 0 .. Count(m) - 1 :
                IsSegment(j.segments[k]) /\ j.segments[k].msg = m /\ j.segments[k].seg = k
          <5>1. \A k \in 0 .. Count(m) - 1 : k \in Slots /\ k < d.seg + 1
            BY <1>5, <1>6, <2>1 DEF Slots
          <5> QED
            BY <1>14, <5>1
        <4>3. j.expected = Count(m) /\ 0 \in 0 .. Count(m) - 1
          BY <1>6, <1>15, <1>17
        <4>4. Concatenate(j) \in Seq(Chunks0) /\ Sound(Concatenate(j)) /\ Concatenate(j)[1].msg = m
          BY <1>1, <1>5, <1>10, <4>2, <4>3, ConcatenateSound
        <4> QED
          BY <4>1, <4>4
      <3> QED
        BY <3>1, <3>2
    <2>6. SoundDispatched'
      BY <1>1, <1>2, <2>5, DispatchSound DEF Flow
    <2>7. AccountInv'
      BY <1>2, <1>3, <1>4, <1>17, <2>5, AccountReceive DEF Flow
    <2> QED
      BY <1>7, <2>4, <2>6, <2>7 DEF Flow
  <1> QED
    BY <1>5, <1>16, <1>17

LEMMA QuietNext == Base /\ Orderly(scenario) /\ QuietInv /\ [Next]_vars => QuietInv'
  <1> SUFFICES ASSUME Base, Orderly(scenario), QuietInv, [Next]_vars, Quiet'
               PROVE  Flow'
    BY OneSenderNext DEF QuietInv
  <1>1. lost \in Nat /\ duplicated \in Nat /\ OneSender /\ Types
    BY DEF Base, Types, QuietInv
  <1>2. Quiet /\ ~Lose /\ ~Duplicate
    <2>1. CASE Lose
      BY <1>1, <2>1, LoseEffect DEF Quiet
    <2>2. CASE Duplicate
      BY <1>1, <2>2, DuplicateEffect DEF Quiet
    <2>3. CASE ~Lose /\ ~Duplicate
      <3>1. UNCHANGED <<scenario, lost, duplicated>>
        BY <2>3 DEF Next, vars, StartSend, LockPackMutex, SendSegment, Receive, Tick
      <3> QED
        BY <2>3, <3>1 DEF Quiet
    <2> QED
      BY <2>1, <2>2, <2>3
  <1>3. Flow
    BY <1>2 DEF QuietInv
  <1>4. CASE UNCHANGED vars
    <2>1. /\ UNCHANGED <<scenario, clock, sent, thread, net, duplicated, reassembly_queue, dispatched>>
          /\ Threads' = Threads
      BY <1>4 DEF vars, Threads
    <2>2. \A t : Sending(t)' = Sending(t) /\ Busy(t)' = Busy(t) /\ Coming(t)' = Coming(t) /\ Done(t)' = Done(t)
      BY <2>1 DEF Sending, Busy, Coming, Segment, Done
    <2>3. (\A d : Opened(d) => Opened(d)') /\ \A c : Sound(c) => Sound(c)'
      BY <1>1, <2>1, OpenedStays, SoundStays
    <2>4. \A a, b : Follows(a, b)' = Follows(a, b)
      BY DEF Follows
    <2>5. StreamInv'
      BY <1>3, <2>1, <2>2, <2>4 DEF Flow, StreamInv
    <2>6. QueueInv'
      BY <1>3, <2>1, <2>2, <2>3 DEF Flow, QueueInv
    <2>7. SoundDispatched'
      BY <1>3, <2>1, <2>3 DEF Flow, SoundDispatched
    <2>8. AccountInv'
      BY <1>3, <2>1, <2>2 DEF Flow, AccountInv
    <2> QED
      BY <2>5, <2>6, <2>7, <2>8 DEF Flow
  <1>5. CASE Next
    BY <1>1, <1>2, <1>3, <1>5, FlowStart, FlowLock, FlowSend, FlowReceive, FlowTick DEF Next
  <1> QED
    BY <1>4, <1>5

(* All that was sent was dispatched, once. *)
LEMMA QuietDone == Base /\ (Orderly(scenario) => QuietInv) /\ (scenario.reorder \/ Orderly(scenario)) => EachOnce
  <1> SUFFICES ASSUME Base, Orderly(scenario), QuietInv, net = <<>>,
                      \A t \in Threads : thread[t].pc = "idle", lost + duplicated = 0, ~scenario.reorder
               PROVE  /\ Len(dispatched) = Len(sent)
                      /\ \A m \in DOMAIN sent : \E k \in DOMAIN dispatched : Head(dispatched[k]).msg = m
                      /\ \A s \in DOMAIN reassembly_queue : reassembly_queue[s] = NoEntry
    BY DEF EachOnce
  <1>1. Quiet
    BY DEF Quiet, Base, Types
  <1>2. Flow
    BY <1>1 DEF QuietInv
  <1>3. \A t \in Threads : ~Busy(t) /\ ~Sending(t)
    BY DEF Busy, Sending
  <1>4. \A s \in DOMAIN reassembly_queue : reassembly_queue[s] = NoEntry
    BY <1>2, <1>3 DEF Flow, QueueInv, Base, Types
  <1>5. \A m \in DOMAIN sent : \E k \in DOMAIN dispatched : Done(k) = m
    BY <1>2, <1>3 DEF Flow, AccountInv
  <1>6. /\ \A k, l \in DOMAIN dispatched : Done(k) = Done(l) => k = l
        /\ \A k \in DOMAIN dispatched : Done(k) \in DOMAIN sent
    BY <1>2 DEF Flow, AccountInv
  <1>7. \A k \in DOMAIN dispatched : Head(dispatched[k]) = dispatched[k][1]
    BY <1>2 DEF Flow, SoundDispatched
  <1>8. \A m \in DOMAIN sent : \E k \in DOMAIN dispatched : Head(dispatched[k]).msg = m
    BY <1>5, <1>7 DEF Done
  <1>9. Len(dispatched) = Len(sent)
    <2> DEFINE A == 1 .. Len(dispatched)
               B == 1 .. Len(sent)
               f == [k \in A |-> Done(k)]
    <2>1. /\ Len(dispatched) \in Nat /\ Len(sent) \in Nat /\ DOMAIN dispatched = A /\ DOMAIN sent = B
      BY <1>2 DEF Flow, SoundDispatched, Base, Types
    <2>2. f \in Bijection(A, B)
      <3>1. f \in [A -> B] /\ (\A k, l \in A : f[k] = f[l] => k = l) /\ \A m \in B : \E k \in A : f[k] = m
        BY <1>5, <1>6, <2>1
      <3> HIDE DEF f, A, B
      <3> QED
        BY <3>1 DEF Bijection, Injection, IsInjective, Surjection
    <2>3. ExistsBijection(A, B)
      BY <2>2 DEF ExistsBijection
    <2>4. IsFiniteSet(A) /\ Cardinality(A) = Len(dispatched) /\ Cardinality(B) = Len(sent)
      <3>1. ASSUME NEW n \in Nat PROVE IsFiniteSet(1 .. n) /\ Cardinality(1 .. n) = n
        <4>1. IsFiniteSet(1 .. n) /\ Cardinality(1 .. n) = IF 1 > n THEN 0 ELSE n - 1 + 1
          BY FS_Interval
        <4> QED
          BY <4>1
      <3> QED
        BY <2>1, <3>1
    <2> QED
      BY <2>3, <2>4, FS_Bijection
  <1> QED
    BY <1>4, <1>8, <1>9

(* When everything sent has been received over a network that keeps the    *)
(* order and neither loses nor duplicates, every message was dispatched    *)
(* exactly once and no incomplete message is left: for any number of       *)
(* threads that send under pack_mutex, or one that sends without, any      *)
(* lengths and any number of sequence numbers.                             *)
THEOREM EachMessageOnce ==
  ASSUME \A s \in Scenarios : s.reorder \/ Orderly(s)
  PROVE  Spec => []EachOnce
  <1> DEFINE I == Base /\ (Orderly(scenario) => QuietInv)
  <1>1. Init => I
    BY BaseInit, QuietInit
  <1>2. I /\ [Next]_vars => I'
    <2> SUFFICES ASSUME I, [Next]_vars PROVE I'
      OBVIOUS
    <2>1. scenario' = scenario
      BY DEF Next, vars, StartSend, LockPackMutex, SendSegment, Receive, Lose, Duplicate, Tick
    <2>2. Orderly(scenario)' = Orderly(scenario)
      BY <2>1 DEF Orderly
    <2> QED
      BY <2>2, BaseNext, QuietNext
  <1>3. I => EachOnce
    BY QuietDone DEF Base, Types
  <1> QED
    BY <1>1, <1>2, <1>3, PTL DEF Spec

-----------------------------------------------------------------------------
(* A network that reorders, loses and duplicates.                          *)

(* What the receiver may still use. *)
LEMMA LiveFacts ==
  ASSUME Types
  PROVE  /\ \A i \in DOMAIN net : net[i] \in Live
         /\ \A s \in Keys : \A k \in Stored(s) : StoredSegment(s, k) \in Live
         /\ \A d \in Live : d \in Datagrams /\ ( \/ \E i \in DOMAIN net : d = net[i]
                                                 \/ \E s \in Keys : \E k \in Stored(s) : d = StoredSegment(s, k))
  <1>1. \A i \in DOMAIN net : net[i] \in Datagrams
    BY DEF Types
  <1>2. \A s \in Keys : \A k \in Stored(s) : StoredSegment(s, k) \in Datagrams
    <2> SUFFICES ASSUME NEW s \in Keys, NEW k \in Stored(s) PROVE StoredSegment(s, k) \in Datagrams
      OBVIOUS
    <2>1. reassembly_queue[s] \in Entries
      BY DEF Types
    <2>2. reassembly_queue[s].segments \in [Slots -> Datagrams \cup {NoSegment}]
      BY <2>1 DEF Entries
    <2> QED
      BY <2>2 DEF Stored, StoredSegment
  <1> QED
    BY <1>1, <1>2 DEF Live

(* The numbers of a datagram. *)
LEMMA DatagramFacts ==
  ASSUME NEW d \in Datagrams
  PROVE  d.msg \in Nat \ {0} /\ d.seq \in Keys /\ d.seg \in Nat /\ d.more \in BOOLEAN /\ d.at \in Nat
  BY DEF Datagrams

(* The only thread. *)
LEMMA OnlyThread ==
  ASSUME Types, Roomy(scenario)
  PROVE  \E t \in Threads : \A u \in Threads : u = t
  BY ScenarioFacts DEF Types, Roomy, Threads

(* The numbers of a thread. *)
LEMMA ThreadFacts ==
  ASSUME Types, NEW t \in Threads
  PROVE  thread[t].msg \in Nat /\ thread[t].seq \in Nat /\ thread[t].next \in Nat /\ thread[t].last \in Nat
  BY DEF Types

LEMMA TimelyInit == Init => TimelyInv
  <1> SUFFICES ASSUME Init PROVE TimelyInv
    OBVIOUS
  <1>1. Types
    BY BaseInit DEF Base
  <1>2. Live = {}
    <2>1. net = <<>> /\ \A s \in Keys : reassembly_queue[s] = NoEntry
      BY DEF Init, Keys
    <2>2. \A s \in Keys : Stored(s) = {}
      BY <2>1, EntryTypes DEF Stored
    <2> QED
      BY <2>1, <2>2 DEF Live
  <1>3. NewestInv
    BY DEF Init, NewestInv, Busy
  <1> QED
    BY <1>2, <1>3 DEF TimelyInv, DatedInv, LiveInv

(* The sender does nothing and the receiver gets nothing new. *)
LEMMA TimelyKept ==
  ASSUME TimelyInv, Live' \subseteq Live, UNCHANGED <<scenario, sent, sequence_number, thread>>
  PROVE  TimelyInv'
  <1>1. /\ Threads' = Threads /\ (\A t : Busy(t)' = Busy(t)) /\ \A d : IsSegment(d)' = IsSegment(d)
    BY DEF Threads, Busy, IsSegment, Piece, Count
  <1>2. NewestInv'
    BY <1>1 DEF TimelyInv, NewestInv
  <1>3. DatedInv'
    BY <1>1 DEF TimelyInv, DatedInv
  <1>4. LiveInv'
    BY <1>1 DEF TimelyInv, LiveInv
  <1> QED
    BY <1>2, <1>3, <1>4 DEF TimelyInv

LEMMA TimelyStart ==
  ASSUME Base, Roomy(scenario), TimelyInv, NEW t \in Threads, StartSend(t)
  PROVE  TimelyInv'
  <1>1. Types /\ SenderInv
    BY DEF Base
  <1>2. /\ ~Busy(t) /\ thread[t].last < clock /\ Len(sent') = Len(sent) + 1 /\ Len(sent) \in Nat
        /\ DOMAIN sent = 1 .. Len(sent)
        /\ \A m \in DOMAIN sent : m \in DOMAIN sent' /\ sent'[m] = sent[m]
        /\ thread'[t].pc = "lock" /\ thread'[t].msg = Len(sent) + 1
        /\ thread'[t].seq = sequence_number /\ thread'[t].next = 0 /\ thread'[t].last = clock
        /\ UNCHANGED <<scenario, clock, sequence_number, net, reassembly_queue>>
    BY <1>1, StartEffect
  <1>3. \A u \in Threads : u = t
    BY <1>1, OnlyThread
  <1>4. Threads' = Threads /\ Live' = Live /\ Busy(t)'
    BY <1>2 DEF Threads, Live, Stored, StoredSegment, Busy
  <1>5. \A d : IsSegment(d) => IsSegment(d)'
    BY <1>2, SegmentStays
  <1>6. NewestInv'
    <2>1. sequence_number = Len(sent)
      BY <1>2 DEF TimelyInv, NewestInv
    <2>2. Len(sent') - 1 = Len(sent) /\ thread'[t].msg = Len(sent') /\ sequence_number' = Len(sent)
          /\ thread'[t].seq = Len(sent)
      BY <1>2, <2>1
    <2>3. \A u \in Threads' : u = t
      BY <1>3, <1>4
    <2> QED
      BY <1>4, <2>2, <2>3 DEF NewestInv
  <1>7. DatedInv'
    <2>4. PICK n \in Nat : n = Len(sent) + 1 /\ n = Len(sent')
      BY <1>2
    <2>1. ASSUME NEW d \in Live PROVE n - d.msg <= clock - d.at
      <3>1. d.msg \in Nat /\ d.at \in Nat /\ thread[t].last \in Nat /\ clock \in Nat
        BY <1>1, LiveFacts, DatagramFacts, ThreadFacts DEF Types
      <3>2. Len(sent) - d.msg <= thread[t].last - d.at
        BY DEF TimelyInv, DatedInv
      <3> QED
        BY <1>2, <2>4, <3>1, <3>2
    <2>2. \A u \in Threads' : thread'[u].last = clock
      BY <1>2, <1>3, <1>4
    <2>3. \A d \in Live' : n - d.msg <= clock - d.at
      BY <1>4, <2>1
    <2> QED
      BY <1>4, <2>2, <2>3, <2>4 DEF TimelyInv, DatedInv
  <1>8. LiveInv'
    <2>1. \A d \in Live : d.msg # Len(sent) + 1
      BY <1>2 DEF TimelyInv, LiveInv, IsSegment
    <2> QED
      BY <1>2, <1>3, <1>4, <1>5, <2>1 DEF TimelyInv, LiveInv
  <1> QED
    BY <1>6, <1>7, <1>8 DEF TimelyInv

LEMMA TimelyLock ==
  ASSUME Base, TimelyInv, NEW t \in Threads, LockPackMutex(t)
  PROVE  TimelyInv'
  <1>1. Types
    BY DEF Base
  <1>2. /\ thread[t].pc = "lock"
        /\ \A u \in Threads : u # t => thread'[u] = thread[u]
        /\ thread'[t].pc = "send" /\ thread'[t].msg = thread[t].msg
        /\ thread'[t].seq = thread[t].seq /\ thread'[t].next = thread[t].next
        /\ thread'[t].last = thread[t].last
        /\ UNCHANGED <<scenario, clock, sent, sequence_number, net, reassembly_queue>>
    BY <1>1, LockEffect
  <1>3. /\ Threads' = Threads /\ Live' = Live /\ (\A d : IsSegment(d)' = IsSegment(d))
        /\ \A u \in Threads : /\ Busy(u)' = Busy(u) /\ thread'[u].msg = thread[u].msg
                              /\ thread'[u].seq = thread[u].seq /\ thread'[u].next = thread[u].next
                              /\ thread'[u].last = thread[u].last
    BY <1>2 DEF Threads, Live, Stored, StoredSegment, Busy, IsSegment, Piece, Count
  <1>4. NewestInv'
    BY <1>2, <1>3 DEF TimelyInv, NewestInv
  <1>5. DatedInv'
    BY <1>2, <1>3 DEF TimelyInv, DatedInv
  <1>6. LiveInv'
    BY <1>2, <1>3 DEF TimelyInv, LiveInv
  <1> QED
    BY <1>4, <1>5, <1>6 DEF TimelyInv

LEMMA TimelySend ==
  ASSUME Base, Roomy(scenario), TimelyInv, NEW t \in Threads, SendSegment(t)
  PROVE  TimelyInv' /\ Live' \subseteq Live \cup {Coming(t)}
  <1>1. Types /\ SenderInv
    BY DEF Base
  <1>2. PICK d \in Datagrams : d = Coming(t)
    BY <1>1, SendEffect
  <1>3. /\ Busy(t) /\ net' = Append(net, d) /\ IsSegment(d) /\ d.msg = thread[t].msg
        /\ d.seq = thread[t].seq % SeqNumbers /\ d.seg = thread[t].next /\ d.at = clock
        /\ thread'[t].pc = (IF d.more THEN "send" ELSE "idle")
        /\ thread'[t].msg = thread[t].msg /\ thread'[t].seq = thread[t].seq
        /\ thread'[t].next = thread[t].next + 1 /\ thread'[t].last = thread[t].last
        /\ sequence_number' = (IF d.more THEN sequence_number ELSE sequence_number + 1)
        /\ UNCHANGED <<scenario, clock, sent, reassembly_queue>>
    BY <1>1, <1>2, SendEffect DEF Sending, Busy
  <1>4. \A u \in Threads : u = t
    BY <1>1, OnlyThread
  <1>5. /\ Threads' = Threads /\ (Busy(t)' => d.more) /\ (d.more => Busy(t)')
        /\ \A c : IsSegment(c)' = IsSegment(c)
    BY <1>3 DEF Threads, Busy, IsSegment, Piece, Count
  <1>6. \A c \in Live' : c \in Live \/ c = d
    <2>1. \A i \in DOMAIN net' : net'[i] = d \/ (i \in DOMAIN net /\ net'[i] = net[i])
      BY <1>1, <1>3 DEF Types
    <2>2. \A s \in Keys : Stored(s)' = Stored(s) /\ \A k : StoredSegment(s, k)' = StoredSegment(s, k)
      BY <1>3 DEF Stored, StoredSegment
    <2> QED
      BY <2>1, <2>2 DEF Live
  <1>7. /\ thread[t].msg = Len(sent) /\ thread[t].seq = Len(sent) - 1 /\ sequence_number = Len(sent) - 1
        /\ thread[t].last = clock /\ Len(sent) \in Nat /\ clock \in Nat /\ DOMAIN sent = 1 .. Len(sent)
    BY <1>1, <1>3 DEF TimelyInv, NewestInv, SenderInv, Types
  <1>8. NewestInv'
    <2>1. Len(sent) - 1 + 1 = Len(sent)
      BY <1>7
    <2> QED
      BY <1>3, <1>4, <1>5, <1>7, <2>1 DEF NewestInv
  <1>9. \A c \in Live : /\ c.msg \in Nat /\ c.at \in Nat /\ c.msg <= Len(sent)
                        /\ Len(sent) - c.msg <= clock - c.at
                        /\ c.msg = Len(sent) => c.at = clock
    <2> SUFFICES ASSUME NEW c \in Live
                 PROVE  /\ c.msg \in Nat /\ c.at \in Nat /\ c.msg <= Len(sent)
                        /\ Len(sent) - c.msg <= clock - c.at
                        /\ c.msg = Len(sent) => c.at = clock
      OBVIOUS
    <2>1. c.msg \in Nat /\ c.at \in Nat
      BY <1>1, LiveFacts, DatagramFacts
    <2>2. c.msg \in 1 .. Len(sent)
      BY <1>7 DEF TimelyInv, LiveInv, IsSegment
    <2>3. Len(sent) - c.msg <= clock - c.at
      BY <1>7 DEF TimelyInv, DatedInv
    <2>4. c.msg = Len(sent) => c.at = clock
      BY <1>3, <1>7 DEF TimelyInv, LiveInv
    <2> QED
      BY <1>7, <2>1, <2>2, <2>3, <2>4
  <1>10. d.msg = Len(sent) /\ d.at = clock
    BY <1>3, <1>7
  <1>11. DatedInv'
    <2>1. ASSUME NEW c \in Live' PROVE Len(sent) - c.msg <= clock - c.at
      <3>1. CASE c \in Live
        BY <1>9, <3>1
      <3>2. CASE c = d
        BY <1>7, <1>10, <3>2
      <3> QED
        BY <1>6, <3>1, <3>2
    <2>2. ASSUME NEW c \in Live', NEW x \in Live', c.msg <= x.msg PROVE x.msg - c.msg <= x.at - c.at
      <3>1. CASE c \in Live /\ x \in Live
        BY <2>2, <3>1 DEF TimelyInv, DatedInv
      <3>2. CASE x = d /\ c \in Live
        BY <1>9, <1>10, <3>2
      <3>3. CASE c = d /\ x \in Live
        <4>1. x.msg = Len(sent)
          BY <1>7, <1>9, <1>10, <2>2, <3>3
        <4> QED
          BY <1>7, <1>9, <1>10, <3>3, <4>1
      <3>4. CASE c = d /\ x = d
        BY <1>7, <1>10, <3>4
      <3> QED
        BY <1>6, <3>1, <3>2, <3>3, <3>4
    <2>3. \A u \in Threads' : thread'[u].last = clock
      BY <1>3, <1>4, <1>5, <1>7
    <2> QED
      BY <1>3, <2>1, <2>2, <2>3 DEF DatedInv
  <1>12. LiveInv'
    <2>1. d.seq = (d.msg - 1) % SeqNumbers
      BY <1>3, <1>7, <1>10
    <2>2. ASSUME NEW c \in Live', Busy(t)', thread'[t].msg = c.msg
          PROVE  c.seg < thread'[t].next /\ c.at = thread'[t].last
      <3>1. CASE c = d
        <4>1. thread[t].next \in Nat
          BY <1>1, ThreadFacts
        <4> QED
          BY <1>3, <1>7, <3>1, <4>1
      <3>2. CASE c \in Live
        <4>1. c.seg < thread[t].next /\ c.at = thread[t].last
          BY <1>3, <2>2, <3>2 DEF TimelyInv, LiveInv
        <4>2. c.seg \in Nat /\ thread[t].next \in Nat
          BY <1>1, <3>2, LiveFacts, DatagramFacts, ThreadFacts
        <4> QED
          BY <1>3, <4>1, <4>2
      <3> QED
        BY <1>6, <3>1, <3>2
    <2>3. \A c \in Live' : IsSegment(c) /\ c.seq = (c.msg - 1) % SeqNumbers
      BY <1>3, <1>6, <2>1 DEF TimelyInv, LiveInv
    <2> QED
      BY <1>4, <1>5, <2>2, <2>3 DEF LiveInv
  <1> QED
    BY <1>2, <1>6, <1>8, <1>11, <1>12 DEF TimelyInv

(* What a reception leaves in the queue. *)
LEMMA Survivors ==
  ASSUME Types, Roomy(scenario), NEW d \in Datagrams, IsSegment(d), NEW s \in Keys
  PROVE  \/ After(d, s) = NoEntry
         \/ /\ After(d, s) = reassembly_queue[s] /\ reassembly_queue[s] # NoEntry /\ ~Stale(reassembly_queue[s])
            /\ Whole(d) \/ s # d.seq
         \/ /\ ~Whole(d) /\ s = d.seq /\ After(d, s) = Joined(d) /\ ~Stale(Joined(d))
            /\ Joined(d).received # Joined(d).expected
  <1>1. CASE Whole(d)
    <2>1. d.msg \in DOMAIN sent /\ d.seg + 1 = Count(d.msg) /\ d.seg = 0
      BY <1>1 DEF IsSegment, Whole
    <2>2. sent[d.msg] \in scenario.lengths /\ SegmentCount(sent[d.msg]) = 1
      BY <2>1 DEF Types, Count
    <2>3. ExpireAlways
      BY <2>2 DEF Roomy, ExpireAlways
    <2> QED
      BY <1>1, <2>3 DEF After, Kept
  <1>2. CASE ~Whole(d)
    BY <1>2 DEF After, Kept
  <1> QED
    BY <1>1, <1>2

(* An entry that is not stale is young. *)
LEMMA NotStale ==
  ASSUME Types, Roomy(scenario), NEW e, e # NoEntry, ~Stale(e),
         NEW then \in 1 .. clock, e.rx_hr_time = TimeHr(then)
  PROVE  clock <= then + Delta
  <1>1. then \in Nat /\ clock \in Nat /\ then <= clock /\ Delta \in Nat /\ MaxClock \in Nat /\ clock <= MaxClock
    BY BoundsAssumption DEF Types
  <1>2. MaxClock < SecondWrap * Second /\ SecondWrap * Second \in Nat
    BY TimeAssumption DEF Roomy
  <1>3. clock < SecondWrap * Second
    BY <1>1, <1>2
  <1> DEFINE a == Age(TimeHr(clock), TimeHr(then))
  <1>4. a \in Nat /\ a >= clock - then
    BY <1>1, <1>3, AgeAtLeast
  <1>5. ~(a > Delta)
    BY DEF Stale
  <1> HIDE DEF a
  <1> QED
    BY <1>1, <1>4, <1>5

(* What is stored after a reception was stored before or is the datagram. *)
LEMMA StoredAfter ==
  ASSUME Types, Roomy(scenario), NEW d \in Datagrams, IsSegment(d), NEW s \in Keys,
         reassembly_queue'[s] = After(d, s), NEW k \in Stored(s)'
  PROVE  /\ k \in Slots /\ reassembly_queue'[s] # NoEntry
         /\ \/ k \in Stored(s) /\ StoredSegment(s, k)' = StoredSegment(s, k)
            \/ k = d.seg /\ s = d.seq /\ StoredSegment(s, k)' = d
  <1>1. k \in Slots /\ reassembly_queue'[s].segments[k] # NoSegment
    BY DEF Stored
  <1>2. reassembly_queue'[s] # NoEntry
    BY <1>1, EntryTypes
  <1>3. CASE reassembly_queue'[s] = reassembly_queue[s]
    BY <1>1, <1>2, <1>3 DEF Stored, StoredSegment
  <1>4. CASE s = d.seq /\ reassembly_queue'[s] = Joined(d)
    <2>1. Joined(d).segments[k] = IF k = d.seg THEN d ELSE reassembly_queue[d.seq].segments[k]
      BY <1>1, JoinedFacts
    <2> QED
      BY <1>1, <1>2, <1>4, <2>1 DEF Stored, StoredSegment
  <1> QED
    BY <1>2, <1>3, <1>4, Survivors

LEMMA LiveReceive ==
  ASSUME Base, Roomy(scenario), Receive
  PROVE  Live' \subseteq Live
  <1>1. Types /\ NetInv
    BY DEF Base
  <1>2. PICK i \in 1 .. Len(net) :
          /\ net[i] \in Datagrams /\ IsSegment(net[i]) /\ net' = RemoveAt(net, i)
          /\ \A s \in Keys : reassembly_queue'[s] = After(net[i], s)
    BY <1>1, ReceiveEffect
  <1>3. i \in DOMAIN net
    BY <1>1 DEF Types
  <1>4. NetStays
    BY <1>1, <1>2, RemovedStays
  <1>5. \A s \in Keys : \A k \in Stored(s)' :
          \/ k \in Stored(s) /\ StoredSegment(s, k)' = StoredSegment(s, k)
          \/ StoredSegment(s, k)' = net[i]
    BY <1>1, <1>2, StoredAfter
  <1>6. \A j \in DOMAIN net' : net'[j] \in Live
    BY <1>1, <1>4, LiveFacts DEF NetStays
  <1>7. \A s \in Keys : \A k \in Stored(s)' : StoredSegment(s, k)' \in Live
    BY <1>1, <1>3, <1>5, LiveFacts
  <1> QED
    BY <1>6, <1>7 DEF Live

(* Numbers that are close and have the same remainder are the same. *)
LEMMA SameResidue ==
  ASSUME NEW a \in Nat, NEW b \in Nat, NEW n \in Nat \ {0}, a <= b, b - a < n, a % n = b % n
  PROVE  a = b
  <1> DEFINE p == a \div n
             q == b \div n
             r == a % n
  <1>1. p \in Int /\ q \in Int /\ r \in 0 .. n - 1 /\ a = p * n + r
    BY DivMod
  <1>2. b = q * n + r
    BY DivMod
  <1> HIDE DEF p, q, r
  <1> DEFINE z == (q - p) * n
  <1>3. z = q * n - p * n /\ q * n \in Int /\ p * n \in Int /\ q - p \in Int /\ z \in Int
    BY <1>1
  <1>4. z < n /\ z >= 0
    <2> HIDE DEF z
    <2> QED
      BY <1>1, <1>2, <1>3
  <1>5. ~(q - p >= 1)
    <2> SUFFICES ASSUME q - p >= 1 PROVE FALSE
      OBVIOUS
    <2>1. z >= 1 * n /\ 1 * n = n
      BY <1>3, Products
    <2> HIDE DEF z
    <2> QED
      BY <1>3, <1>4, <2>1
  <1>6. ~(q - p <= -1)
    <2> SUFFICES ASSUME q - p <= -1 PROVE FALSE
      OBVIOUS
    <2>1. (-1) * n >= z /\ (-1) * n = -n
      BY <1>3, Products
    <2> HIDE DEF z
    <2> QED
      BY <1>3, <1>4, <2>1
  <1>7. q = p
    BY <1>1, <1>5, <1>6
  <1> QED
    BY <1>1, <1>2, <1>7

(* What is under way belongs to one of the newest messages. *)
LEMMA NetIsRecent ==
  ASSUME Base, Roomy(scenario), TimelyInv, NEW i \in DOMAIN net
  PROVE  /\ net[i] \in Live /\ net[i].msg \in 1 .. Len(sent) /\ net[i].at \in Nat
         /\ net[i].at <= clock /\ clock <= net[i].at + MaxDelay
         /\ Len(sent) - net[i].msg <= MaxDelay /\ Len(sent) \in Nat
  <1>1. Types
    BY DEF Base
  <1>2. net[i] \in Live
    BY <1>1, LiveFacts
  <1>3. net[i].at \in Nat /\ net[i].msg \in Nat
    BY <1>1, <1>2, LiveFacts, DatagramFacts
  <1>4. IsSegment(net[i]) /\ net[i].at <= clock /\ clock <= net[i].at + MaxDelay
    BY DEF Base, NetInv
  <1>5. net[i].msg \in 1 .. Len(sent) /\ Len(sent) \in Nat /\ clock \in Nat
    BY <1>1, <1>4 DEF IsSegment, Types
  <1>6. PICK t \in Threads : TRUE
    BY <1>1, OnlyThread
  <1>7. thread[t].last \in Nat /\ thread[t].last <= clock
    BY <1>1, ThreadFacts DEF Base, SenderInv
  <1>8. Len(sent) - net[i].msg <= thread[t].last - net[i].at
    BY <1>2 DEF TimelyInv, DatedInv
  <1> QED
    BY <1>2, <1>3, <1>4, <1>5, <1>7, <1>8, BoundsAssumption

(* Messages from number first on are finitely many. *)
LEMMA MissingFinite ==
  ASSUME Types, NEW first \in Nat
  PROVE  /\ IsFiniteSet(Missing(first)) /\ Cardinality(Missing(first)) \in Nat
         /\ \A S \in SUBSET Missing(first) :
              IsFiniteSet(S) /\ Cardinality(S) \in Nat /\ Cardinality(S) <= Cardinality(Missing(first))
  <1>1. Len(sent) \in Nat
    BY DEF Types
  <1>2. IsFiniteSet(first .. Len(sent)) /\ Missing(first) \in SUBSET (first .. Len(sent))
    BY <1>1, FS_Interval DEF Missing
  <1>3. IsFiniteSet(Missing(first)) /\ Cardinality(Missing(first)) \in Nat
    BY <1>2, FS_Subset, FS_CardinalityType
  <1> QED
    BY <1>3, FS_Subset, FS_CardinalityType

(* A stored segment is of a message that is not too far back. *)
LEMMA StoredIsRecent ==
  ASSUME Base, Roomy(scenario), TimelyInv, StaleInv, NEW s \in Keys, NEW k \in Stored(s)
  PROVE  Len(sent) - StoredSegment(s, k).msg < SeqNumbers
  <1> DEFINE m == StoredSegment(s, k).msg
             first == m + MaxDelay + Delta + 1
             far == Len(sent) - MaxDelay - 1
  <1>1. Types
    BY DEF Base
  <1>2. m \in Nat /\ Len(sent) \in Nat /\ MaxDelay \in Nat /\ Delta \in Nat
    BY <1>1, LiveFacts, DatagramFacts, BoundsAssumption DEF Types
  <1>3. first \in Nat /\ far \in Int
    BY <1>2
  <1>4. /\ lost \in Nat /\ lost <= scenario.faults /\ scenario.faults \in Nat /\ SeqNumbers \in Nat
        /\ 2 * MaxDelay + Delta + 1 + scenario.faults < SeqNumbers
    <2>1. lost \in Nat /\ duplicated \in Nat /\ lost + duplicated <= scenario.faults /\ scenario \in Scenarios
      BY <1>1 DEF Types
    <2>2. scenario.faults \in Nat /\ SeqNumbers \in Nat
      BY <2>1, ScenarioFacts
    <2>3. 2 * MaxDelay + Delta + 1 + scenario.faults < SeqNumbers
      BY DEF Roomy
    <2> QED
      BY <2>1, <2>2, <2>3
  <1>5. Cardinality(Missing(first)) <= lost
    BY DEF StaleInv
  <1> HIDE DEF m
  <1>6. first .. far \subseteq Missing(first)
    <2> SUFFICES ASSUME NEW n \in first .. far PROVE n \in Missing(first)
      OBVIOUS
    <2>1. n \in first .. Len(sent) /\ n \in Nat /\ Len(sent) - n > MaxDelay /\ n # Len(sent)
      BY <1>2, <1>3
    <2>2. InNet(n) = {}
      <3> SUFFICES ASSUME NEW i \in DOMAIN net, net[i].msg = n PROVE FALSE
        BY DEF InNet
      <3>1. Len(sent) - n <= MaxDelay
        BY NetIsRecent
      <3> QED
        BY <1>2, <2>1, <3>1
    <2>3. \A t \in Threads : Busy(t) => thread[t].msg # n
      BY <2>1 DEF TimelyInv, NewestInv
    <2> QED
      BY <2>1, <2>2, <2>3 DEF Missing
  <1> HIDE DEF first, far
  <1>7. Cardinality(first .. far) <= Cardinality(Missing(first)) /\ Cardinality(Missing(first)) \in Nat
    BY <1>1, <1>3, <1>6, MissingFinite
  <1>8. Cardinality(first .. far) = IF first > far THEN 0 ELSE far - first + 1
    BY <1>3, FS_Interval
  <1>9. far - first + 1 <= lost
    BY <1>3, <1>4, <1>5, <1>7, <1>8
  <1>10. Len(sent) - MaxDelay - 1 - (m + MaxDelay + Delta + 1) + 1 <= lost
    BY <1>9 DEF first, far
  <1>11. Len(sent) - m < SeqNumbers
    BY <1>2, <1>4, <1>10
  <1> QED
    BY <1>11 DEF m

(* Segments that meet in an entry are segments of the same message. *)
LEMMA SameMessage ==
  ASSUME Base, Roomy(scenario), TimelyInv, EntryInv, StaleInv,
         NEW i \in DOMAIN net, NEW k \in Stored(net[i].seq)
  PROVE  StoredSegment(net[i].seq, k).msg = net[i].msg
  <1> DEFINE d == net[i]
             s == d.seq
             c == StoredSegment(s, k)
  <1>1. Types
    BY DEF Base
  <1>2. d \in Datagrams /\ s \in Keys /\ d \in Live /\ c \in Live
    BY <1>1, LiveFacts, DatagramFacts
  <1>3. reassembly_queue[s] # NoEntry
    BY EntryTypes DEF Stored
  <1>4. c.seq = s
    BY <1>2, <1>3 DEF EntryInv
  <1>5. (c.msg - 1) % SeqNumbers = (d.msg - 1) % SeqNumbers
    BY <1>2, <1>4 DEF TimelyInv, LiveInv
  <1>6. c.msg \in 1 .. Len(sent) /\ d.msg \in 1 .. Len(sent) /\ Len(sent) \in Nat
    BY <1>1, <1>2 DEF TimelyInv, LiveInv, IsSegment, Types
  <1>7. Len(sent) - c.msg < SeqNumbers
    BY <1>2, StoredIsRecent
  <1>8. Len(sent) - d.msg <= MaxDelay
    BY NetIsRecent
  <1>9. SeqNumbers \in Nat \ {0} /\ MaxDelay < SeqNumbers
    <2>1. 2 * MaxDelay + Delta + 1 + scenario.faults < SeqNumbers
      BY DEF Roomy
    <2>2. scenario.faults \in Nat /\ SeqNumbers \in Nat \ {0} /\ MaxDelay \in Nat /\ Delta \in Nat
      BY <1>1, ScenarioFacts DEF Types
    <2> QED
      BY <2>1, <2>2
  <1> DEFINE n == Len(sent)
  <1> HIDE DEF n, c, d, s
  <1>14. PICK a : a = c.msg - 1
    OBVIOUS
  <1>15. PICK b : b = d.msg - 1
    OBVIOUS
  <1>10. a \in Nat /\ b \in Nat /\ a = c.msg - 1 /\ b = d.msg - 1 /\ c.msg = a + 1 /\ d.msg = b + 1
    BY <1>6, <1>14, <1>15
  <1> USE DEF n, c, d, s
  <1>13. n \in Nat /\ a + 1 <= n /\ b + 1 <= n /\ n - (a + 1) < SeqNumbers /\ n - (b + 1) <= MaxDelay
    BY <1>6, <1>7, <1>8, <1>10
  <1> HIDE DEF n
  <1> HIDE DEF c, d, s
  <1>11. CASE a <= b
    <2>1. b - a < SeqNumbers
      BY <1>9, <1>10, <1>13, BoundsAssumption
    <2>2. a = b
      BY <1>5, <1>9, <1>10, <1>11, <2>1, SameResidue
    <2> QED
      BY <1>6, <1>10, <2>2 DEF c, d, s
  <1>12. CASE b <= a
    <2>1. a - b < SeqNumbers
      BY <1>9, <1>10, <1>13, BoundsAssumption
    <2>2. b = a
      BY <1>5, <1>9, <1>10, <1>12, <2>1, SameResidue
    <2> QED
      BY <1>6, <1>10, <2>2 DEF c, d, s
  <1> QED
    BY <1>10, <1>11, <1>12

(* The other datagrams are still under way. *)
LEMMA RemovedRest ==
  ASSUME Types, NEW i \in 1 .. Len(net), net' = RemoveAt(net, i)
  PROVE  \A j \in DOMAIN net : j # i => \E k \in DOMAIN net' : net'[k] = net[j]
  <1>1. net \in Seq(Datagrams) /\ DOMAIN net = 1 .. Len(net) /\ Len(net) \in Nat
    BY DEF Types
  <1>2. /\ DOMAIN net' = 1 .. Len(net) - 1
        /\ \A k \in 1 .. Len(net) - 1 : net'[k] = IF k < i THEN net[k] ELSE net[k + 1]
    BY <1>1, Removed
  <1> SUFFICES ASSUME NEW j \in DOMAIN net, j # i PROVE \E k \in DOMAIN net' : net'[k] = net[j]
    OBVIOUS
  <1>3. CASE j < i
    <2>1. j \in 1 .. Len(net) - 1
      BY <1>1, <1>3
    <2> QED
      BY <1>2, <1>3, <2>1
  <1>4. CASE j > i
    <2>1. j - 1 \in 1 .. Len(net) - 1 /\ ~(j - 1 < i) /\ (j - 1) + 1 = j
      BY <1>1, <1>4
    <2>2. net'[j - 1] = net[j]
      BY <1>2, <2>1
    <2> QED
      BY <1>2, <2>1, <2>2
  <1> QED
    BY <1>1, <1>3, <1>4

LEMMA InsertedRest ==
  ASSUME Types, NEW i \in 1 .. Len(net), net' = InsertAt(net, i, net[i])
  PROVE  \A j \in DOMAIN net : \E k \in DOMAIN net' : net'[k] = net[j]
  <1>1. net \in Seq(Datagrams) /\ DOMAIN net = 1 .. Len(net) /\ Len(net) \in Nat /\ net[i] \in Datagrams
    BY DEF Types
  <1>2. PICK e \in Datagrams : e = net[i] /\ net' = InsertAt(net, i, e)
    BY <1>1
  <1>3. DOMAIN net' = 1 .. Len(net) + 1
    BY <1>1, <1>2, Inserted
  <1> SUFFICES ASSUME NEW j \in DOMAIN net PROVE \E k \in DOMAIN net' : net'[k] = net[j]
    OBVIOUS
  <1>4. CASE j < i
    <2>1. j \in 1 .. Len(net) + 1
      BY <1>1
    <2>2. InsertAt(net, i, e)[j] = net[j]
      BY <1>1, <1>4, <2>1 DEF InsertAt
    <2> QED
      BY <1>2, <1>3, <2>1, <2>2
  <1>5. CASE j >= i
    <2>1. j + 1 \in 1 .. Len(net) + 1
      BY <1>1
    <2>2. InsertAt(net, i, e)[j + 1] = net[j]
      BY <1>1, <1>5, <2>1 DEF InsertAt
    <2> QED
      BY <1>2, <1>3, <2>1, <2>2
  <1> QED
    BY <1>1, <1>4, <1>5

(* Nothing more is missing. *)
LEMMA StaleKept ==
  ASSUME Types, StaleInv, reassembly_queue' = reassembly_queue, lost' = lost,
         \A first \in Nat : Missing(first)' \subseteq Missing(first)
  PROVE  StaleInv'
  <1>1. lost \in Nat /\ MaxDelay \in Nat /\ Delta \in Nat
    BY BoundsAssumption DEF Types
  <1> SUFFICES ASSUME NEW s \in Keys, NEW k \in Stored(s)
               PROVE  Cardinality(Missing(StoredSegment(s, k).msg + MaxDelay + Delta + 1)') <= lost
    BY DEF StaleInv, Stored, StoredSegment
  <1>2. PICK n \in Nat : n = StoredSegment(s, k).msg + MaxDelay + Delta + 1
    BY <1>1, LiveFacts, DatagramFacts
  <1>3. Cardinality(Missing(n)) <= lost
    BY <1>2 DEF StaleInv
  <1>4. Missing(n)' \subseteq Missing(n)
    BY <1>2
  <1>5. Cardinality(Missing(n)') \in Nat /\ Cardinality(Missing(n)') <= Cardinality(Missing(n))
        /\ Cardinality(Missing(n)) \in Nat
    BY <1>4, MissingFinite
  <1>6. Cardinality(Missing(n)') <= lost
    BY <1>1, <1>3, <1>5
  <1>7. StoredSegment(s, k)' = StoredSegment(s, k)
    BY DEF StoredSegment
  <1> QED
    BY <1>2, <1>6, <1>7

LEMMA StaleStart ==
  ASSUME Base, Roomy(scenario), StaleInv, NEW t \in Threads, StartSend(t)
  PROVE  StaleInv'
  <1>1. Types
    BY DEF Base
  <1>2. /\ ~Busy(t) /\ Len(sent') = Len(sent) + 1 /\ Len(sent) \in Nat
        /\ thread'[t].pc = "lock" /\ thread'[t].msg = Len(sent) + 1
        /\ UNCHANGED <<scenario, net, reassembly_queue, lost>>
    BY <1>1, StartEffect
  <1>3. \A u \in Threads : u = t
    BY <1>1, OnlyThread
  <1>4. Threads' = Threads /\ Busy(t)' /\ \A m : InNet(m)' = InNet(m)
    BY <1>2 DEF Threads, Busy, InNet
  <1>5. ASSUME NEW first \in Nat, NEW m \in Missing(first)' PROVE m \in Missing(first)
    <2>1. m \in first .. Len(sent') /\ InNet(m) = {} /\ m # Len(sent) + 1
      BY <1>2, <1>4 DEF Missing
    <2>2. m \in first .. Len(sent)
      BY <1>2, <2>1
    <2> QED
      BY <1>2, <1>3, <2>1, <2>2 DEF Missing
  <1> QED
    BY <1>1, <1>2, <1>5, StaleKept

LEMMA StaleLock ==
  ASSUME Base, StaleInv, NEW t \in Threads, LockPackMutex(t)
  PROVE  StaleInv'
  <1>1. Types
    BY DEF Base
  <1>2. /\ thread[t].pc = "lock"
        /\ \A u \in Threads : u # t => thread'[u] = thread[u]
        /\ thread'[t].pc = "send" /\ thread'[t].msg = thread[t].msg
        /\ UNCHANGED <<scenario, sent, net, reassembly_queue, lost>>
    BY <1>1, LockEffect
  <1>3. /\ Threads' = Threads /\ (\A m : InNet(m)' = InNet(m))
        /\ \A u \in Threads : Busy(u)' = Busy(u) /\ thread'[u].msg = thread[u].msg
    BY <1>2 DEF Threads, Busy, InNet
  <1>4. \A first \in Nat : Missing(first)' = Missing(first)
    BY <1>2, <1>3 DEF Missing
  <1> QED
    BY <1>1, <1>2, <1>4, StaleKept

LEMMA StaleSend ==
  ASSUME Base, Roomy(scenario), StaleInv, NEW t \in Threads, SendSegment(t)
  PROVE  StaleInv'
  <1>1. Types /\ SenderInv
    BY DEF Base
  <1>2. PICK d \in Datagrams : d = Coming(t)
    BY <1>1, SendEffect
  <1>3. /\ net' = Append(net, d) /\ d.msg = thread[t].msg
        /\ UNCHANGED <<scenario, sent, reassembly_queue, lost>>
    BY <1>1, <1>2, SendEffect
  <1>4. \A u \in Threads : u = t
    BY <1>1, OnlyThread
  <1>5. /\ \A i \in DOMAIN net : i \in DOMAIN net' /\ net'[i] = net[i]
        /\ \E i \in DOMAIN net' : net'[i] = d
    <2>1. net \in Seq(Datagrams) /\ Len(net) \in Nat /\ DOMAIN net = 1 .. Len(net)
      BY <1>1 DEF Types
    <2>2. /\ DOMAIN net' = 1 .. Len(net) + 1 /\ net'[Len(net) + 1] = d
          /\ \A i \in 1 .. Len(net) : net'[i] = net[i]
      BY <1>3, <2>1
    <2>3. Len(net) + 1 \in DOMAIN net'
      BY <2>1, <2>2
    <2> QED
      BY <2>1, <2>2, <2>3
  <1>6. ASSUME NEW first \in Nat, NEW m \in Missing(first)' PROVE m \in Missing(first)
    <2>1. m \in first .. Len(sent) /\ \A i \in DOMAIN net' : net'[i].msg # m
      BY <1>3 DEF Missing, InNet
    <2>2. m # thread[t].msg /\ \A i \in DOMAIN net : net[i].msg # m
      BY <1>3, <1>5, <2>1
    <2> QED
      BY <1>4, <2>1, <2>2 DEF Missing, InNet
  <1> QED
    BY <1>1, <1>3, <1>6, StaleKept

LEMMA StaleDuplicate ==
  ASSUME Base, StaleInv, Duplicate
  PROVE  StaleInv'
  <1>1. Types
    BY DEF Base
  <1>2. PICK i \in 1 .. Len(net) : net' = InsertAt(net, i, net[i])
    BY <1>1, DuplicateEffect
  <1>3. UNCHANGED <<scenario, sent, thread, reassembly_queue, lost>>
    BY <1>1, DuplicateEffect
  <1>4. \A j \in DOMAIN net : \E k \in DOMAIN net' : net'[k] = net[j]
    BY <1>1, <1>2, InsertedRest
  <1>5. \A m : InNet(m)' = {} => InNet(m) = {}
    BY <1>4 DEF InNet
  <1>6. Threads' = Threads /\ \A u : Busy(u)' = Busy(u)
    BY <1>3 DEF Threads, Busy
  <1>7. \A first \in Nat : Missing(first)' \subseteq Missing(first)
    BY <1>3, <1>5, <1>6 DEF Missing
  <1> QED
    BY <1>1, <1>3, <1>7, StaleKept

LEMMA StaleTick ==
  ASSUME Base, StaleInv, Tick
  PROVE  StaleInv'
  <1>1. Types /\ UNCHANGED <<scenario, sent, thread, net, reassembly_queue, lost>>
    BY DEF Base, Tick
  <1>2. \A first \in Nat : Missing(first)' = Missing(first)
    BY <1>1 DEF Missing, InNet, Busy, Threads
  <1> QED
    BY <1>1, <1>2, StaleKept

(* When a datagram is gone, at most its message is missing. *)
LEMMA MissingGone ==
  ASSUME Types, NEW i \in 1 .. Len(net), net' = RemoveAt(net, i), UNCHANGED <<scenario, sent, thread>>
  PROVE  \A first \in Nat :
           /\ Missing(first)' \subseteq Missing(first) \cup {net[i].msg}
           /\ net[i].msg < first => Missing(first)' \subseteq Missing(first)
  <1>1. \A j \in DOMAIN net : j # i => \E k \in DOMAIN net' : net'[k] = net[j]
    BY RemovedRest
  <1>2. \A m : InNet(m)' = {} => InNet(m) = {} \/ m = net[i].msg
    BY <1>1 DEF InNet
  <1>3. Threads' = Threads /\ \A u : Busy(u)' = Busy(u)
    BY DEF Threads, Busy
  <1>4. \A first \in Nat : Missing(first)' \subseteq Missing(first) \cup {net[i].msg}
    BY <1>2, <1>3 DEF Missing
  <1>5. net[i].msg \in Nat
    <2>1. net[i] \in Datagrams
      BY DEF Types
    <2> QED
      BY <2>1, DatagramFacts
  <1>6. \A first \in Nat : net[i].msg < first => net[i].msg \notin Missing(first)'
    BY <1>5 DEF Missing, Types
  <1> QED
    BY <1>4, <1>6

LEMMA StaleLose ==
  ASSUME Base, StaleInv, Lose
  PROVE  StaleInv'
  <1>1. Types /\ lost \in Nat /\ MaxDelay \in Nat /\ Delta \in Nat
    BY BoundsAssumption DEF Base, Types
  <1>2. PICK i \in 1 .. Len(net) : net' = RemoveAt(net, i)
    BY <1>1, LoseEffect
  <1>3. UNCHANGED <<scenario, sent, thread, reassembly_queue>> /\ lost' = lost + 1
    BY <1>1, LoseEffect
  <1>4. \A first \in Nat : Missing(first)' \subseteq Missing(first) \cup {net[i].msg}
    BY <1>1, <1>2, <1>3, MissingGone
  <1> SUFFICES ASSUME NEW s \in Keys, NEW k \in Stored(s)
               PROVE  Cardinality(Missing(StoredSegment(s, k).msg + MaxDelay + Delta + 1)') <= lost + 1
    BY <1>3 DEF StaleInv, Stored, StoredSegment
  <1>5. PICK n \in Nat : n = StoredSegment(s, k).msg + MaxDelay + Delta + 1
    BY <1>1, LiveFacts, DatagramFacts
  <1>6. Cardinality(Missing(n)) <= lost
    BY <1>5 DEF StaleInv
  <1>7. PICK M : M = Missing(n)'
    OBVIOUS
  <1> DEFINE R == Missing(n) \cup {net[i].msg}
  <1>8. IsFiniteSet(Missing(n)) /\ Cardinality(Missing(n)) \in Nat
    BY <1>1, MissingFinite
  <1>9. IsFiniteSet(R) /\ Cardinality(R) <= Cardinality(Missing(n)) + 1 /\ Cardinality(R) \in Nat
    <2> DEFINE S == Missing(n)
               x == net[i].msg
    <2> HIDE DEF S, x
    <2>1. IsFiniteSet(S) /\ Cardinality(S) \in Nat
      BY <1>8 DEF S
    <2>2. IsFiniteSet(S \cup {x}) /\ Cardinality(S \cup {x}) = IF x \in S THEN Cardinality(S) ELSE Cardinality(S) + 1
      BY <2>1, FS_AddElement
    <2>3. Cardinality(S \cup {x}) <= Cardinality(S) + 1 /\ Cardinality(S \cup {x}) \in Nat
      BY <2>1, <2>2
    <2> QED
      BY <2>2, <2>3 DEF S, x
  <1>10. M \in SUBSET R
    BY <1>4, <1>7
  <1> HIDE DEF R
  <1>11. Cardinality(M) <= Cardinality(R) /\ Cardinality(M) \in Nat
    BY <1>9, <1>10, FS_Subset, FS_CardinalityType
  <1>12. Cardinality(M) <= lost + 1
    BY <1>1, <1>6, <1>8, <1>9, <1>11
  <1>13. StoredSegment(s, k)' = StoredSegment(s, k)
    BY <1>3 DEF StoredSegment
  <1> QED
    BY <1>5, <1>7, <1>12, <1>13

(* Messages are no further apart than the times they were sent at. *)
LEMMA YoungEnough ==
  ASSUME NEW dmsg \in Nat, NEW cmsg \in Nat, NEW dat \in Nat, NEW cat \in Nat, NEW then \in Nat,
         NEW now \in Nat, NEW delay \in Nat, NEW delta \in Nat,
         dmsg - cmsg <= dat - cat, dat <= now, now <= then + delta, then <= cat + delay
  PROVE  dmsg < cmsg + delay + delta + 1
  OBVIOUS

(* What is under way keeps the entries young: after a reception an entry   *)
(* is left only if the datagram is not too new for it.                     *)
LEMMA StaleReceive ==
  ASSUME Base, Roomy(scenario), TimelyInv, EntryInv, StaleInv, Receive
  PROVE  StaleInv'
  <1>1. Types /\ NetInv /\ lost \in Nat /\ MaxDelay \in Nat /\ Delta \in Nat /\ clock \in Nat
    BY BoundsAssumption DEF Base, Types
  <1>2. PICK i \in 1 .. Len(net) :
          /\ net[i] \in Datagrams /\ IsSegment(net[i]) /\ net' = RemoveAt(net, i)
          /\ \A s \in Keys : reassembly_queue'[s] = After(net[i], s)
          /\ UNCHANGED <<scenario, clock, sent, thread, lost>>
    BY <1>1, ReceiveEffect
  <1>3. i \in DOMAIN net
    BY <1>1 DEF Types
  <1>4. PICK d \in Datagrams : d = net[i]
    BY <1>2
  <1>5. /\ d \in Live /\ d.msg \in 1 .. Len(sent) /\ d.at \in Nat /\ d.at <= clock
        /\ Len(sent) - d.msg <= MaxDelay /\ Len(sent) \in Nat
    BY <1>3, <1>4, NetIsRecent
  <1>6. \A first \in Nat : d.msg < first => Missing(first)' \subseteq Missing(first)
    BY <1>1, <1>2, <1>4, MissingGone
  <1> SUFFICES ASSUME NEW s \in Keys, NEW k \in Stored(s)'
               PROVE  Cardinality(Missing(StoredSegment(s, k).msg + MaxDelay + Delta + 1)') <= lost
    BY <1>2 DEF StaleInv
  <1>7. /\ reassembly_queue'[s] # NoEntry
        /\ \/ k \in Stored(s) /\ StoredSegment(s, k)' = StoredSegment(s, k)
           \/ s = d.seq /\ StoredSegment(s, k)' = d
    BY <1>1, <1>2, <1>4, StoredAfter
  <1>8. ASSUME NEW n \in Nat, d.msg < n, Cardinality(Missing(n)) <= lost
        PROVE  Cardinality(Missing(n)') <= lost
    <2>1. Missing(n)' \subseteq Missing(n)
      BY <1>6, <1>8
    <2>2. PICK M : M = Missing(n)'
      OBVIOUS
    <2>3. Cardinality(M) \in Nat /\ Cardinality(M) <= Cardinality(Missing(n)) /\ Cardinality(Missing(n)) \in Nat
      BY <1>1, <2>1, <2>2, MissingFinite
    <2>4. Cardinality(M) <= lost
      BY <1>1, <1>8, <2>3
    <2> QED
      BY <2>2, <2>4
  <1>9. CASE StoredSegment(s, k)' = d
    <2>1. PICK n \in Nat : n = d.msg + MaxDelay + Delta + 1
      BY <1>1, <1>5
    <2>2. d.msg < n /\ Len(sent) < n
      BY <1>1, <1>5, <2>1
    <2>3. Missing(n) = {}
      BY <1>5, <2>2 DEF Missing
    <2>4. Cardinality(Missing(n)) <= lost
      BY <1>1, <2>3, FS_EmptySet
    <2>5. Cardinality(Missing(n)') <= lost
      BY <1>8, <2>2, <2>4
    <2> QED
      BY <1>9, <2>1, <2>5
  <1>10. CASE k \in Stored(s) /\ StoredSegment(s, k)' = StoredSegment(s, k)
    <2>1. PICK c \in Datagrams : c = StoredSegment(s, k) /\ c \in Live
      BY <1>1, <1>10, LiveFacts
    <2>2. c.msg \in Nat /\ c.at \in Nat
      BY <2>1, DatagramFacts
    <2>3. PICK n \in Nat : n = c.msg + MaxDelay + Delta + 1
      BY <1>1, <2>2
    <2>4. Cardinality(Missing(n)) <= lost
      BY <1>10, <2>1, <2>3 DEF StaleInv
    <2>5. reassembly_queue[s] # NoEntry
      BY <1>10, EntryTypes DEF Stored
    <2>6. PICK then \in 1 .. clock :
            reassembly_queue[s].rx_hr_time = TimeHr(then) /\ then <= c.at + MaxDelay
      BY <1>10, <2>1, <2>5 DEF EntryInv
    <2>7. clock <= then + Delta
      <3>1. CASE reassembly_queue'[s] = reassembly_queue[s] /\ ~Stale(reassembly_queue[s])
        BY <1>1, <2>5, <2>6, <3>1, NotStale
      <3>2. CASE s = d.seq /\ reassembly_queue'[s] = Joined(d) /\ ~Stale(Joined(d))
        <4>1. Joined(d) # NoEntry /\ Joined(d).rx_hr_time = reassembly_queue[s].rx_hr_time
          BY <1>1, <1>2, <1>4, <2>5, <3>2, JoinedFacts
        <4> QED
          BY <1>1, <2>6, <3>2, <4>1, NotStale
      <3> QED
        BY <1>1, <1>2, <1>4, <1>7, <3>1, <3>2, Survivors
    <2>8. d.msg < n
      <3>1. CASE c.msg <= d.msg
        <4>1. d.msg - c.msg <= d.at - c.at
          BY <1>5, <2>1, <3>1 DEF TimelyInv, DatedInv
        <4>2. then \in Nat /\ d.msg \in Nat
          BY <1>1, <1>5
        <4>3. then <= c.at + MaxDelay
          BY <2>6
        <4>4. d.at <= clock /\ d.at \in Nat
          BY <1>5
        <4> QED
          BY <1>1, <2>2, <2>3, <2>7, <4>1, <4>2, <4>3, <4>4, YoungEnough
      <3>2. CASE d.msg < c.msg
        BY <1>1, <1>5, <2>2, <2>3, <3>2
      <3> QED
        BY <1>5, <2>2, <3>1, <3>2
    <2>9. Cardinality(Missing(n)') <= lost
      BY <1>8, <2>4, <2>8
    <2> QED
      BY <1>10, <2>1, <2>3, <2>9
  <1> QED
    BY <1>7, <1>9, <1>10

(* Datagrams of a message under way, in number. *)
LEMMA NetCounts ==
  ASSUME Types, NEW m
  PROVE  /\ Cardinality(InNet(m)) \in Nat
         /\ \A i \in 1 .. Len(net) : net' = RemoveAt(net, i) =>
              Cardinality(InNet(m)') = Cardinality(InNet(m)) - (IF net[i].msg = m THEN 1 ELSE 0)
         /\ \A i \in 1 .. Len(net) : net' = InsertAt(net, i, net[i]) =>
              Cardinality(InNet(m)') = Cardinality(InNet(m)) + (IF net[i].msg = m THEN 1 ELSE 0)
         /\ \A d \in Datagrams : net' = Append(net, d) =>
              Cardinality(InNet(m)') = Cardinality(InNet(m)) + (IF d.msg = m THEN 1 ELSE 0)
  <1>1. net \in Seq(Datagrams) /\ Len(net) \in Nat /\ DOMAIN net = 1 .. Len(net)
    BY DEF Types
  <1>2. InNet(m) = PlacesOf(net, m) /\ InNet(m)' = PlacesOf(net', m)
    BY DEF InNet, PlacesOf
  <1>3. Cardinality(InNet(m)) \in Nat
    <2>1. IsFiniteSet(1 .. Len(net)) /\ InNet(m) \in SUBSET (1 .. Len(net))
      BY <1>1, FS_Interval DEF InNet
    <2> QED
      BY <2>1, FS_Subset, FS_CardinalityType
  <1>4. ASSUME NEW i \in 1 .. Len(net), net' = RemoveAt(net, i)
        PROVE  Cardinality(InNet(m)') = Cardinality(InNet(m)) - (IF net[i].msg = m THEN 1 ELSE 0)
    BY <1>1, <1>2, <1>4, PlacesRemoved
  <1>5. ASSUME NEW i \in 1 .. Len(net), net' = InsertAt(net, i, net[i])
        PROVE  Cardinality(InNet(m)') = Cardinality(InNet(m)) + (IF net[i].msg = m THEN 1 ELSE 0)
    BY <1>1, <1>2, <1>5, PlacesInserted
  <1>6. ASSUME NEW d \in Datagrams, net' = Append(net, d)
        PROVE  Cardinality(InNet(m)') = Cardinality(InNet(m)) + (IF d.msg = m THEN 1 ELSE 0)
    BY <1>1, <1>2, <1>6, PlacesAppended
  <1> QED
    BY <1>3, <1>4, <1>5, <1>6

(* A datagram that is under way is counted. *)
LEMMA NetCountPositive ==
  ASSUME Types, NEW i \in DOMAIN net
  PROVE  Cardinality(InNet(net[i].msg)) >= 1
  <1> DEFINE S == InNet(net[i].msg)
  <1>1. IsFiniteSet(1 .. Len(net)) /\ S \in SUBSET (1 .. Len(net)) /\ i \in S
    BY FS_Interval DEF InNet, Types
  <1>2. IsFiniteSet(S) /\ Cardinality(S) \in Nat /\ S # {}
    BY <1>1, FS_Subset, FS_CardinalityType
  <1>3. Cardinality(S) # 0
    BY <1>2, FS_EmptySet
  <1> QED
    BY <1>2, <1>3

(* What remains within the bounds. *)
LEMMA WithinLess ==
  ASSUME Types, NEW m \in DOMAIN sent, NEW a \in Nat, NEW b \in Nat, Within(m, a), b <= a,
         UNCHANGED <<scenario, sent, thread>>, duplicated' = duplicated
  PROVE  Within(m, b)'
  <1>1. Count(m)' = Count(m) /\ Threads' = Threads /\ \A t : Busy(t)' = Busy(t)
    BY DEF Count, Threads, Busy
  <1>2. Count(m) \in Nat /\ duplicated \in Nat /\ \A t \in Threads : thread[t].next \in Nat
    BY CountFacts, ThreadFacts DEF Types
  <1>3. b <= Count(m) + duplicated
    BY <1>2 DEF Within
  <1>4. \A t \in Threads : Busy(t) /\ thread[t].msg = m => b <= thread[t].next + duplicated
    BY <1>2 DEF Within
  <1> QED
    BY <1>1, <1>3, <1>4 DEF Within

LEMMA WithinMore ==
  ASSUME Types, NEW m \in DOMAIN sent, NEW a \in Nat, NEW b \in Nat, Within(m, a), b <= a + 1,
         UNCHANGED <<scenario, sent, thread>>, duplicated' = duplicated + 1
  PROVE  Within(m, b)'
  <1>1. Count(m)' = Count(m) /\ Threads' = Threads /\ \A t : Busy(t)' = Busy(t)
    BY DEF Count, Threads, Busy
  <1>2. Count(m) \in Nat /\ duplicated \in Nat /\ \A t \in Threads : thread[t].next \in Nat
    BY CountFacts, ThreadFacts DEF Types
  <1>3. b <= Count(m) + (duplicated + 1)
    BY <1>2 DEF Within
  <1>4. \A t \in Threads : Busy(t) /\ thread[t].msg = m => b <= thread[t].next + (duplicated + 1)
    BY <1>2 DEF Within
  <1> QED
    BY <1>1, <1>3, <1>4 DEF Within

LEMMA WithinSent ==
  ASSUME Base, Roomy(scenario), NEW t \in Threads, SendSegment(t), NEW m \in DOMAIN sent,
         NEW a \in Nat, NEW b \in Nat, Within(m, a),
         b = a + (IF thread[t].msg = m THEN 1 ELSE 0)
  PROVE  Within(m, b)'
  <1>1. Types /\ SenderInv
    BY DEF Base
  <1>2. /\ Busy(t) /\ thread'[t].msg = thread[t].msg /\ thread'[t].next = thread[t].next + 1
        /\ UNCHANGED <<scenario, sent, duplicated>>
    BY <1>1, SendEffect DEF Sending, Busy
  <1>3. \A u \in Threads : u = t
    BY <1>1, OnlyThread
  <1>4. Count(m)' = Count(m) /\ Threads' = Threads
    BY <1>2 DEF Count, Threads
  <1>5. Count(m) \in Nat /\ duplicated \in Nat /\ thread[t].next \in Nat
    BY <1>1, CountFacts, ThreadFacts DEF Types
  <1>6. CASE thread[t].msg = m
    <2>1. thread[t].next < Count(m)
      BY <1>1, <1>2, <1>6 DEF SenderInv
    <2>2. a <= thread[t].next + duplicated /\ b = a + 1
      BY <1>2, <1>6 DEF Within
    <2>3. b <= (thread[t].next + 1) + duplicated /\ b <= Count(m) + duplicated
      BY <1>5, <2>1, <2>2
    <2> QED
      BY <1>2, <1>3, <1>4, <2>3 DEF Within
  <1>7. CASE thread[t].msg # m
    <2>1. b = a
      BY <1>7
    <2> QED
      BY <1>2, <1>3, <1>4, <1>7, <2>1 DEF Within
  <1> QED
    BY <1>6, <1>7

(* The message of a stored segment. *)
LEMMA StoredFacts ==
  ASSUME Types, TimelyInv, NEW s \in Keys, NEW k \in Stored(s)
  PROVE  /\ StoredSegment(s, k).msg \in DOMAIN sent /\ reassembly_queue[s].received \in Nat
         /\ k \in Slots /\ IsSegment(StoredSegment(s, k)) /\ StoredSegment(s, k) \in Datagrams
         /\ reassembly_queue[s] # NoEntry
  <1>1. StoredSegment(s, k) \in Live /\ StoredSegment(s, k) \in Datagrams
    BY LiveFacts
  <1>2. IsSegment(StoredSegment(s, k))
    BY <1>1 DEF TimelyInv, LiveInv
  <1>3. reassembly_queue[s].received \in Nat
    BY DEF Types, Entries
  <1>4. k \in Slots /\ reassembly_queue[s] # NoEntry
    BY EntryTypes DEF Stored
  <1> QED
    BY <1>1, <1>2, <1>3, <1>4 DEF IsSegment

(* Copies while the receiver does nothing. *)
LEMMA CopiesKept ==
  ASSUME Types, TimelyInv, CopiesInv, UNCHANGED <<sent, reassembly_queue>>,
         \A m \in DOMAIN sent : \A a, b \in Nat :
           b = Cardinality(InNet(m)') /\ Within(m, a + Cardinality(InNet(m))) => Within(m, a + b)',
         \A m : Cardinality(InNet(m)') \in Nat
  PROVE  CopiesInv'
  <1>1. ASSUME NEW m \in DOMAIN sent, NEW a \in Nat, Within(m, a + Cardinality(InNet(m)))
        PROVE  Within(m, a + Cardinality(InNet(m)))'
    <2>1. PICK b \in Nat : b = Cardinality(InNet(m)')
      OBVIOUS
    <2>2. Within(m, a + b)'
      BY <1>1, <2>1
    <2> QED
      BY <2>1, <2>2
  <1>2. ASSUME NEW m \in DOMAIN sent PROVE Within(m, Cardinality(InNet(m)))'
    <2>1. Cardinality(InNet(m)) \in Nat
      BY NetCounts
    <2>2. Within(m, 0 + Cardinality(InNet(m)))
      BY <2>1 DEF CopiesInv
    <2>3. Within(m, 0 + Cardinality(InNet(m)))'
      BY <1>1, <2>2
    <2>4. PICK b \in Nat : b = Cardinality(InNet(m)')
      OBVIOUS
    <2>5. 0 + b = b
      OBVIOUS
    <2> QED
      BY <2>3, <2>4, <2>5
  <1>3. ASSUME NEW s \in Keys, NEW k \in Stored(s)
        PROVE  Within(StoredSegment(s, k).msg,
                      reassembly_queue[s].received + Cardinality(InNet(StoredSegment(s, k).msg)))'
    <2>1. PICK m \in DOMAIN sent : m = StoredSegment(s, k).msg
      BY StoredFacts
    <2>2. PICK a \in Nat : a = reassembly_queue[s].received
      BY StoredFacts
    <2>3. Within(m, a + Cardinality(InNet(m)))
      BY <2>1, <2>2 DEF CopiesInv
    <2>4. Within(m, a + Cardinality(InNet(m)))'
      BY <1>1, <2>3
    <2>5. StoredSegment(s, k)' = StoredSegment(s, k) /\ reassembly_queue'[s].received = a
      BY <2>2 DEF StoredSegment
    <2> QED
      BY <2>1, <2>4, <2>5
  <1>4. \A s \in Keys : Stored(s)' = Stored(s)
    BY DEF Stored
  <1> QED
    BY <1>2, <1>3, <1>4 DEF CopiesInv

LEMMA CopiesSend ==
  ASSUME Base, Roomy(scenario), TimelyInv, CopiesInv, NEW t \in Threads, SendSegment(t)
  PROVE  CopiesInv'
  <1>1. Types /\ SenderInv
    BY DEF Base
  <1>2. PICK d \in Datagrams : net' = Append(net, d) /\ d.msg = thread[t].msg
    BY <1>1, SendEffect
  <1>3. UNCHANGED <<sent, reassembly_queue>>
    BY <1>1, SendEffect
  <1>4. \A m : /\ Cardinality(InNet(m)) \in Nat /\ Cardinality(InNet(m)') \in Nat
               /\ Cardinality(InNet(m)') = Cardinality(InNet(m)) + (IF thread[t].msg = m THEN 1 ELSE 0)
    BY <1>1, <1>2, NetCounts
  <1>5. ASSUME NEW m \in DOMAIN sent, NEW a \in Nat, NEW b \in Nat, b = Cardinality(InNet(m)'),
               Within(m, a + Cardinality(InNet(m)))
        PROVE  Within(m, a + b)'
    <2>1. PICK x \in Nat, y \in Nat : x = a + Cardinality(InNet(m)) /\ y = a + b
      BY <1>4
    <2>2. y = x + (IF thread[t].msg = m THEN 1 ELSE 0)
      BY <1>4, <1>5, <2>1
    <2>3. Within(m, y)'
      BY <1>5, <2>1, <2>2, WithinSent
    <2> QED
      BY <2>1, <2>3
  <1> QED
    BY <1>1, <1>3, <1>4, <1>5, CopiesKept

LEMMA CopiesLose ==
  ASSUME Base, TimelyInv, CopiesInv, Lose
  PROVE  CopiesInv'
  <1>1. Types
    BY DEF Base
  <1>2. PICK i \in 1 .. Len(net) : net' = RemoveAt(net, i)
    BY <1>1, LoseEffect
  <1>3. UNCHANGED <<scenario, sent, thread, reassembly_queue, duplicated>>
    BY <1>1, LoseEffect
  <1>7. Types'
    BY BaseLose DEF Base
  <1>8. net' \in Seq(Datagrams)
    BY <1>7 DEF Types
  <1>4. \A m : /\ Cardinality(InNet(m)) \in Nat /\ Cardinality(InNet(m)') \in Nat
               /\ Cardinality(InNet(m)') <= Cardinality(InNet(m))
    <2> SUFFICES ASSUME NEW m
                 PROVE  /\ Cardinality(InNet(m)) \in Nat /\ Cardinality(InNet(m)') \in Nat
                        /\ Cardinality(InNet(m)') <= Cardinality(InNet(m))
      OBVIOUS
    <2>1. /\ Cardinality(InNet(m)) \in Nat
          /\ Cardinality(InNet(m)') = Cardinality(InNet(m)) - (IF net[i].msg = m THEN 1 ELSE 0)
      BY <1>1, <1>2, NetCounts
    <2>2. net[i].msg = m => Cardinality(InNet(m)) >= 1
      BY <1>1, NetCountPositive DEF Types
    <2> QED
      BY <2>1, <2>2
  <1>5. ASSUME NEW m \in DOMAIN sent, NEW a \in Nat, NEW b \in Nat, b = Cardinality(InNet(m)'),
               Within(m, a + Cardinality(InNet(m)))
        PROVE  Within(m, a + b)'
    <2>1. PICK x \in Nat, y \in Nat : x = a + Cardinality(InNet(m)) /\ y = a + b
      BY <1>4
    <2>2. y <= x
      BY <1>4, <1>5, <2>1
    <2>3. Within(m, y)'
      BY <1>1, <1>3, <1>5, <2>1, <2>2, WithinLess
    <2> QED
      BY <2>1, <2>3
  <1> QED
    BY <1>1, <1>3, <1>4, <1>5, CopiesKept

LEMMA CopiesDuplicate ==
  ASSUME Base, TimelyInv, CopiesInv, Duplicate
  PROVE  CopiesInv'
  <1>1. Types
    BY DEF Base
  <1>2. PICK i \in 1 .. Len(net) : net' = InsertAt(net, i, net[i])
    BY <1>1, DuplicateEffect
  <1>3. UNCHANGED <<scenario, sent, thread, reassembly_queue>> /\ duplicated' = duplicated + 1
    BY <1>1, DuplicateEffect
  <1>4. \A m : /\ Cardinality(InNet(m)) \in Nat /\ Cardinality(InNet(m)') \in Nat
               /\ Cardinality(InNet(m)') <= Cardinality(InNet(m)) + 1
    <2> SUFFICES ASSUME NEW m
                 PROVE  /\ Cardinality(InNet(m)) \in Nat /\ Cardinality(InNet(m)') \in Nat
                        /\ Cardinality(InNet(m)') <= Cardinality(InNet(m)) + 1
      OBVIOUS
    <2>1. /\ Cardinality(InNet(m)) \in Nat
          /\ Cardinality(InNet(m)') = Cardinality(InNet(m)) + (IF net[i].msg = m THEN 1 ELSE 0)
      BY <1>1, <1>2, NetCounts
    <2> QED
      BY <2>1
  <1>5. ASSUME NEW m \in DOMAIN sent, NEW a \in Nat, NEW b \in Nat, b = Cardinality(InNet(m)'),
               Within(m, a + Cardinality(InNet(m)))
        PROVE  Within(m, a + b)'
    <2>1. PICK x \in Nat, y \in Nat : x = a + Cardinality(InNet(m)) /\ y = a + b
      BY <1>4
    <2>2. y <= x + 1
      BY <1>4, <1>5, <2>1
    <2>3. Within(m, y)'
      BY <1>1, <1>3, <1>5, <2>1, <2>2, WithinMore
    <2> QED
      BY <2>1, <2>3
  <1> QED
    BY <1>1, <1>3, <1>4, <1>5, CopiesKept

LEMMA CopiesLock ==
  ASSUME Base, TimelyInv, CopiesInv, NEW t \in Threads, LockPackMutex(t)
  PROVE  CopiesInv'
  <1>1. Types
    BY DEF Base
  <1>2. /\ thread[t].pc = "lock"
        /\ \A u \in Threads : u # t => thread'[u] = thread[u]
        /\ thread'[t].pc = "send" /\ thread'[t].msg = thread[t].msg /\ thread'[t].next = thread[t].next
        /\ UNCHANGED <<scenario, sent, net, reassembly_queue, duplicated>>
    BY <1>1, LockEffect
  <1>3. /\ Threads' = Threads /\ (\A m : InNet(m)' = InNet(m) /\ Count(m)' = Count(m))
        /\ \A u \in Threads : Busy(u)' = Busy(u) /\ thread'[u].msg = thread[u].msg /\ thread'[u].next = thread[u].next
    BY <1>2 DEF Threads, Busy, InNet, Count
  <1>4. \A m, n : Within(m, n) => Within(m, n)'
    BY <1>2, <1>3 DEF Within
  <1>5. \A s \in Keys : Stored(s)' = Stored(s) /\ \A k : StoredSegment(s, k)' = StoredSegment(s, k)
    BY <1>2 DEF Stored, StoredSegment
  <1> QED
    BY <1>2, <1>3, <1>4, <1>5 DEF CopiesInv

LEMMA CopiesTick ==
  ASSUME CopiesInv, Tick
  PROVE  CopiesInv'
  <1>1. UNCHANGED <<scenario, sent, thread, net, reassembly_queue, duplicated>>
    BY DEF Tick
  <1>2. /\ Threads' = Threads /\ (\A m : InNet(m)' = InNet(m) /\ Count(m)' = Count(m)) /\ \A u : Busy(u)' = Busy(u)
    BY <1>1 DEF Threads, Busy, InNet, Count
  <1>3. \A m, n : Within(m, n) => Within(m, n)'
    BY <1>1, <1>2 DEF Within
  <1>4. \A s \in Keys : Stored(s)' = Stored(s) /\ \A k : StoredSegment(s, k)' = StoredSegment(s, k)
    BY <1>1 DEF Stored, StoredSegment
  <1> QED
    BY <1>1, <1>2, <1>3, <1>4 DEF CopiesInv

LEMMA CopiesStart ==
  ASSUME Base, Roomy(scenario), TimelyInv, CopiesInv, NEW t \in Threads, StartSend(t)
  PROVE  CopiesInv'
  <1>1. Types
    BY DEF Base
  <1>2. /\ ~Busy(t) /\ Len(sent) \in Nat /\ DOMAIN sent = 1 .. Len(sent) /\ DOMAIN sent' = 1 .. Len(sent) + 1
        /\ \A m \in DOMAIN sent : m \in DOMAIN sent' /\ sent'[m] = sent[m]
        /\ thread'[t].msg = Len(sent) + 1 /\ thread'[t].next = 0
        /\ UNCHANGED <<scenario, net, reassembly_queue, duplicated>>
    BY <1>1, StartEffect
  <1>3. \A u \in Threads : u = t
    BY <1>1, OnlyThread
  <1>4. /\ Threads' = Threads /\ (\A m : InNet(m)' = InNet(m))
        /\ \A s \in Keys : Stored(s)' = Stored(s) /\ \A k : StoredSegment(s, k)' = StoredSegment(s, k)
    BY <1>2 DEF Threads, InNet, Stored, StoredSegment
  <1>5. \A m \in DOMAIN sent : Count(m)' = Count(m)
    BY <1>2, SegmentStays
  <1>6. ASSUME NEW m \in DOMAIN sent, NEW n, Within(m, n) PROVE Within(m, n)'
    <2>1. m # Len(sent) + 1
      BY <1>2
    <2> QED
      BY <1>2, <1>3, <1>4, <1>5, <1>6, <2>1 DEF Within
  <1>7. PICK l \in Nat : l = Len(sent) + 1
    BY <1>2
  <1>8. InNet(l) = {}
    <2>1. \A i \in DOMAIN net : net[i].msg \in 1 .. Len(sent)
      BY <1>2 DEF Base, NetInv, IsSegment
    <2> QED
      BY <1>2, <1>7, <2>1 DEF InNet
  <1>9. Within(l, 0)'
    <2>1. duplicated \in Nat /\ l \in DOMAIN sent'
      BY <1>1, <1>2, <1>7 DEF Types
    <2>2. Count(l)' \in Nat
      <3>1. Types'
        BY BaseStart DEF Base
      <3>2. sent'[l] \in scenario.lengths
        BY <1>2, <2>1, <3>1 DEF Types
      <3>3. \A x \in scenario.lengths : SegmentCount(x) \in 1 .. MaxSegments
        BY <1>1, ScenarioFacts DEF Types
      <3>4. SegmentCount(sent'[l]) \in Nat
        BY <3>2, <3>3, SegmentsAssumption
      <3> QED
        BY <3>4 DEF Count
    <2> QED
      BY <1>2, <1>3, <1>4, <2>1, <2>2 DEF Within
  <1>10. ASSUME NEW m \in DOMAIN sent' PROVE Within(m, Cardinality(InNet(m)))'
    <2>1. CASE m = l
      BY <1>4, <1>8, <1>9, <2>1, FS_EmptySet
    <2>2. CASE m \in DOMAIN sent
      <3>1. PICK n : n = Cardinality(InNet(m))
        OBVIOUS
      <3>2. Within(m, n)'
        BY <1>6, <2>2, <3>1 DEF CopiesInv
      <3>3. Cardinality(InNet(m))' = n
        BY <1>4, <3>1
      <3> QED
        BY <3>2, <3>3
    <2> QED
      BY <1>2, <1>7, <2>1, <2>2
  <1>11. ASSUME NEW s \in Keys, NEW k \in Stored(s)
         PROVE  Within(StoredSegment(s, k).msg,
                       reassembly_queue[s].received + Cardinality(InNet(StoredSegment(s, k).msg)))'
    <2>1. PICK m \in DOMAIN sent : m = StoredSegment(s, k).msg
      BY <1>1, StoredFacts
    <2>2. PICK n : n = reassembly_queue[s].received + Cardinality(InNet(m))
      OBVIOUS
    <2>3. Within(m, n)'
      BY <1>6, <2>1, <2>2 DEF CopiesInv
    <2> QED
      BY <1>2, <1>4, <2>1, <2>2, <2>3
  <1> QED
    BY <1>4, <1>10, <1>11 DEF CopiesInv

(* A segment that is stored is counted, and the counter does not wrap or   *)
(* reach the mark of an unknown number of segments.                        *)
LEMMA JoinedCount ==
  ASSUME Base, Roomy(scenario), TimelyInv, EntryInv, CopiesInv, StaleInv, NEW i \in DOMAIN net
  PROVE  /\ Joined(net[i]).received \in 1 .. 254
         /\ reassembly_queue[net[i].seq] # NoEntry =>
              Joined(net[i]).received = reassembly_queue[net[i].seq].received + 1
         /\ Within(net[i].msg, Joined(net[i]).received + Cardinality(InNet(net[i].msg)) - 1)
  <1>1. Types /\ NetInv
    BY DEF Base
  <1>2. PICK d \in Datagrams : d = net[i]
    BY <1>1 DEF Types
  <1>3. IsSegment(d) /\ d.msg \in DOMAIN sent /\ d.seq \in Keys
    BY <1>1, <1>2, DatagramFacts DEF NetInv, IsSegment
  <1>4. PICK n \in Nat : n = Cardinality(InNet(d.msg)) /\ n >= 1
    BY <1>1, <1>2, NetCounts, NetCountPositive
  <1>5. PICK most \in Nat : most = Count(d.msg) + duplicated /\ most < 255
    <2>1. Count(d.msg) \in 1 .. MaxSegments /\ MaxSegments \in Nat
      BY <1>1, <1>3, CountFacts
    <2>2. lost \in Nat /\ duplicated \in Nat /\ lost + duplicated <= scenario.faults /\ scenario \in Scenarios
      BY <1>1 DEF Types
    <2>3. scenario.faults \in Nat
      BY <2>2, ScenarioFacts
    <2>4. MaxSegments + scenario.faults < 255
      BY DEF Roomy
    <2>5. Count(d.msg) + duplicated \in Nat /\ Count(d.msg) + duplicated < 255
      BY <2>1, <2>2, <2>3, <2>4
    <2> QED
      BY <2>5
  <1>6. CASE reassembly_queue[d.seq] = NoEntry
    <2>1. Joined(d).received = 1
      BY <1>1, <1>3, <1>6, JoinedFacts
    <2>2. Within(d.msg, n)
      BY <1>3, <1>4 DEF CopiesInv
    <2>3. 1 + n - 1 = n
      OBVIOUS
    <2> QED
      BY <1>2, <1>4, <1>6, <2>1, <2>2, <2>3
  <1>7. CASE reassembly_queue[d.seq] # NoEntry
    <2>1. PICK k \in Stored(d.seq) : TRUE
      BY <1>3, <1>7 DEF EntryInv
    <2>2. StoredSegment(d.seq, k).msg = d.msg
      BY <1>2, <2>1, SameMessage
    <2>3. PICK r \in Nat : r = reassembly_queue[d.seq].received
      BY <1>1, <1>3, <2>1, StoredFacts
    <2>4. Within(d.msg, r + n)
      BY <1>3, <1>4, <2>1, <2>2, <2>3 DEF CopiesInv
    <2>5. r + n <= most
      BY <1>5, <2>4 DEF Within
    <2>6. r + 1 \in 1 .. 254
      BY <1>4, <1>5, <2>5
    <2>7. (r + 1) % 256 = r + 1
      BY <2>6, SmallMod
    <2>8. Joined(d).received = r + 1
      BY <1>1, <1>3, <1>7, <2>3, <2>7, JoinedFacts
    <2>9. (r + 1) + n - 1 = r + n
      OBVIOUS
    <2> QED
      BY <1>2, <1>4, <2>3, <2>4, <2>6, <2>8, <2>9
  <1> QED
    BY <1>6, <1>7

LEMMA CopiesReceive ==
  ASSUME Base, Roomy(scenario), TimelyInv, EntryInv, CopiesInv, StaleInv, Receive
  PROVE  CopiesInv'
  <1>1. Types /\ NetInv
    BY DEF Base
  <1>2. PICK i \in 1 .. Len(net) :
          /\ net[i] \in Datagrams /\ IsSegment(net[i]) /\ net' = RemoveAt(net, i)
          /\ \A s \in Keys : reassembly_queue'[s] = After(net[i], s)
          /\ UNCHANGED <<scenario, sent, thread, duplicated>>
    BY <1>1, ReceiveEffect
  <1>3. i \in DOMAIN net
    BY <1>1 DEF Types
  <1>4. PICK d \in Datagrams : d = net[i]
    BY <1>2
  <1>5. \A m : /\ Cardinality(InNet(m)) \in Nat /\ Cardinality(InNet(m)') \in Nat
               /\ Cardinality(InNet(m)') = Cardinality(InNet(m)) - (IF d.msg = m THEN 1 ELSE 0)
               /\ Cardinality(InNet(m)') <= Cardinality(InNet(m))
    <2> SUFFICES ASSUME NEW m
                 PROVE  /\ Cardinality(InNet(m)) \in Nat /\ Cardinality(InNet(m)') \in Nat
                        /\ Cardinality(InNet(m)') = Cardinality(InNet(m)) - (IF d.msg = m THEN 1 ELSE 0)
                        /\ Cardinality(InNet(m)') <= Cardinality(InNet(m))
      OBVIOUS
    <2>1. /\ Cardinality(InNet(m)) \in Nat
          /\ Cardinality(InNet(m)') = Cardinality(InNet(m)) - (IF d.msg = m THEN 1 ELSE 0)
      BY <1>1, <1>2, <1>4, NetCounts
    <2>2. d.msg = m => Cardinality(InNet(m)) >= 1
      BY <1>1, <1>3, <1>4, NetCountPositive
    <2> QED
      BY <2>1, <2>2
  <1>6. ASSUME NEW m \in DOMAIN sent PROVE Within(m, Cardinality(InNet(m)))'
    <2>1. PICK a \in Nat, b \in Nat : a = Cardinality(InNet(m)) /\ b = Cardinality(InNet(m)') /\ b <= a
      BY <1>5
    <2>2. Within(m, a)
      BY <2>1 DEF CopiesInv
    <2>3. Within(m, b)'
      BY <1>1, <1>2, <2>1, <2>2, WithinLess
    <2> QED
      BY <2>1, <2>3
  <1>7. ASSUME NEW s \in Keys, NEW k \in Stored(s)'
        PROVE  Within(StoredSegment(s, k).msg,
                      reassembly_queue[s].received + Cardinality(InNet(StoredSegment(s, k).msg)))'
    <2>1. /\ k \in Slots /\ reassembly_queue'[s] # NoEntry
          /\ \/ k \in Stored(s) /\ StoredSegment(s, k)' = StoredSegment(s, k)
             \/ k = d.seg /\ s = d.seq /\ StoredSegment(s, k)' = d
      BY <1>1, <1>2, <1>4, StoredAfter
    <2>2. CASE reassembly_queue'[s] = reassembly_queue[s]
      <3>1. k \in Stored(s) /\ StoredSegment(s, k)' = StoredSegment(s, k)
        BY <2>2 DEF Stored, StoredSegment
      <3>2. PICK m \in DOMAIN sent : m = StoredSegment(s, k).msg
        BY <1>1, <3>1, StoredFacts
      <3>3. PICK r \in Nat : r = reassembly_queue[s].received
        BY <1>1, <3>1, StoredFacts
      <3>4. PICK a \in Nat, b \in Nat : a = Cardinality(InNet(m)) /\ b = Cardinality(InNet(m)') /\ b <= a
        BY <1>5
      <3>5. Within(m, r + a)
        BY <3>1, <3>2, <3>3, <3>4 DEF CopiesInv
      <3>6. r + a \in Nat /\ r + b \in Nat /\ r + b <= r + a
        BY <3>4
      <3>7. Within(m, r + b)'
        BY <1>1, <1>2, <3>5, <3>6, WithinLess
      <3> QED
        BY <2>2, <3>1, <3>2, <3>3, <3>4, <3>7
    <2>3. CASE s = d.seq /\ reassembly_queue'[s] = Joined(d)
      <3>1. StoredSegment(s, k)'.msg = d.msg
        BY <1>3, <1>4, <2>1, <2>3, SameMessage
      <3>2. PICK m \in DOMAIN sent : m = d.msg
        BY <1>2, <1>4 DEF IsSegment
      <3>8. Joined(d).received \in 1 .. 254
        BY <1>3, <1>4, JoinedCount
      <3>9. Cardinality(InNet(m)) \in Nat
        BY <1>5
      <3>10. PICK r \in 1 .. 254 : r = Joined(d).received
        BY <3>8
      <3>11. PICK a \in Nat : a = Cardinality(InNet(m))
        BY <3>9
      <3>12. r >= 1 /\ r \in Nat
        OBVIOUS
      <3>3. r = Joined(d).received /\ a = Cardinality(InNet(m)) /\ r >= 1 /\ r \in Nat
        BY <3>10, <3>11, <3>12
      <3>4. Within(m, r + a - 1)
        BY <1>3, <1>4, <3>2, <3>3, JoinedCount
      <3>5. PICK b \in Nat : b = Cardinality(InNet(m)') /\ b = a - 1
        BY <1>5, <3>2, <3>3
      <3>6. r + a - 1 \in Nat /\ r + b \in Nat /\ r + b <= r + a - 1
        BY <3>3, <3>5
      <3>7. Within(m, r + b)'
        BY <1>1, <1>2, <3>4, <3>6, WithinLess
      <3> QED
        BY <2>3, <3>1, <3>2, <3>3, <3>5, <3>7
    <2> QED
      BY <1>1, <1>2, <1>4, <2>1, <2>2, <2>3, Survivors
  <1> QED
    BY <1>2, <1>6, <1>7 DEF CopiesInv

(* A datagram that arrives or is lost is nowhere else. *)
LEMMA OnceRemoved ==
  ASSUME Types, OnceInv, NEW i \in 1 .. Len(net), net' = RemoveAt(net, i), duplicated' = duplicated,
         \A s \in Keys : \A k \in Stored(s)' :
           \/ k \in Stored(s) /\ StoredSegment(s, k)' = StoredSegment(s, k)
           \/ k = net[i].seg /\ StoredSegment(s, k)' = net[i]
  PROVE  OnceInv'
  <1>1. net \in Seq(Datagrams) /\ DOMAIN net = 1 .. Len(net) /\ Len(net) \in Nat /\ i \in DOMAIN net
    BY DEF Types
  <1>2. /\ DOMAIN net' = 1 .. Len(net) - 1
        /\ \A k \in 1 .. Len(net) - 1 : net'[k] = IF k < i THEN net[k] ELSE net[k + 1]
    BY <1>1, Removed
  <1> DEFINE f(k) == IF k < i THEN k ELSE k + 1
  <1>3. \A k \in DOMAIN net' : f(k) \in DOMAIN net /\ f(k) # i /\ net'[k] = net[f(k)]
    BY <1>1, <1>2
  <1>4. \A j, k \in DOMAIN net' : f(j) = f(k) => j = k
    BY <1>1, <1>2
  <1> HIDE DEF f
  <1> SUFFICES ASSUME duplicated = 0
               PROVE  /\ \A j, k \in DOMAIN net' : net'[j].msg = net'[k].msg /\ net'[j].seg = net'[k].seg => j = k
                      /\ \A j \in DOMAIN net', s \in Keys : \A k \in Stored(s)' :
                           ~(net'[j].msg = StoredSegment(s, k)'.msg /\ net'[j].seg = k)
    BY DEF OnceInv
  <1>5. /\ \A j, k \in DOMAIN net : net[j].msg = net[k].msg /\ net[j].seg = net[k].seg => j = k
        /\ \A j \in DOMAIN net, s \in Keys : \A k \in Stored(s) :
             ~(net[j].msg = StoredSegment(s, k).msg /\ net[j].seg = k)
    BY DEF OnceInv
  <1>6. ASSUME NEW j \in DOMAIN net', NEW k \in DOMAIN net', net'[j].msg = net'[k].msg, net'[j].seg = net'[k].seg
        PROVE  j = k
    BY <1>3, <1>4, <1>5, <1>6
  <1>7. ASSUME NEW j \in DOMAIN net', NEW s \in Keys, NEW k \in Stored(s)',
               net'[j].msg = StoredSegment(s, k)'.msg, net'[j].seg = k
        PROVE  FALSE
    <2>1. CASE k \in Stored(s) /\ StoredSegment(s, k)' = StoredSegment(s, k)
      BY <1>3, <1>5, <1>7, <2>1
    <2>2. CASE k = net[i].seg /\ StoredSegment(s, k)' = net[i]
      BY <1>1, <1>3, <1>5, <1>7, <2>2
    <2> QED
      BY <2>1, <2>2
  <1> QED
    BY <1>6, <1>7

LEMMA OnceReceive ==
  ASSUME Base, Roomy(scenario), OnceInv, Receive
  PROVE  OnceInv'
  <1>1. Types /\ NetInv
    BY DEF Base
  <1>2. PICK i \in 1 .. Len(net) :
          /\ net[i] \in Datagrams /\ IsSegment(net[i]) /\ net' = RemoveAt(net, i)
          /\ \A s \in Keys : reassembly_queue'[s] = After(net[i], s)
          /\ duplicated' = duplicated
    BY <1>1, ReceiveEffect
  <1>3. \A s \in Keys : \A k \in Stored(s)' :
          \/ k \in Stored(s) /\ StoredSegment(s, k)' = StoredSegment(s, k)
          \/ k = net[i].seg /\ StoredSegment(s, k)' = net[i]
    BY <1>1, <1>2, StoredAfter
  <1> QED
    BY <1>1, <1>2, <1>3, OnceRemoved

LEMMA OnceLose ==
  ASSUME Base, OnceInv, Lose
  PROVE  OnceInv'
  <1>1. Types
    BY DEF Base
  <1>2. PICK i \in 1 .. Len(net) : net' = RemoveAt(net, i)
    BY <1>1, LoseEffect
  <1>3. duplicated' = duplicated /\ reassembly_queue' = reassembly_queue
    BY <1>1, LoseEffect
  <1>4. \A s \in Keys : \A k \in Stored(s)' : k \in Stored(s) /\ StoredSegment(s, k)' = StoredSegment(s, k)
    BY <1>3 DEF Stored, StoredSegment
  <1> QED
    BY <1>1, <1>2, <1>3, <1>4, OnceRemoved

(* The segment that a thread sends next was not sent before. *)
LEMMA OnceSend ==
  ASSUME Base, TimelyInv, EntryInv, OnceInv, NEW t \in Threads, SendSegment(t)
  PROVE  OnceInv'
  <1>1. Types /\ SenderInv /\ NetInv
    BY DEF Base
  <1>2. PICK d \in Datagrams : net' = Append(net, d) /\ d.msg = thread[t].msg /\ d.seg = thread[t].next
    BY <1>1, SendEffect
  <1>3. Busy(t) /\ duplicated' = duplicated /\ reassembly_queue' = reassembly_queue
    BY <1>1, SendEffect DEF Sending, Busy
  <1>4. /\ net \in Seq(Datagrams) /\ DOMAIN net = 1 .. Len(net) /\ Len(net) \in Nat
        /\ DOMAIN net' = 1 .. Len(net) + 1 /\ net'[Len(net) + 1] = d
        /\ \A j \in 1 .. Len(net) : net'[j] = net[j]
    BY <1>1, <1>2 DEF Types
  <1>5. \A j \in DOMAIN net' : j \in DOMAIN net \/ j = Len(net) + 1
    BY <1>4
  <1>6. \A s \in Keys : Stored(s)' = Stored(s) /\ \A k : StoredSegment(s, k)' = StoredSegment(s, k)
    BY <1>3 DEF Stored, StoredSegment
  <1>7. \A j \in DOMAIN net : ~(net[j].msg = d.msg /\ net[j].seg = d.seg)
    <2> SUFFICES ASSUME NEW j \in DOMAIN net, net[j].msg = d.msg, net[j].seg = d.seg PROVE FALSE
      OBVIOUS
    <2>1. net[j].seg < thread[t].next
      BY <1>1, <1>2, <1>3 DEF NetInv
    <2> QED
      BY <1>1, <1>2, <2>1, ThreadFacts
  <1>8. ASSUME NEW s \in Keys, NEW k \in Stored(s), d.msg = StoredSegment(s, k).msg, d.seg = k PROVE FALSE
    <2>1. StoredSegment(s, k) \in Live /\ reassembly_queue[s] # NoEntry
      BY <1>1, LiveFacts, StoredFacts
    <2>2. StoredSegment(s, k).seg < thread[t].next
      BY <1>2, <1>3, <1>8, <2>1 DEF TimelyInv, LiveInv
    <2>3. StoredSegment(s, k).seg = k
      BY <2>1 DEF EntryInv
    <2>4. thread[t].next \in Nat
      BY <1>1, ThreadFacts
    <2>5. StoredSegment(s, k).seg = thread[t].next
      BY <1>2, <1>8, <2>3
    <2> QED
      BY <2>2, <2>4, <2>5
  <1> SUFFICES ASSUME duplicated = 0
               PROVE  /\ \A j, k \in DOMAIN net' : net'[j].msg = net'[k].msg /\ net'[j].seg = net'[k].seg => j = k
                      /\ \A j \in DOMAIN net', s \in Keys : \A k \in Stored(s) :
                           ~(net'[j].msg = StoredSegment(s, k).msg /\ net'[j].seg = k)
    BY <1>3, <1>6 DEF OnceInv
  <1>9. /\ \A j, k \in DOMAIN net : net[j].msg = net[k].msg /\ net[j].seg = net[k].seg => j = k
        /\ \A j \in DOMAIN net, s \in Keys : \A k \in Stored(s) :
             ~(net[j].msg = StoredSegment(s, k).msg /\ net[j].seg = k)
    BY DEF OnceInv
  <1>10. \A j \in DOMAIN net : net'[j] = net[j]
    BY <1>4
  <1>11. \A j, k \in DOMAIN net' : net'[j].msg = net'[k].msg /\ net'[j].seg = net'[k].seg => j = k
    BY <1>4, <1>5, <1>7, <1>9, <1>10
  <1>12. \A j \in DOMAIN net', s \in Keys : \A k \in Stored(s) :
           ~(net'[j].msg = StoredSegment(s, k).msg /\ net'[j].seg = k)
    BY <1>4, <1>5, <1>8, <1>9, <1>10
  <1> QED
    BY <1>11, <1>12

(* Copies that nobody makes or removes. *)
LEMMA OnceKept ==
  ASSUME OnceInv, UNCHANGED <<net, reassembly_queue, duplicated>>
  PROVE  OnceInv'
  <1>1. \A s \in Keys : Stored(s)' = Stored(s) /\ \A k : StoredSegment(s, k)' = StoredSegment(s, k)
    BY DEF Stored, StoredSegment
  <1> QED
    BY <1>1 DEF OnceInv

LEMMA OnceDuplicate ==
  ASSUME Base, Duplicate
  PROVE  OnceInv'
  <1>1. Types
    BY DEF Base
  <1>2. duplicated \in Nat /\ duplicated' = duplicated + 1
    BY <1>1, DuplicateEffect DEF Types
  <1>3. duplicated' # 0
    BY <1>2
  <1> QED
    BY <1>3 DEF OnceInv

(* The segments an entry holds. *)
Held(e) == {k \in Slots : e.segments[k] # NoSegment}

(* The entry after a segment was stored: the segments of one message in    *)
(* their places, and the time at which the first one arrived.              *)
LEMMA JoinedEntry ==
  ASSUME Base, Roomy(scenario), TimelyInv, EntryInv, CopiesInv, OnceInv, StaleInv, NEW i \in DOMAIN net
  PROVE  /\ Held(Joined(net[i])) # {}
         /\ \A k \in Held(Joined(net[i])) :
              /\ IsSegment(Joined(net[i]).segments[k]) /\ Joined(net[i]).segments[k].seg = k
              /\ Joined(net[i]).segments[k].seq = net[i].seq /\ Joined(net[i]).segments[k].msg = net[i].msg
         /\ Joined(net[i]).expected \in {255, Count(net[i].msg)}
         /\ \E then \in 1 .. clock :
              /\ Joined(net[i]).rx_hr_time = TimeHr(then)
              /\ \A k \in Held(Joined(net[i])) : then <= Joined(net[i]).segments[k].at + MaxDelay
         /\ duplicated = 0 => Joined(net[i]).received = Cardinality(Held(Joined(net[i])))
  <1>1. Types /\ NetInv /\ clock \in Nat \ {0}
    BY DEF Base, Types
  <1>2. PICK d \in Datagrams : d = net[i]
    BY <1>1 DEF Types
  <1>3. /\ IsSegment(d) /\ d.msg \in DOMAIN sent /\ d.seq \in Keys /\ d.at \in Nat
        /\ d.at <= clock /\ clock <= d.at + MaxDelay /\ MaxDelay \in Nat
    BY <1>1, <1>2, DatagramFacts, BoundsAssumption DEF NetInv, IsSegment
  <1>4. PICK s \in Keys : s = d.seq
    BY <1>3
  <1>5. PICK e : e = Joined(d)
    OBVIOUS
  <1>6. PICK o : o = reassembly_queue[s]
    OBVIOUS
  <1>7. /\ d.seg \in Slots /\ d # NoSegment
        /\ \A k \in Slots : e.segments[k] = IF k = d.seg THEN d ELSE o.segments[k]
    BY <1>1, <1>3, <1>4, <1>5, <1>6, JoinedFacts
  <1>8. Held(o) = Stored(s) /\ \A k : StoredSegment(s, k) = o.segments[k]
    BY <1>6 DEF Held, Stored, StoredSegment
  <1>9. Held(e) = Stored(s) \cup {d.seg} /\ \A k \in Held(e) : k = d.seg \/ (k \in Stored(s) /\ k # d.seg)
    BY <1>7, <1>8 DEF Held
  <1>10. \A k \in Held(e) : e.segments[k] = IF k = d.seg THEN d ELSE StoredSegment(s, k)
    BY <1>7, <1>8 DEF Held
  <1>11. \A k \in Stored(s) : /\ StoredSegment(s, k).msg = d.msg /\ IsSegment(StoredSegment(s, k))
                              /\ StoredSegment(s, k).seg = k /\ StoredSegment(s, k).seq = s /\ o # NoEntry
    <2> SUFFICES ASSUME NEW k \in Stored(s)
                 PROVE  /\ StoredSegment(s, k).msg = d.msg /\ IsSegment(StoredSegment(s, k))
                        /\ StoredSegment(s, k).seg = k /\ StoredSegment(s, k).seq = s /\ o # NoEntry
      OBVIOUS
    <2>1. StoredSegment(s, k).msg = d.msg
      BY <1>2, <1>4, SameMessage
    <2>2. IsSegment(StoredSegment(s, k)) /\ o # NoEntry
      BY <1>1, <1>6, StoredFacts
    <2> QED
      BY <1>6, <2>1, <2>2 DEF EntryInv
  <1>12. \A k \in Held(e) : /\ IsSegment(e.segments[k]) /\ e.segments[k].seg = k
                            /\ e.segments[k].seq = s /\ e.segments[k].msg = d.msg
    BY <1>3, <1>4, <1>9, <1>10, <1>11
  <1>13. ~d.more => d.seg + 1 = Count(d.msg)
    BY <1>3 DEF IsSegment
  <1>14. CASE o = NoEntry
    <2>1. e.received = 1 /\ e.expected = Expected(d, 255) /\ e.rx_hr_time = TimeHr(clock)
      BY <1>1, <1>3, <1>4, <1>5, <1>6, <1>14, JoinedFacts
    <2>2. Stored(s) = {}
      BY <1>11, <1>14
    <2>3. Held(e) = {d.seg}
      BY <1>9, <2>2
    <2>4. e.expected \in {255, Count(d.msg)}
      BY <1>13, <2>1 DEF Expected
    <2>5. clock \in 1 .. clock
      BY <1>1
    <2>6. \A k \in Held(e) : clock <= e.segments[k].at + MaxDelay
      BY <1>3, <1>10, <2>3
    <2>7. Cardinality(Held(e)) = 1
      BY <2>3, FS_Singleton
    <2> QED
      BY <1>2, <1>4, <1>5, <1>12, <2>1, <2>3, <2>4, <2>5, <2>6, <2>7
  <1>15. CASE o # NoEntry
    <2>1. e.expected = Expected(d, o.expected) /\ e.rx_hr_time = o.rx_hr_time
      BY <1>1, <1>3, <1>4, <1>5, <1>6, <1>15, JoinedFacts
    <2>2. PICK k0 \in Stored(s) : o.expected \in {255, Count(StoredSegment(s, k0).msg)}
      BY <1>6, <1>15 DEF EntryInv
    <2>3. e.expected \in {255, Count(d.msg)}
      BY <1>11, <1>13, <2>1, <2>2 DEF Expected
    <2>4. PICK then \in 1 .. clock :
            o.rx_hr_time = TimeHr(then) /\ \A k \in Stored(s) : then <= StoredSegment(s, k).at + MaxDelay
      BY <1>6, <1>15 DEF EntryInv
    <2>5. then <= d.at + MaxDelay
      BY <1>1, <1>3
    <2>6. \A k \in Held(e) : then <= e.segments[k].at + MaxDelay
      BY <1>9, <1>10, <2>4, <2>5
    <2>7. ASSUME duplicated = 0 PROVE e.received = Cardinality(Held(e))
      <3>1. d.seg \notin Stored(s)
        BY <1>2, <1>11, <2>7 DEF OnceInv
      <3>2. IsFiniteSet(Stored(s))
        <4>1. IsFiniteSet(Slots) /\ Stored(s) \in SUBSET Slots
          BY FS_Interval, SegmentsAssumption DEF Slots, Stored
        <4> QED
          BY <4>1, FS_Subset
      <3>3. Cardinality(Stored(s) \cup {d.seg}) = Cardinality(Stored(s)) + 1
        BY <3>1, <3>2, FS_AddElement
      <3>4. o.received = Cardinality(Stored(s))
        BY <1>6, <1>15, <2>7 DEF EntryInv
      <3>5. e.received = o.received + 1
        BY <1>2, <1>4, <1>5, <1>6, <1>15, JoinedCount
      <3> QED
        BY <1>9, <3>3, <3>4, <3>5
    <2> QED
      BY <1>2, <1>4, <1>5, <1>9, <1>12, <2>1, <2>3, <2>4, <2>6, <2>7
  <1> QED
    BY <1>14, <1>15

(* Entries of a receiver that does nothing. *)
LEMMA EntryKept ==
  ASSUME Types, TimelyInv, EntryInv, reassembly_queue' = reassembly_queue, clock' \in {clock, clock + 1},
         duplicated' = duplicated \/ duplicated' # 0,
         \A m \in DOMAIN sent : m \in DOMAIN sent' /\ sent'[m] = sent[m]
  PROVE  EntryInv'
  <1>1. \A s \in Keys : Stored(s)' = Stored(s) /\ \A k : StoredSegment(s, k)' = StoredSegment(s, k)
    BY DEF Stored, StoredSegment
  <1>2. \A then : then \in 1 .. clock => then \in 1 .. clock'
    BY DEF Types
  <1>3. \A s \in Keys : \A k \in Stored(s) : Count(StoredSegment(s, k).msg)' = Count(StoredSegment(s, k).msg)
    <2> SUFFICES ASSUME NEW s \in Keys, NEW k \in Stored(s)
                 PROVE  Count(StoredSegment(s, k).msg)' = Count(StoredSegment(s, k).msg)
      OBVIOUS
    <2>1. PICK m \in DOMAIN sent : m = StoredSegment(s, k).msg
      BY StoredFacts
    <2>2. Count(m)' = Count(m)
      BY SegmentStays
    <2> QED
      BY <1>1, <2>1, <2>2
  <1> SUFFICES ASSUME NEW s \in Keys, reassembly_queue[s] # NoEntry
               PROVE  /\ Stored(s)' # {}
                      /\ \A k \in Stored(s)' :
                           /\ StoredSegment(s, k)'.seg = k /\ StoredSegment(s, k)'.seq = s
                           /\ \A l \in Stored(s)' : StoredSegment(s, k)'.msg = StoredSegment(s, l)'.msg
                           /\ reassembly_queue[s].expected \in {255, Count(StoredSegment(s, k).msg)'}
                      /\ \E then \in 1 .. clock' :
                           /\ reassembly_queue[s].rx_hr_time = TimeHr(then)
                           /\ \A k \in Stored(s)' : then <= StoredSegment(s, k)'.at + MaxDelay
                      /\ duplicated' = 0 => reassembly_queue[s].received = Cardinality(Stored(s)')
    BY DEF EntryInv
  <1>4. /\ Stored(s) # {}
        /\ \A k \in Stored(s) :
             /\ StoredSegment(s, k).seg = k /\ StoredSegment(s, k).seq = s
             /\ \A l \in Stored(s) : StoredSegment(s, k).msg = StoredSegment(s, l).msg
             /\ reassembly_queue[s].expected \in {255, Count(StoredSegment(s, k).msg)}
        /\ \E then \in 1 .. clock :
             /\ reassembly_queue[s].rx_hr_time = TimeHr(then)
             /\ \A k \in Stored(s) : then <= StoredSegment(s, k).at + MaxDelay
        /\ duplicated = 0 => reassembly_queue[s].received = Cardinality(Stored(s))
    BY DEF EntryInv
  <1>5. \A k \in Stored(s)' : reassembly_queue[s].expected \in {255, Count(StoredSegment(s, k).msg)'}
    BY <1>1, <1>3, <1>4
  <1> QED
    BY <1>1, <1>2, <1>4, <1>5

LEMMA EntryReceive ==
  ASSUME Base, Roomy(scenario), TimelyInv, EntryInv, CopiesInv, OnceInv, StaleInv, Receive
  PROVE  EntryInv'
  <1>1. Types /\ NetInv
    BY DEF Base
  <1>2. PICK i \in 1 .. Len(net) :
          /\ net[i] \in Datagrams /\ IsSegment(net[i])
          /\ \A s \in Keys : reassembly_queue'[s] = After(net[i], s)
          /\ UNCHANGED <<clock, sent, duplicated>>
    BY <1>1, ReceiveEffect
  <1>3. i \in DOMAIN net
    BY <1>1 DEF Types
  <1>4. PICK d \in Datagrams : d = net[i]
    BY <1>2
  <1>5. \A m : Count(m)' = Count(m)
    BY <1>2 DEF Count
  <1> SUFFICES ASSUME NEW s \in Keys, reassembly_queue'[s] # NoEntry
               PROVE  /\ Stored(s)' # {}
                      /\ \A k \in Stored(s)' :
                           /\ StoredSegment(s, k)'.seg = k /\ StoredSegment(s, k)'.seq = s
                           /\ \A l \in Stored(s)' : StoredSegment(s, k)'.msg = StoredSegment(s, l)'.msg
                           /\ reassembly_queue'[s].expected \in {255, Count(StoredSegment(s, k)'.msg)}
                      /\ \E then \in 1 .. clock :
                           /\ reassembly_queue'[s].rx_hr_time = TimeHr(then)
                           /\ \A k \in Stored(s)' : then <= StoredSegment(s, k)'.at + MaxDelay
                      /\ duplicated = 0 => reassembly_queue'[s].received = Cardinality(Stored(s)')
    BY <1>2, <1>5 DEF EntryInv
  <1>6. CASE reassembly_queue'[s] = reassembly_queue[s]
    <2>1. Stored(s)' = Stored(s) /\ \A k : StoredSegment(s, k)' = StoredSegment(s, k)
      BY <1>6 DEF Stored, StoredSegment
    <2> QED
      BY <1>6, <2>1 DEF EntryInv
  <1>7. CASE s = d.seq /\ reassembly_queue'[s] = Joined(d)
    <2>1. Stored(s)' = Held(Joined(d)) /\ \A k : StoredSegment(s, k)' = Joined(d).segments[k]
      BY <1>7 DEF Stored, StoredSegment, Held
    <2>2. /\ Held(Joined(d)) # {}
          /\ \A k \in Held(Joined(d)) :
               /\ IsSegment(Joined(d).segments[k]) /\ Joined(d).segments[k].seg = k
               /\ Joined(d).segments[k].seq = d.seq /\ Joined(d).segments[k].msg = d.msg
          /\ Joined(d).expected \in {255, Count(d.msg)}
          /\ \E then \in 1 .. clock :
               /\ Joined(d).rx_hr_time = TimeHr(then)
               /\ \A k \in Held(Joined(d)) : then <= Joined(d).segments[k].at + MaxDelay
          /\ duplicated = 0 => Joined(d).received = Cardinality(Held(Joined(d)))
      BY <1>3, <1>4, JoinedEntry
    <2> QED
      BY <1>7, <2>1, <2>2
  <1> QED
    BY <1>1, <1>2, <1>4, <1>6, <1>7, Survivors

(* A message that counts as complete is sound: without duplicates each     *)
(* segment was counted once, so none is missing.                           *)
LEMMA CompleteSound ==
  ASSUME Base, Roomy(scenario), TimelyInv, EntryInv, CopiesInv, OnceInv, StaleInv, NEW i \in DOMAIN net,
         Joined(net[i]).received = Joined(net[i]).expected
  PROVE  Concatenate(Joined(net[i])) \in Seq(Chunks0) /\ Sound(Concatenate(Joined(net[i])))
  <1>1. Types /\ NetInv
    BY DEF Base
  <1>2. PICK d \in Datagrams : d = net[i]
    BY <1>1 DEF Types
  <1>3. IsSegment(d) /\ d.msg \in DOMAIN sent
    BY <1>1, <1>2 DEF NetInv, IsSegment
  <1>4. PICK m \in DOMAIN sent : m = d.msg
    BY <1>3
  <1>5. PICK e \in Entries : e = Joined(d)
    BY <1>1, <1>3, JoinedFacts
  <1>6. /\ \A k \in Held(e) : /\ IsSegment(e.segments[k]) /\ e.segments[k].seg = k
                              /\ e.segments[k].msg = m
        /\ e.expected \in {255, Count(m)}
        /\ duplicated = 0 => e.received = Cardinality(Held(e))
    BY <1>2, <1>4, <1>5, JoinedEntry
  <1>7. PICK n \in Nat : n = Count(m) /\ n <= MaxSegments /\ MaxSegments \in Nat
    BY <1>1, CountFacts
  <1>8. e.received \in 1 .. 254 /\ e.received = e.expected
    BY <1>2, <1>5, JoinedCount
  <1>9. e.expected = n /\ e.received = n
    BY <1>6, <1>7, <1>8
  <1>10. \A k \in 0 .. n - 1 : k \in Slots
    BY <1>7 DEF Slots
  <1>11. ASSUME duplicated = 0, NEW k \in 0 .. n - 1 PROVE k \in Held(e)
    <2>1. Held(e) \in SUBSET (0 .. n - 1)
      <3> SUFFICES ASSUME NEW l \in Held(e) PROVE l \in 0 .. n - 1
        OBVIOUS
      <3>1. l < n /\ l \in Nat
        BY <1>6, <1>7 DEF IsSegment, Held, Slots
      <3> QED
        BY <3>1
    <2>2. IsFiniteSet(0 .. n - 1) /\ Cardinality(0 .. n - 1) = n
      BY FS_Interval
    <2>3. Cardinality(Held(e)) = n
      BY <1>6, <1>9, <1>11
    <2>4. Held(e) = 0 .. n - 1
      BY <2>1, <2>2, <2>3, FS_Subset
    <2> QED
      BY <2>4
  <1>12. duplicated \in Nat
    BY <1>1 DEF Types
  <1>13. ASSUME NEW k \in 0 .. Count(m) - 1
         PROVE  \/ IsSegment(e.segments[k]) /\ e.segments[k].msg = m /\ e.segments[k].seg = k
                \/ duplicated > 0 /\ e.segments[k] = NoSegment
    <2>1. k \in 0 .. n - 1 /\ k \in Slots
      BY <1>7, <1>10
    <2>2. CASE k \in Held(e)
      BY <1>6, <2>2
    <2>3. CASE k \notin Held(e)
      <3>1. duplicated # 0
        BY <1>11, <2>1, <2>3
      <3>2. duplicated > 0
        BY <1>12, <3>1
      <3>3. e.segments[k] = NoSegment
        BY <2>1, <2>3 DEF Held
      <3> QED
        BY <3>2, <3>3
    <2> QED
      BY <2>2, <2>3
  <1>14. e.expected = Count(m)
    BY <1>7, <1>9
  <1>15. Concatenate(e) \in Seq(Chunks0) /\ Sound(Concatenate(e))
    BY <1>1, <1>13, <1>14, ConcatenateSound
  <1> QED
    BY <1>2, <1>5, <1>15

LEMMA SoundReceive ==
  ASSUME Base, Roomy(scenario), TimelyInv, EntryInv, CopiesInv, OnceInv, StaleInv, SoundDispatched, Receive
  PROVE  SoundDispatched'
  <1>1. Types /\ NetInv
    BY DEF Base
  <1>2. PICK i \in 1 .. Len(net) :
          /\ net[i] \in Datagrams /\ IsSegment(net[i])
          /\ Whole(net[i]) => dispatched' = Append(dispatched, <<Chunk(net[i])>>)
          /\ ~Whole(net[i]) =>
               dispatched' = IF Joined(net[i]).received = Joined(net[i]).expected
                             THEN Append(dispatched, Concatenate(Joined(net[i]))) ELSE dispatched
          /\ UNCHANGED <<sent, duplicated>>
    BY <1>1, ReceiveEffect
  <1>3. i \in DOMAIN net
    BY <1>1 DEF Types
  <1>4. CASE Whole(net[i])
    <2>1. PICK c : c = <<Chunk(net[i])>>
      OBVIOUS
    <2>2. c \in Seq(Chunks0) /\ Sound(c)
      BY <1>1, <1>2, <1>4, <2>1, WholeSound
    <2> QED
      BY <1>1, <1>2, <1>4, <2>1, <2>2, DispatchSound
  <1>5. CASE ~Whole(net[i]) /\ Joined(net[i]).received = Joined(net[i]).expected
    <2>1. PICK c : c = Concatenate(Joined(net[i]))
      OBVIOUS
    <2>2. c \in Seq(Chunks0) /\ Sound(c)
      BY <1>3, <1>5, <2>1, CompleteSound
    <2> QED
      BY <1>1, <1>2, <1>5, <2>1, <2>2, DispatchSound
  <1>6. CASE ~Whole(net[i]) /\ Joined(net[i]).received # Joined(net[i]).expected
    <2>1. dispatched' = dispatched
      BY <1>2, <1>6
    <2>2. \A c : Sound(c) => Sound(c)'
      BY <1>1, <1>2, SoundStays DEF Types
    <2> QED
      BY <2>1, <2>2 DEF SoundDispatched
  <1> QED
    BY <1>4, <1>5, <1>6

(* What was dispatched when nothing arrives. *)
LEMMA SoundKept ==
  ASSUME SoundDispatched, dispatched' = dispatched, duplicated \in Nat, duplicated' \in {duplicated, duplicated + 1},
         \A m \in DOMAIN sent : m \in DOMAIN sent' /\ sent'[m] = sent[m]
  PROVE  SoundDispatched'
  <1>1. duplicated' >= duplicated /\ duplicated' \in Nat
    OBVIOUS
  <1>2. \A c : Sound(c) => Sound(c)'
    BY <1>1, SoundStays
  <1> QED
    BY <1>2 DEF SoundDispatched

LEMMA RoomyInit == Init => RoomyInv
  <1> SUFFICES ASSUME Init PROVE RoomyInv
    OBVIOUS
  <1>1. TimelyInv
    BY TimelyInit
  <1>2. net = <<>> /\ sent = <<>> /\ dispatched = <<>> /\ \A s \in Keys : reassembly_queue[s] = NoEntry
    BY DEF Init, Keys
  <1>3. \A s \in Keys : Stored(s) = {}
    BY <1>2, EntryTypes DEF Stored
  <1>4. DOMAIN net = {} /\ DOMAIN sent = {} /\ DOMAIN dispatched = {}
    BY <1>2
  <1>5. EntryInv /\ CopiesInv /\ OnceInv /\ StaleInv
    BY <1>2, <1>3, <1>4 DEF EntryInv, CopiesInv, OnceInv, StaleInv
  <1>6. SoundDispatched
    <2> DEFINE S == Seq(Chunks0)
    <2> HIDE DEF S
    <2>1. dispatched \in Seq(S)
      BY <1>2
    <2> QED
      BY <1>4, <2>1 DEF SoundDispatched, S
  <1> QED
    BY <1>1, <1>5, <1>6 DEF RoomyInv

LEMMA RoomyStart ==
  ASSUME Base, Roomy(scenario), RoomyInv, NEW t \in Threads, StartSend(t)
  PROVE  RoomyInv'
  <1>1. Types /\ TimelyInv /\ EntryInv /\ CopiesInv /\ OnceInv /\ StaleInv /\ SoundDispatched /\ duplicated \in Nat
    BY DEF RoomyInv, Base, Types
  <1>2. /\ \A m \in DOMAIN sent : m \in DOMAIN sent' /\ sent'[m] = sent[m]
        /\ UNCHANGED <<clock, net, duplicated, reassembly_queue, dispatched>>
    BY <1>1, StartEffect
  <1>3. TimelyInv'
    BY <1>1, TimelyStart
  <1>4. EntryInv'
    BY <1>1, <1>2, EntryKept
  <1>5. CopiesInv'
    BY <1>1, CopiesStart
  <1>6. OnceInv'
    BY <1>1, <1>2, OnceKept
  <1>7. StaleInv'
    BY <1>1, StaleStart
  <1>8. SoundDispatched'
    BY <1>1, <1>2, SoundKept
  <1> QED
    BY <1>3, <1>4, <1>5, <1>6, <1>7, <1>8 DEF RoomyInv

LEMMA RoomyLock ==
  ASSUME Base, Roomy(scenario), RoomyInv, NEW t \in Threads, LockPackMutex(t)
  PROVE  RoomyInv'
  <1>1. Types /\ TimelyInv /\ EntryInv /\ CopiesInv /\ OnceInv /\ StaleInv /\ SoundDispatched /\ duplicated \in Nat
    BY DEF RoomyInv, Base, Types
  <1>2. UNCHANGED <<clock, sent, net, duplicated, reassembly_queue, dispatched>>
    BY <1>1, LockEffect
  <1>3. TimelyInv'
    BY <1>1, TimelyLock
  <1>4. EntryInv'
    BY <1>1, <1>2, EntryKept
  <1>5. CopiesInv'
    BY <1>1, CopiesLock
  <1>6. OnceInv'
    BY <1>1, <1>2, OnceKept
  <1>7. StaleInv'
    BY <1>1, StaleLock
  <1>8. SoundDispatched'
    BY <1>1, <1>2, SoundKept
  <1> QED
    BY <1>3, <1>4, <1>5, <1>6, <1>7, <1>8 DEF RoomyInv

LEMMA RoomySend ==
  ASSUME Base, Roomy(scenario), RoomyInv, NEW t \in Threads, SendSegment(t)
  PROVE  RoomyInv'
  <1>1. Types /\ TimelyInv /\ EntryInv /\ CopiesInv /\ OnceInv /\ StaleInv /\ SoundDispatched /\ duplicated \in Nat
    BY DEF RoomyInv, Base, Types
  <1>2. UNCHANGED <<clock, sent, duplicated, reassembly_queue, dispatched>>
    BY <1>1, SendEffect DEF Base
  <1>3. TimelyInv'
    BY <1>1, TimelySend
  <1>4. EntryInv'
    BY <1>1, <1>2, EntryKept
  <1>5. CopiesInv'
    BY <1>1, CopiesSend
  <1>6. OnceInv'
    BY <1>1, OnceSend
  <1>7. StaleInv'
    BY <1>1, StaleSend
  <1>8. SoundDispatched'
    BY <1>1, <1>2, SoundKept
  <1> QED
    BY <1>3, <1>4, <1>5, <1>6, <1>7, <1>8 DEF RoomyInv

LEMMA RoomyReceive ==
  ASSUME Base, Roomy(scenario), RoomyInv, Receive
  PROVE  RoomyInv'
  <1>1. Types /\ TimelyInv /\ EntryInv /\ CopiesInv /\ OnceInv /\ StaleInv /\ SoundDispatched
    BY DEF RoomyInv, Base
  <1>2. TimelyInv'
    <2>1. UNCHANGED <<scenario, sent, sequence_number, thread>>
      BY DEF Receive
    <2> QED
      BY <1>1, <2>1, LiveReceive, TimelyKept
  <1> QED
    BY <1>1, <1>2, EntryReceive, CopiesReceive, OnceReceive, StaleReceive, SoundReceive DEF RoomyInv

(* The datagrams under way stay what they are and so does the queue. *)
LEMMA LiveKept ==
  ASSUME NetStays, reassembly_queue' = reassembly_queue
  PROVE  Live' \subseteq Live
  <1>1. \A s \in Keys : Stored(s)' = Stored(s) /\ \A k : StoredSegment(s, k)' = StoredSegment(s, k)
    BY DEF Stored, StoredSegment
  <1> QED
    BY <1>1 DEF Live, NetStays

LEMMA RoomyLose ==
  ASSUME Base, RoomyInv, Lose
  PROVE  RoomyInv'
  <1>1. Types /\ TimelyInv /\ EntryInv /\ CopiesInv /\ OnceInv /\ StaleInv /\ SoundDispatched /\ duplicated \in Nat
    BY DEF RoomyInv, Base, Types
  <1>2. PICK i \in 1 .. Len(net) : net' = RemoveAt(net, i)
    BY <1>1, LoseEffect
  <1>3. UNCHANGED <<scenario, clock, sent, sequence_number, thread, duplicated, reassembly_queue, dispatched>>
    BY <1>1, LoseEffect
  <1>4. TimelyInv'
    BY <1>1, <1>2, <1>3, RemovedStays, LiveKept, TimelyKept
  <1>5. EntryInv'
    BY <1>1, <1>3, EntryKept
  <1>6. CopiesInv' /\ OnceInv' /\ StaleInv'
    BY <1>1, CopiesLose, OnceLose, StaleLose
  <1>7. SoundDispatched'
    BY <1>1, <1>3, SoundKept
  <1> QED
    BY <1>4, <1>5, <1>6, <1>7 DEF RoomyInv

LEMMA RoomyDuplicate ==
  ASSUME Base, RoomyInv, Duplicate
  PROVE  RoomyInv'
  <1>1. Types /\ TimelyInv /\ EntryInv /\ CopiesInv /\ OnceInv /\ StaleInv /\ SoundDispatched /\ duplicated \in Nat
    BY DEF RoomyInv, Base, Types
  <1>2. PICK i \in 1 .. Len(net) : net' = InsertAt(net, i, net[i])
    BY <1>1, DuplicateEffect
  <1>3. /\ UNCHANGED <<scenario, clock, sent, sequence_number, thread, reassembly_queue, dispatched>>
        /\ duplicated' = duplicated + 1
    BY <1>1, DuplicateEffect
  <1>4. TimelyInv'
    BY <1>1, <1>2, <1>3, InsertedStays, LiveKept, TimelyKept
  <1>5. EntryInv'
    <2>1. duplicated' # 0
      BY <1>1, <1>3
    <2> QED
      BY <1>1, <1>3, <2>1, EntryKept
  <1>6. CopiesInv' /\ OnceInv' /\ StaleInv'
    BY <1>1, CopiesDuplicate, OnceDuplicate, StaleDuplicate
  <1>7. SoundDispatched'
    BY <1>1, <1>3, SoundKept
  <1> QED
    BY <1>4, <1>5, <1>6, <1>7 DEF RoomyInv

LEMMA RoomyTick ==
  ASSUME Base, RoomyInv, Tick
  PROVE  RoomyInv'
  <1>1. Types /\ TimelyInv /\ EntryInv /\ CopiesInv /\ OnceInv /\ StaleInv /\ SoundDispatched /\ duplicated \in Nat
    BY DEF RoomyInv, Base, Types
  <1>2. /\ UNCHANGED <<scenario, sent, sequence_number, thread, net, duplicated, reassembly_queue, dispatched>>
        /\ clock' = clock + 1
    BY DEF Tick
  <1>3. NetStays
    BY <1>1, <1>2 DEF NetStays, Types
  <1>4. TimelyInv'
    BY <1>2, <1>1, <1>3, LiveKept, TimelyKept
  <1>5. EntryInv'
    BY <1>1, <1>2, EntryKept
  <1>6. CopiesInv' /\ StaleInv'
    BY <1>1, CopiesTick, StaleTick
  <1>7. OnceInv'
    BY <1>1, <1>2, OnceKept
  <1>8. SoundDispatched'
    BY <1>1, <1>2, SoundKept
  <1> QED
    BY <1>4, <1>5, <1>6, <1>7, <1>8 DEF RoomyInv

LEMMA RoomyNext == Base /\ Roomy(scenario) /\ RoomyInv /\ [Next]_vars => RoomyInv'
  <1> SUFFICES ASSUME Base, Roomy(scenario), RoomyInv, [Next]_vars PROVE RoomyInv'
    OBVIOUS
  <1>1. CASE UNCHANGED vars
    <2>1. Types /\ TimelyInv /\ EntryInv /\ CopiesInv /\ OnceInv /\ StaleInv /\ SoundDispatched /\ duplicated \in Nat
      BY DEF RoomyInv, Base, Types
    <2>2. UNCHANGED <<scenario, clock, sent, sequence_number, thread, net, lost, duplicated, reassembly_queue, dispatched>>
      BY <1>1 DEF vars
    <2>3. NetStays
      BY <2>1, <2>2 DEF NetStays, Types
    <2>4. TimelyInv' /\ EntryInv' /\ OnceInv' /\ SoundDispatched'
      BY <2>1, <2>2, <2>3, LiveKept, TimelyKept, EntryKept, OnceKept, SoundKept
    <2>5. CopiesInv'
      BY <2>1, <2>2 DEF CopiesInv, Within, Stored, StoredSegment, InNet, Count, Threads, Busy
    <2>6. StaleInv'
      BY <2>1, <2>2 DEF StaleInv, Stored, StoredSegment, Missing, InNet, Threads, Busy
    <2> QED
      BY <2>4, <2>5, <2>6 DEF RoomyInv
  <1>2. CASE Next
    BY <1>2, RoomyStart, RoomyLock, RoomySend, RoomyReceive, RoomyLose, RoomyDuplicate, RoomyTick DEF Next
  <1> QED
    BY <1>1, <1>2

-----------------------------------------------------------------------------
(* What is dispatched.                                                     *)

(* The pieces of a message, one after the other. *)
LEMMA PiecesTile ==
  ASSUME Types, NEW m \in DOMAIN sent
  PROVE  /\ Piece(m, 0).from = HeaderLength /\ Piece(m, Count(m) - 1).to = sent[m]
         /\ \A k \in Nat : Piece(m, k).msg = m /\ Piece(m, k) # Hole
         /\ \A k \in Nat : k + 1 < Count(m) => Piece(m, k + 1).from = Piece(m, k).to
  <1>1. Count(m) \in Nat \ {0} /\ m \in Nat \ {0}
    BY CountFacts
  <1>2. SegBody \in Nat /\ HeaderLength \in Nat
    BY Sizes
  <1>3. Piece(m, 0).from = HeaderLength
    <2>1. SegBody * 0 = 0
      BY <1>2
    <2> QED
      BY <1>2, <2>1 DEF Piece
  <1>4. Piece(m, Count(m) - 1).to = sent[m]
    <2>1. (Count(m) - 1) + 1 = Count(m)
      BY <1>1
    <2> QED
      BY <2>1 DEF Piece
  <1>5. \A k \in Nat : Piece(m, k).msg = m /\ Piece(m, k) # Hole
    <2>1. Hole.msg = 0
      BY DEF Hole
    <2>2. \A k \in Nat : Piece(m, k).msg = m
      BY DEF Piece
    <2> QED
      BY <1>1, <2>1, <2>2
  <1>6. ASSUME NEW k \in Nat, k + 1 < Count(m) PROVE Piece(m, k + 1).from = Piece(m, k).to
    <2>1. k + 1 # Count(m)
      BY <1>1, <1>6
    <2>2. Piece(m, k + 1).from = HeaderLength + SegBody * (k + 1)
      BY DEF Piece
    <2>3. Piece(m, k).to = HeaderLength + SegBody * k + SegBody
      BY <2>1 DEF Piece
    <2>4. PICK x \in Nat : x = SegBody
      BY <1>2
    <2>5. x * (k + 1) = x * k + x /\ x * k \in Nat
      OBVIOUS
    <2> QED
      BY <1>2, <2>2, <2>3, <2>4, <2>5
  <1> QED
    BY <1>3, <1>4, <1>5, <1>6

LEMMA SoundOneSource == Types /\ SoundDispatched => OneSource
  <1> SUFFICES ASSUME Types, SoundDispatched, NEW k \in DOMAIN dispatched,
                      NEW c1 \in Chunks(dispatched[k]) \ {Hole}, NEW c2 \in Chunks(dispatched[k]) \ {Hole}
               PROVE  c1.msg = c2.msg
    BY DEF OneSource
  <1>1. PICK s \in Seq(Chunks0) : s = dispatched[k]
    BY DEF SoundDispatched
  <1>2. PICK m \in DOMAIN sent :
          \A i \in 1 .. Len(s) : s[i] = Piece(m, i - 1) \/ (duplicated > 0 /\ s[i] = Hole)
    BY <1>1 DEF SoundDispatched, Sound
  <1>3. \A j \in Nat : Piece(m, j).msg = m
    BY PiecesTile
  <1>4. DOMAIN s = 1 .. Len(s) /\ Len(s) \in Nat
    BY <1>1
  <1>5. ASSUME NEW i \in DOMAIN s, s[i] # Hole PROVE s[i].msg = m
    <2>1. i - 1 \in Nat /\ i \in 1 .. Len(s)
      BY <1>4
    <2> QED
      BY <1>2, <1>3, <1>5, <2>1
  <1>6. PICK i \in DOMAIN s : c1 = s[i]
    BY <1>1 DEF Chunks
  <1>7. PICK j \in DOMAIN s : c2 = s[j]
    BY <1>1 DEF Chunks
  <1> QED
    BY <1>5, <1>6, <1>7

LEMMA SoundIntact == Types /\ SoundDispatched => Intact
  <1> SUFFICES ASSUME Types, SoundDispatched, duplicated = 0, NEW k \in DOMAIN dispatched, NEW s, s = dispatched[k]
               PROVE  /\ s # <<>> /\ Hole \notin Chunks(s)
                      /\ s[1].from = HeaderLength /\ s[Len(s)].to = sent[s[1].msg]
                      /\ \A i \in 2 .. Len(s) : s[i].msg = s[1].msg /\ s[i].from = s[i - 1].to
    BY DEF Intact
  <1>1. s \in Seq(Chunks0)
    BY DEF SoundDispatched
  <1>2. PICK m \in DOMAIN sent :
          /\ Len(s) = Count(m)
          /\ \A i \in 1 .. Len(s) : s[i] = Piece(m, i - 1) \/ (duplicated > 0 /\ s[i] = Hole)
    BY DEF SoundDispatched, Sound
  <1>3. PICK n \in Nat : n = Count(m) /\ n >= 1
    BY CountFacts
  <1>4. DOMAIN s = 1 .. n /\ Len(s) = n
    BY <1>1, <1>2, <1>3
  <1>5. \A i \in 1 .. n : s[i] = Piece(m, i - 1)
    BY <1>2, <1>3
  <1>6. /\ Piece(m, 0).from = HeaderLength /\ Piece(m, n - 1).to = sent[m]
        /\ \A j \in Nat : Piece(m, j).msg = m /\ Piece(m, j) # Hole
        /\ \A j \in Nat : j + 1 < n => Piece(m, j + 1).from = Piece(m, j).to
    BY <1>3, PiecesTile
  <1>7. s # <<>>
    BY <1>3, <1>4
  <1>8. \A i \in 1 .. n : i - 1 \in Nat
    OBVIOUS
  <1>9. Hole \notin Chunks(s)
    BY <1>4, <1>5, <1>6, <1>8 DEF Chunks
  <1>10. s[1] = Piece(m, 0) /\ s[n] = Piece(m, n - 1)
    <2>1. 1 \in 1 .. n /\ n \in 1 .. n /\ 1 - 1 = 0
      BY <1>3
    <2> QED
      BY <1>5, <2>1
  <1>11. s[1].from = HeaderLength /\ s[1].msg = m /\ s[n].to = sent[m]
    BY <1>6, <1>10
  <1>12. ASSUME NEW i \in 2 .. n PROVE s[i].msg = s[1].msg /\ s[i].from = s[i - 1].to
    <2>1. PICK j \in Nat : i = j + 2 /\ j + 1 < n
      <3>1. i - 2 \in Nat /\ i = (i - 2) + 2 /\ (i - 2) + 1 < n
        BY <1>3
      <3> QED
        BY <3>1
    <2>2. i \in 1 .. n /\ j + 1 \in 1 .. n /\ i - 1 = j + 1 /\ (j + 1) - 1 = j /\ j + 1 \in Nat
      BY <1>3, <2>1
    <2>3. s[i] = Piece(m, j + 1) /\ s[i - 1] = Piece(m, j)
      BY <1>5, <2>2
    <2> QED
      BY <1>6, <1>11, <2>1, <2>2, <2>3
  <1> QED
    BY <1>4, <1>7, <1>9, <1>11, <1>12

(* The inductive invariant of both. *)
ReassemblyInv ==
  Base /\ (Orderly(scenario) => QuietInv) /\ (Roomy(scenario) => RoomyInv)

LEMMA ReassemblyAlways == Spec => []ReassemblyInv
  <1>1. Init => ReassemblyInv
    BY BaseInit, QuietInit, RoomyInit DEF ReassemblyInv
  <1>2. ReassemblyInv /\ [Next]_vars => ReassemblyInv'
    <2> SUFFICES ASSUME ReassemblyInv, [Next]_vars PROVE ReassemblyInv'
      OBVIOUS
    <2>1. scenario' = scenario
      BY DEF Next, vars, StartSend, LockPackMutex, SendSegment, Receive, Lose, Duplicate, Tick
    <2>2. Orderly(scenario)' = Orderly(scenario) /\ Roomy(scenario)' = Roomy(scenario)
      BY <2>1 DEF Orderly, Roomy
    <2> QED
      BY <2>2, BaseNext, QuietNext, RoomyNext DEF ReassemblyInv
  <1> QED
    BY <1>1, <1>2, PTL DEF Spec

LEMMA ReassemblySound ==
  ASSUME ReassemblyInv, Roomy(scenario) \/ Steady(scenario)
  PROVE  Types /\ SoundDispatched
  <1>1. Types
    BY DEF ReassemblyInv, Base
  <1>2. CASE Roomy(scenario)
    BY <1>1, <1>2 DEF ReassemblyInv, RoomyInv
  <1>3. CASE Steady(scenario)
    <2>1. lost = 0 /\ duplicated = 0
      BY <1>1, <1>3 DEF Steady, Types
    <2> QED
      BY <1>1, <1>3, <2>1 DEF Steady, ReassemblyInv, QuietInv, Quiet, Flow
  <1> QED
    BY <1>2, <1>3

(* Segments of two messages are never joined, although the numbers come    *)
(* round and datagrams are lost, duplicated and reordered: if one thread   *)
(* sends, stale entries are looked for with every datagram, and there are  *)
(* more sequence numbers than messages that start while a datagram         *)
(* travels, an entry ages and all the faults strike.  Over a network that  *)
(* does no harm it needs only that the segments of a message stay          *)
(* together.                                                               *)
THEOREM NeverMixed ==
  ASSUME \A s \in Scenarios : Roomy(s) \/ Steady(s)
  PROVE  Spec => []OneSource
  <1>1. ReassemblyInv => OneSource
    BY ReassemblySound, SoundOneSource DEF ReassemblyInv, Base, Types
  <1> QED
    BY <1>1, ReassemblyAlways, PTL

(* What is dispatched is a sent message from its first byte to its last,   *)
(* under the same conditions, as long as nothing was duplicated.           *)
THEOREM NeverTorn ==
  ASSUME \A s \in Scenarios : Roomy(s) \/ Steady(s)
  PROVE  Spec => []Intact
  <1>1. ReassemblyInv => Intact
    BY ReassemblySound, SoundIntact DEF ReassemblyInv, Base, Types
  <1> QED
    BY <1>1, ReassemblyAlways, PTL

=============================================================================
