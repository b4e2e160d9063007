---------------------------- MODULE P7Transport ----------------------------
(* One direction of the P7 link: *_pack_and_send_p7_message on the sending   *)
(* side cuts a packed message into segments, UDP carries them, and           *)
(* *_handle_p7_message on the other side puts them together again.           *)
(*                                                                           *)
(* The PNF and the VNF library contain the same code twice with two          *)
(* differences: the PNF sends under pack_mutex, from several threads, and    *)
(* the VNF without a lock; the PNF looks for stale reassembly entries after  *)
(* every datagram and the VNF only after a segment.                          *)
(*                                                                           *)
(* A message is its number and its packed length; a datagram carries an      *)
(* interval [from, to) of the bytes of its message.  UDP is external: it may *)
(* lose, duplicate and reorder.  Checksums are left out: a datagram with a   *)
(* wrong one is ignored, exactly like a lost one.                            *)
(*                                                                           *)
(* The list of incomplete messages is a function of the sequence number:     *)
(* add_segment looks for an entry of the number before it adds one, so there *)
(* are never two, and nothing depends on their order.                        *)
EXTENDS Integers, Sequences, SequencesExt

CONSTANTS
    Scenarios,     \* who sends and what the network may do in a behaviour, records of
                   \*   sender    "PNF" or "VNF"; the other one receives
                   \*   threads   threads of the sender that send messages
                   \*   lengths   packed lengths of the messages sent
                   \*   messages  bound: number of messages
                   \*   reorder   whether datagrams may overtake each other
                   \*   faults    bound: datagrams lost or duplicated
                   \*   kinds     which of "lose" and "duplicate" happen
    HeaderLength,  \* NFAPI_P7_HEADER_LENGTH (16)
    SegmentSize,   \* config->segment_size (1400)
    MaxSegments,   \* length of the array of segments of an entry (128)
    SeqNumbers,    \* number of sequence numbers on the wire (16, four bits of NFAPI_P7_SET_MSS)
    Delta,         \* age at which an entry is stale (1000)
    Second,        \* ticks in a second (1000000 microseconds)
    SecondField,   \* first value of the seconds in TIMEHR (2^20)
    SecondWrap,    \* values of the seconds in TIMEHR (2^12)
    MaxDelay,      \* bound on the time a datagram travels
    MaxClock       \* bound of the model

ASSUME LengthsAssumption ==
    /\ HeaderLength \in Nat /\ SegmentSize \in Nat /\ HeaderLength < SegmentSize
    /\ \A s \in Scenarios : s.lengths \subseteq Nat /\ \A l \in s.lengths : HeaderLength < l
ASSUME TimeAssumption ==
    /\ Second \in Nat \ {0} /\ SecondWrap \in Nat \ {0}
    /\ SecondField \in Nat /\ Second <= SecondField
ASSUME SeqAssumption == SeqNumbers \in Nat \ {0}
ASSUME BoundsAssumption == Delta \in Nat /\ MaxDelay \in Nat /\ MaxClock \in Nat \ {0}

VARIABLES
    scenario,    \* one of Scenarios
    clock,       \* time in ticks
    sent,        \* lengths of the messages sent so far; a message is its index
    sequence_number,
    thread,      \* per sending thread: control point, message, its sequence number, next segment
    pack_mutex,  \* the thread that holds it, or NoThread
    net,         \* datagrams under way, oldest first
    lost, duplicated,  \* faults so far
    reassembly_queue,  \* the entry of an incomplete message, by sequence number
    dispatched   \* what was handed to the dispatcher, a sequence of chunks each

vars == <<scenario, clock, sent, sequence_number, thread, pack_mutex, net, lost, duplicated,
          reassembly_queue, dispatched>>

NoThread == "none"
Threads == scenario.threads
PackMutex == scenario.sender = "PNF"      \* the PNF packs and sends under pack_mutex
ExpireAlways == scenario.sender = "VNF"   \* the PNF expires entries after every datagram
NoSegment == [msg |-> 0, seq |-> 0, seg |-> 0, more |-> FALSE, from |-> 0, to |-> 0, at |-> 0]
Hole == [msg |-> 0, from |-> 0, to |-> 0]
NoSegments == [k \in 0 .. MaxSegments - 1 |-> NoSegment]
NoEntry == [received |-> 0, expected |-> 0, rx_hr_time |-> 0, segments |-> NoSegments]

(* Number of segments of a message of the given packed length. *)
SegmentCount(len) ==
    IF len <= SegmentSize THEN 1
    ELSE LET body == len - HeaderLength
             segBody == SegmentSize - HeaderLength
         IN  body \div segBody + (IF body % segBody # 0 THEN 1 ELSE 0)

(* Every message fits, and fewer segments than the mark of an unknown number. *)
ASSUME SegmentsAssumption ==
    /\ MaxSegments \in Nat /\ MaxSegments < 255
    /\ \A s \in Scenarios : \A l \in s.lengths : SegmentCount(l) <= MaxSegments
ASSUME ScenarioAssumption ==
    \A s \in Scenarios :
        /\ s.sender \in {"PNF", "VNF"} /\ s.threads # {} /\ NoThread \notin s.threads
        /\ s.messages \in Nat /\ s.faults \in Nat /\ s.reorder \in BOOLEAN

(* Segment number seg of a message, as it goes on the wire. *)
Segment(m, seq, seg) ==
    LET len == sent[m]
        count == SegmentCount(len)
        segBody == SegmentSize - HeaderLength
        from == HeaderLength + segBody * seg
        last == seg + 1 = count
    IN  [msg |-> m, seq |-> seq % SeqNumbers, seg |-> seg, more |-> ~last,
         from |-> from, to |-> IF last THEN len ELSE from + segBody, at |-> clock]

(* The clock as TIMEHR packs it, and a difference of two readings (uint32).  *)
TimeHr(t) == ((t \div Second) % SecondWrap) * SecondField + (t % Second)
Age(now, then) == (now - then) % (SecondWrap * SecondField)

Init ==
    /\ scenario \in Scenarios
    /\ clock = 1 /\ sent = <<>> /\ sequence_number = 0
    /\ thread = [t \in Threads |-> [pc |-> "idle", msg |-> 0, seq |-> 0, next |-> 0, last |-> 0]]
    /\ pack_mutex = NoThread
    /\ net = <<>> /\ lost = 0 /\ duplicated = 0
    /\ reassembly_queue = [s \in 0 .. SeqNumbers - 1 |-> NoEntry] /\ dispatched = <<>>

----------------------------------------------------------------------------
(* The sender.                                                              *)

(* The sequence number is put into the header before pack_mutex is taken.   *)
(* A thread starts at most one message in a tick.                           *)
StartSend(t) ==
    /\ thread[t].pc = "idle" /\ thread[t].last < clock /\ Len(sent) < scenario.messages
    /\ \E len \in scenario.lengths : sent' = Append(sent, len)
    /\ thread' = [thread EXCEPT ![t] = [pc |-> "lock", msg |-> Len(sent) + 1,
                                        seq |-> sequence_number, next |-> 0, last |-> clock]]
    /\ UNCHANGED <<scenario, clock, sequence_number, pack_mutex, net, lost, duplicated,
                   reassembly_queue, dispatched>>

\* defect: the lock is never taken
LockNothing(t) ==
    /\ thread[t].pc = "lock"
    /\ thread' = [thread EXCEPT ![t].pc = "send"]
    /\ UNCHANGED <<scenario, clock, sent, sequence_number, pack_mutex, net, lost, duplicated,
                   reassembly_queue, dispatched>>

LockPackMutex(t) ==
    /\ thread[t].pc = "lock"
    /\ PackMutex => pack_mutex = NoThread
    /\ pack_mutex' = IF PackMutex THEN t ELSE pack_mutex
    /\ thread' = [thread EXCEPT ![t].pc = "send"]
    /\ UNCHANGED <<scenario, clock, sent, sequence_number, net, lost, duplicated,
                   reassembly_queue, dispatched>>

(* One turn of the loop over the segments, or the only datagram; after the  *)
(* last one the number is incremented and the mutex released.               *)
SendSegment(t) ==
    /\ thread[t].pc = "send"
    /\ LET th == thread[t]
           last == th.next + 1 = SegmentCount(sent[th.msg])
       IN  /\ net' = Append(net, Segment(th.msg, th.seq, th.next))
           /\ thread' = [thread EXCEPT ![t].next = @ + 1, ![t].pc = IF last THEN "idle" ELSE "send"]
           /\ sequence_number' = IF last THEN sequence_number + 1 ELSE sequence_number
           /\ pack_mutex' = IF last THEN NoThread ELSE pack_mutex
    /\ UNCHANGED <<scenario, clock, sent, lost, duplicated, reassembly_queue, dispatched>>

----------------------------------------------------------------------------
(* The receiver.                                                            *)

\* defect: the last segment's number is taken for the number of segments
ExpectedTooFew(d, old) == IF d.more THEN old ELSE d.seg

(* How many segments the message has, known once its last one is there. *)
Expected(d, old) == IF d.more THEN old ELSE d.seg + 1

(* A segment is stored with the entry of its sequence number and counted,   *)
(* also when it was there before; without one it starts an entry.           *)
add_segment(q, d) ==
    [q EXCEPT ![d.seq] =
        IF @ # NoEntry
        THEN [received |-> (@.received + 1) % 256, expected |-> Expected(d, @.expected),
              rx_hr_time |-> @.rx_hr_time, segments |-> [@.segments EXCEPT ![d.seg] = d]]
        ELSE [received |-> 1, expected |-> Expected(d, 255),
              rx_hr_time |-> TimeHr(clock), segments |-> [NoSegments EXCEPT ![d.seg] = d]]]

remove_msg(q, seq) == [q EXCEPT ![seq] = NoEntry]

\* defect: stale entries stay
KeepOldMsgs(q) == q

remove_old_msgs(q) ==
    [s \in DOMAIN q |-> IF q[s] # NoEntry /\ Age(TimeHr(clock), q[s].rx_hr_time) > Delta
                        THEN NoEntry ELSE q[s]]

(* The message put together: a segment that was never stored is a hole (the *)
(* copy of a length of minus sixteen bytes).                                *)
Chunk(d) == [msg |-> d.msg, from |-> d.from, to |-> d.to]
Concatenate(e) == [i \in 1..e.expected |-> Chunk(e.segments[i - 1])]

(* *_handle_p7_message for datagram d. *)
Handle(d) ==
    IF ~d.more /\ d.seg = 0
    THEN /\ dispatched' = Append(dispatched, <<Chunk(d)>>)
         /\ reassembly_queue' = IF ExpireAlways THEN remove_old_msgs(reassembly_queue)
                                ELSE reassembly_queue
    ELSE LET q == add_segment(reassembly_queue, d)
             e == q[d.seq]
         IN  IF e.received = e.expected
             THEN /\ dispatched' = Append(dispatched, Concatenate(e))
                  /\ reassembly_queue' = remove_old_msgs(remove_msg(q, d.seq))
             ELSE /\ dispatched' = dispatched
                  /\ reassembly_queue' = remove_old_msgs(q)

Receive ==
    /\ \E i \in IF scenario.reorder THEN DOMAIN net ELSE DOMAIN net \cap {1} :
         /\ Handle(net[i])
         /\ net' = RemoveAt(net, i)
    /\ UNCHANGED <<scenario, clock, sent, sequence_number, thread, pack_mutex, lost, duplicated>>

----------------------------------------------------------------------------
(* The network and the clock.                                               *)

Lose ==
    /\ "lose" \in scenario.kinds /\ lost + duplicated < scenario.faults
    /\ \E i \in DOMAIN net : net' = RemoveAt(net, i)
    /\ lost' = lost + 1
    /\ UNCHANGED <<scenario, clock, sent, sequence_number, thread, pack_mutex, duplicated,
                   reassembly_queue, dispatched>>

Duplicate ==
    /\ "duplicate" \in scenario.kinds /\ lost + duplicated < scenario.faults
    /\ \E i \in DOMAIN net : net' = InsertAt(net, i, net[i])
    /\ duplicated' = duplicated + 1
    /\ UNCHANGED <<scenario, clock, sent, sequence_number, thread, pack_mutex, lost,
                   reassembly_queue, dispatched>>

(* A tick is long compared with a send loop, and bounds the delay.          *)
Tick ==
    /\ clock < MaxClock
    /\ \A t \in Threads : thread[t].pc = "idle"
    /\ \A i \in DOMAIN net : clock - net[i].at < MaxDelay
    /\ clock' = clock + 1
    /\ UNCHANGED <<scenario, sent, sequence_number, thread, pack_mutex, net, lost, duplicated,
                   reassembly_queue, dispatched>>

Next ==
    \/ \E t \in Threads : StartSend(t) \/ LockPackMutex(t) \/ SendSegment(t)
    \/ Receive \/ Lose \/ Duplicate \/ Tick

Spec == Init /\ [][Next]_vars

----------------------------------------------------------------------------
(* Properties.                                                              *)

Chunks(s) == {s[i] : i \in DOMAIN s}

(* The bytes of a message that is dispatched come from one sent message:    *)
(* *_handle_p7_message never joins segments of two messages, although       *)
(* sequence numbers come round after SeqNumbers messages and a duplicate can    *)
(* open an entry for a message that is already complete.                    *)
OneSource ==
    \A k \in DOMAIN dispatched :
        \A c1, c2 \in Chunks(dispatched[k]) \ {Hole} : c1.msg = c2.msg

(* What is dispatched is a sent message from its first byte to its last:    *)
(* the segments tile the body without gap or overlap, in whatever order     *)
(* they arrive and whichever are lost.  A duplicated segment is counted     *)
(* twice and can make a message look complete, so there must be none.       *)
Intact ==
    duplicated = 0 => \A k \in DOMAIN dispatched :
        LET s == dispatched[k]
        IN  /\ s # <<>> /\ Hole \notin Chunks(s)
            /\ s[1].from = HeaderLength /\ s[Len(s)].to = sent[s[1].msg]
            /\ \A i \in 2..Len(s) : s[i].msg = s[1].msg /\ s[i].from = s[i - 1].to

(* When all is sent and received, each message was dispatched exactly once, *)
(* if the network did no harm: two threads whose headers carry the same     *)
(* sequence number do not spoil each other's messages as pack_mutex keeps   *)
(* the segments together.                                                   *)
EachOnce ==
    /\ net = <<>> /\ \A t \in Threads : thread[t].pc = "idle"
    /\ lost + duplicated = 0 /\ ~scenario.reorder
    =>
        /\ Len(dispatched) = Len(sent)
        /\ \A m \in DOMAIN sent : \E k \in DOMAIN dispatched : Head(dispatched[k]).msg = m
        /\ \A s \in DOMAIN reassembly_queue : reassembly_queue[s] = NoEntry

----------------------------------------------------------------------------
(* Conditions on a scenario under which the properties are proved for any  *)
(* lengths, numbers and bounds.                                            *)

(* An entry outlives the delay of the datagrams that complete it. *)
Lasting ==
    \A then \in 1 .. MaxClock : \A now \in then .. MaxClock :
        now <= then + MaxDelay => Age(TimeHr(now), TimeHr(then)) <= Delta

(* The segments of a message stay together: the PNF sends under pack_mutex *)
(* or there is one thread; an entry is not taken for stale before its last *)
(* segment.                                                                *)
Orderly(s) ==
    /\ s.sender = "PNF" \/ \A t, u \in s.threads : t = u
    /\ Lasting \/ \A l \in s.lengths : SegmentCount(l) <= 2

(* One thread sends; every datagram makes the receiver look for stale      *)
(* entries; the sequence numbers come round later than a stale entry is    *)
(* found, even if all the faults strike in between; the seconds of the     *)
(* time stamps do not come round; and the counter of segments does not     *)
(* reach the mark of an unknown number.                                    *)
Roomy(s) ==
    /\ \A t, u \in s.threads : t = u
    /\ s.sender = "VNF" \/ \A l \in s.lengths : SegmentCount(l) > 1
    /\ 2 * MaxDelay + Delta + 1 + s.faults < SeqNumbers
    /\ MaxClock < SecondWrap * Second
    /\ MaxSegments + s.faults < 255

(* A network without faults that keeps the order. *)
Steady(s) == ~s.reorder /\ s.faults = 0 /\ Orderly(s)
============================================================================
