# Verification of the multi-UE proxy

The proxy stands between an eNB (LTE), a gNB (SA) or both (NSA) and a number of
UEs. Towards the base station it plays an nFAPI PNF, towards the UEs it sends
and receives nFAPI P7 messages in UDP datagrams. This directory holds TLA+
models of its core, TLC configurations that check them on small instances and
TLAPS proofs for every size.

## 1. Inventory

| Component | State | Operations | Interacts with |
|---|---|---|---|
| Message queue (`src/queue.c`) | ring of 512 pointers, `read_index`, `write_index`, `num_items`, mutex | `put_queue`, `get_queue`, `requeue`, `unqueue`, `unqueue_matching` | receive threads (put), subframe and slot tasks (get, requeue) |
| LTE uplink (`lte_proxy.cc`, `nfapi_pnf.c`) | `msgs_from_ue[]`, the task's collection, `master_sfn_sf`, `are_queues_empty`, `sfn`/`sf` | one receive thread per UE; `oai_subframe_task`: tick, `dequeue_ue_msgs`, `oai_subframe_aggregate_messages` | queues, P7 library through `p7_config_g`, UEs' sockets |
| NR uplink (`nr_proxy.cc`, `nfapi_pnf.c`) | the same with slots | `oai_slot_task`, `dequeue_ue_slot_msgs`, `oai_slot_aggregate_messages` | as above |
| NSA barrier (`nfapi_pnf.c`) | `sf_slot_tick`, `lock`, `cond_sf_slot`, `slot_tick` | the end of both tasks' loops | the two tasks |
| Downlink (`lte_proxy.cc`, `nr_proxy.cc`) | `address_tx_`, sockets, mutex | `oai_enb_downlink_nfapi_task`, `pack_and_send_downlink_sfn_sf_msg` | P7 handlers (callers), tasks (callers) |
| PNF P7 (`open-nFAPI/pnf/src/pnf_p7.c`) | ring of subframe buffers, `sfn_sf_shift`, reassembly list, `sequence_number`, timing info | request handlers, `pnf_p7_subframe_ind`, node sync, segmentation and reassembly | eNB over UDP, downlink (callback), tasks |
| PNF P5 (`pnf.c`, `nfapi_pnf.c`) | PNF and PHY state, configuration | param, config, start, stop requests | eNB over SCTP; starts P7 and publishes `p7_config_g` |
| Codecs (`nfapi.c`, `nfapi_p4.c`, `nfapi_p5.c`, `nfapi_p7.c`) | none | more than 500 pack and unpack functions, LTE and NR | everyone |
| Start-up (`proxy.cc`) | configuration | argument parsing, thread creation | everyone |

What is hard here: the queues are filled and emptied by different threads, and
a message can be taken, looked at and put back while new ones arrive; a buffer
passes through five hands and has ten ways to end; numbers of subframes and
slots wrap; UDP loses, repeats and reorders; the two tasks of NSA mode meet
through a hand-made barrier; the P5 thread publishes a pointer the tasks use; the
connection to the base station can be lost between any two requests; every message
is written and read by two functions that were written separately.

What makes each component correct:

* queue: behaves as the bounded double-ended queue `queue.h` documents, and its
  own assertions hold (**checked; proved**);
* uplink, LTE and NR: every buffer has one owner and one end, one indication
  concerns one subframe, order per UE and id is kept, only old messages are dropped
  as old, every message is handled (**checked; safety proved**);
* NSA barrier: no lost wake-up, no deadlock, the two cells' times stay together
  (**checked; safety proved**);
* downlink: a datagram goes to the UE it is meant for, all UEs see one order, nobody
  waits for good (**checked; safety proved**);
* P7 transport: what is reassembled is one message, whole; nothing is lost or doubled
  if the network does no harm (**checked; proved**);
* P7 buffers: a request that was accepted is kept until the turn of its subframe and
  freed then, once; a late one is reported (**checked; proved**);
* P5: the VNF's idea of the states is right, and a VNF that follows the procedure
  brings the cell up, also after losses (**checked; safety proved**);
* codecs: a message that was packed is unpacked to itself, a buffer that is too
  small is reported (**checked**).

`PROJECT.json` lists the hazards by line and the properties that cover them.

## 2. Modules

| Module | Models |
|---|---|
| `BoundedDeque` | what `queue.h` promises: put, get, requeue, unqueue, unqueue-matching on a bounded sequence |
| `Queue`, `QueueProofs` | `queue.c`: the ring with its indices and counter; theorems about it |
| `SubframeUplink`, `UplinkProofs` | receive threads, `dequeue_ue_msgs`, `oai_subframe_aggregate_messages`; theorems about both uplinks |
| `SlotUplink` | the NR handlers, aggregators and slot task on `SubframeUplink`'s queues |
| `NsaBarrier`, `NsaBarrierProofs` | the end of `oai_subframe_task` and `oai_slot_task` in NSA mode; theorems about it |
| `Downlink`, `DownlinkProofs` | broadcasts and ticks to the UEs under the proxy's and the P7 library's mutex, and the start of the P7 thread; theorems about them |
| `P7Transport`, `P7TransportProofs` | segmentation, UDP, reassembly and expiry; theorems about them |
| `P7Buffer`, `P7SlotBuffer` | the request handlers and the subframe or slot indication of the PNF, with their rings |
| `P7BufferProofs`, `P7SlotBufferProofs` | theorems about them |
| `PnfP5`, `PnfP5Proofs` | PNF and PHY states, requests and refusals, loss of the connection; theorems about them |
| `CommandLine` | `main`: arguments and addresses |
| `Layout` | the vocabulary of message layouts: integers, arrays, lists, TLVs, alternatives |
| `Codec` | `nfapi.c`: packs and unpacks a layout byte by byte |
| `P7PackRequests`, `P7PackIndications`, `P7UnpackRequests`, `P7UnpackIndications`, `P7Codec` | the functions of `nfapi_p7.c`, one layout each, and the dispatch by message id |
| `P5Codec`, `P4Codec` | the same for `nfapi_p5.c` and `nfapi_p4.c` |
| `CodecSession` | compose a message, pack it, add unknown TLVs, unpack it |
| `MC*` | instances for TLC |

Each module also holds a few definitions marked as defects (`PutOverwrites`,
`requeue_at_tail`, ...). They are alternatives to the definition that follows
them and are used by no specification; substituting one shows that the property
it belongs to notices that kind of mistake.

### Queue

One action per function. Every function holds the mutex throughout, so it is one
step. `reply` is the returned value. `unqueue_matching` takes the set of pointers
its matcher accepts; its inner loop, which shifts the newer items by one slot, is
`CloseGap`, a single assignment to the ring. `Contents` reads the queued sequence
off the ring, and `ImplementsDeque` states that under this mapping every behaviour
is one of `BoundedDeque`.

### SubframeUplink

A buffer is `<<ue, n>>`, the n-th message of that UE; `fate` records whether it is
alive and how it ended. The queues are sequences: this is what the `queue` run
establishes for the ring. The subframe task is a sequence of steps that each
contain one access to a queue and the local work after it, so receive threads
interleave wherever they can in the program, in particular between `get_queue`
and `requeue`:

| Step | Code |
|---|---|
| `StartSubframe` | loop head of `oai_subframe_task`: count, announce, clear the collection |
| `EmptyQueue` | `get_queue` returns NULL |
| `GetMessage` | `get_queue`, then discard, collect, or decide to put back |
| `RequeueMessage` | `requeue`, free if it fails, clear `are_queues_empty`, leave this queue |
| `oai_subframe_aggregate_messages` | one turn of its loop: one id, all UEs |
| `EndSubframe` | the loop finds nothing more |

`subframe_msgs` has one sequence per UE. As in the code, an entry that has been handled
becomes NULL (`NONE`) and the arrays are forgotten at the end of the turn; `Entry(n)` is the
n-th entry in the order of the two nested loops, `WithId` the buffers of the found id in that
order, and `TakeOut` the end of one turn: hand over, free, forget.

Subframes are counted without wrapping and `sfn_sf(t)` is the number the code
stores. So properties can speak of the real age of a message while the code's
decisions see wrapped numbers. Message contents are reduced to the id, the label,
whether the body can be unpacked and how many PDUs it holds. A `RACH` is sent by
itself with its label five subframes later; the other ids are aggregated, and one
undecodable message loses the aggregate. The five aggregators share one loop,
`Aggregate`: it reads messages until the list is full (`Reached`), and announces
the sum of the PDU counts of those it read. RX and CQI abort on a message without
PDUs. The codec asserts the announced number for CRC, RX and CQI but not for HARQ
and SR, and without a P7 configuration only RX, which is packed once as a test,
reaches it. An abort or a failed assertion ends the process (`pc` is "aborted", and
no thread runs any more).

`load` is chosen at the start and says what the UEs send in a behaviour: which
kinds of message, labels how many subframes behind (or, negative, ahead), how many
per UE and until which subframe. It gives one specification several instances
without multiplying them.

### SlotUplink

`nfapi_pnf.c` contains the uplink twice. The slot copy has the same queues, the
same collection and the same loops, so `SlotUplink` takes the actions of
`SubframeUplink` and replaces what differs: the ids (UCI and SRS instead of CQI, HARQ
and SR), the age limit of 400 slots and the period of 20480 slots (constants), no
shift of RACH labels, and the aggregators, which abort on other messages than the LTE
ones: RX_DATA and UCI without PDUs (`Empty`), and UCI whose first PDU has a type that
`get_nr_uci_rnti` does not know (`Untyped`). The unpacker lets both through, the second with a warning.
`AbortsOnlyOnEmptyOrUntyped` says that nothing else ends the slot task.

### NsaBarrier

`sf_slot_tick` is a set of bits. A task's round is `Begin` (next number), for the
slot task `FirstSlot`, then `ArriveFirst` (set the bit and wait) or `ArriveSecond`
(set the bit, broadcast, go on). `Resume` is the woken task with the lock;
`SpuriousWakeup` is what POSIX allows `pthread_cond_wait`. `laps` is a history
variable: a task that arrives second does not wait, so it can come round again
while the other has been woken but has not yet got the lock; it then finds both
bits set and passes again. The code does not exclude this, only its sleeps make
it unlikely, so the model does not exclude it either.

### Downlink

Three threads: P7 (requests of the base station), the subframe task (ticks) and P5
(start of the cell). A broadcast is a loop of two steps per UE, `SetAddress` and
`Send`, so another thread can come between the assignment to `address_tx_` and
`sendto` unless the mutex prevents it. `sendto` may fail for any UE. Above the proxy's
mutex lies `pnf_p7->mutex`: request handlers hold it around the broadcast, the task
takes it after its own in `pnf_p7_subframe_ind`. `pnf_p7_message_pump` initialises that
mutex in the new P7 thread (`MessagePumpStarts`), while `start_request` and the task
may already hold it; `clobbered` remembers that this happened, and `BufferExclusive`
is what remains true otherwise. `lte_proxy.cc` and `nr_proxy.cc` are the same code
twice and share nothing.

### P7Transport

A message is its packed length; a datagram carries an interval of its bytes. The
sending thread reads the sequence number before it takes `pack_mutex`
(`StartSend`, `LockPackMutex`), so two messages can have the same one; segments are
sent one by one (`SendSegment`). `Receive` is the whole of
`pnf_nfapi_p7_read_dispatch_message`: a single segment is dispatched at once, others go
to `add_segment`, the last one makes the message (`Concatenate`), and `remove_old_msgs`
drops what is too old by the packed time `TIMEHR`. The list of incomplete messages is a
function of the sequence number, as `add_segment` never makes a second entry for one. Loss, duplication and reordering
are external. `scenario` says who sends: the PNF library locks and looks for old
messages after each datagram, the VNF library does neither.

### P7Buffer and P7SlotBuffer

`Request` is any of the six LTE handlers: test the window, on success allocate, free
what the entry held, store, send to the UEs; otherwise set the flag for timing info and, for
UE_RELEASE, answer. `SubframeInd` is the whole of `pnf_p7_subframe_ind`: next number,
shift, the turn of the DL requests of the subframe `SfAhead` later and of the UL requests of this one,
reset of the entry, timing info. In its turn a request is handed to the PHY if its kind has
a callback, and freed in any case. The proxy has no PHY: `start_request` sets `dl_config_req`,
`hi_dci0_req`, `tx_req` and `ul_config_req` to NULL and never sets `ue_release_req`, so only LBT_DL_CONFIG
has a callback (`Callbacks`), and the dummy requests, which have none either, are left out. What the UEs get they
get when a request is stored (`sent`). `freed` is what the last step freed in its turn, `toPhy` the part of
it that went to a callback, `dropped` what was freed or forgotten outside of a turn. A label
has the two fields of SFN/SF and `Dec` is the decimal number, since confusing the two
is one of the things that can go wrong. `heap` is what is allocated.

`P7SlotBuffer` is the NR twin, with UL_TTI and UL_DCI requests in a ring of one frame
and DL_TTI and TX_DATA forwarded at once. `nr_start_request` leaves every callback NULL, so
no request goes to a PHY; `pnf_p7_slot_ind` compares a request's slot with the shifted one only to choose between
the request and a dummy for a callback, so here the comparison and the shift decide nothing, and a request is freed by its
place in the ring alone.

### PnfP5

`state` is the PNF's state, `phys` the library's records, `phy_info_id` the id the proxy's
callbacks keep, `p7` the P7 instances and `p7_config_g` the published one. A request is
one step with its answer: the library's test of the state, the callback, the response
function, which sets the state. `rat` is the radio access of the behaviour's base station: the two
sets of handlers differ in one point, the refusals of CONFIG.request, which in NR are not
sent (`Sendable`; section 5). `view` is what the VNF concludes from the answers.
`Lost` is the end of a connection and `Connect` the next one. In each behaviour `vnf` is
either "any", which sends anything at any time, or "orderly", which follows the
procedure; both are external.

### CommandLine

One action per kind of argument, in any order; `AssignAddresses` and
`RefuseAddresses` are the branches on the number of addresses. An address is its
position on the command line.

### Codecs

Each `pack_x` and `unpack_x` of the three C files is a layout with the same name: the
sequence of what it writes or reads, with its conditions, limits and asserts.
`Codec` executes a layout on a buffer of bytes as `push*`, `pull*`, `pack_tlv` and
`unpack_tlv_list` do, with failures handed up as the code does: a function that ignores
the result of a push (`Lax`) hands up success. So the two halves of a codec, which are
separate code, are separate definitions, and `RoundTrip` compares them.

`CodecSession` composes a message from the packer's layout: every field gets a value
of its own width, a selector goes through its alternatives, lists are full (two
elements, some with empty inner lists) or empty, TLVs are all, alternating or none. It then
packs it into a buffer that is large enough or some bytes short, appends up to
`MAX_BAD_TAG` unknown TLVs and unpacks it. `RoundTrip` requires the message back,
`PackIsHonest` that success means that everything was written and that nothing was
written past the end, `DataAtOffset` that the data of each PDU of an RX_ULSCH or CQI
indication begins where its offset says. The profile of a codec names what is excluded, and
each exclusion is a disagreement of the code with itself (section 5).

## 3. Runs

| Run | Instance | Shows |
|---|---|---|
| `queue` | ring of 4, three pointers | `TypeOK`, `RingInv`, `AssertsHold`, `ImplementsDeque` |
| `uplink` | 2 UEs, queues and arrays of 2, lists of 3 PDUs, wrap after 3 subframes; four loads: two ids with labels 0 or 2 behind; labels ahead; one UE that fills its queue, with unknown and undecodable messages; every id with bodies of 0, 2, 3 PDUs and undecodable ones | `TypeOK`, `OneOwner`, `OneLabelPerSubframe`, `NoOvertaking`, `NoSleepOnBacklog`, `OnlyOldIsStale`, `CutOnlyWhenFull` |
| `uplink_pdus` | two CRC messages that exceed the list together | `AnnouncedFitsList` fails: see section 5 |
| `slot_uplink` | 2 UEs, queues, arrays of 1, wrap after 4 slots, one receive thread that may end; labels behind and ahead; every NR id, with no PDUs, PDUs, and a first PDU of unknown type | `AbortsOnlyOnEmptyOrUntyped`, `EveryMessageHandled` |
| `nsa_barrier` | numbers wrap after 4 subframes | `TypeOK`, `NoLostWakeup`, `BitsBelongToWaiter`, `DriftIsLaps`, `KeepMeeting` |
| `downlink` | 2 UEs, 2 requests, 1 tick, start of the cell | `RightAddress`, `SameOrder`, `BufferExclusive`, `NobodyStuck` |
| `transport` | messages of one to three segments; two threads and 4 messages without faults; one thread, 7 messages with 6 sequence numbers, reordering and one loss or duplicate | `OneSource`, `Intact`, `EachOnce` |
| `subframe_buffer` | 3 frames of 3 subframes, ring of 3, 1 ahead, two blocks of memory, shifts at any time | `FreedInItsTurn`, `OneOwner`, `KeptUntilItsTurn`, `LateReported`, `WindowIsDistance` |
| `slot_buffer` | 3 frames of 4 slots, 2 ahead, shifts at any time | `FreedInItsSlot`, `OneOwner` |
| `pnf` | LTE and NR, PNF_CONFIG with no PHY or one of two, 4 starts, 3 losses | `ViewsAgree`, `RunningIsPublished`, `RunningNotConfigured`, `Answered`, `ComesUp` |
| `codecs` | every message of P4, P5, P7, LTE and NR, of the profiles; buffers 1 or 6 bytes short; 0 or 3 unknown TLVs | `RoundTrip`, `PackIsHonest`, `DataAtOffset` |
| `command_line` | up to 7 arguments | `OneStationAddresses` fails: see section 5 |

**Bounds.** A ring of four slots has every fill level at every position, and three
pointers tell items apart. In the uplink `MaxMsgs` bounds a UE's messages, `MAX_PDU` (100
in the code) is the size of a list, `MaxTick` the subframes; two messages per UE suffice
to fill a queue of one, to make a put-back fail, to mix labels and to overtake.
512 slots, 8 messages, 200 subframes and 10240 subframes become 1 or 2 slots, 1 or 2
messages, 1 subframe and 3 or 4 subframes, keeping their order. `nsa_barrier`, `subframe_buffer` and
`slot_buffer` have no bound on their length: subframes and slots wrap for ever. In
`downlink`, one tick and two requests are every pair of broadcasts that can meet.
In `transport` the header is 2 and a segment 4 long, so lengths 4, 6 and 8 make one, two
and three segments, a last one full or not; the clock (7) passes a second, and 6 sequence
numbers for 7 messages make them come round; `Covered` makes TLC evaluate that the theorems' conditions hold of the instance. `MaxDelay` bounds the time a datagram travels and with it how
old a message can be when a sequence number is used again. The sizes of
`subframe_buffer` keep size and `SfAhead` in the relation of the code and let the wrap, the
ring's turn and the window interact; requests come `TxLeads` or `UlLeads` subframes ahead.
In `codecs` two elements tell an element from its neighbour, and all values of a message
differ where their width allows. Runs that stop at a bound do not check for deadlock;
in `downlink`, `NobodyStuck` takes its place, and in `pnf` the PNF thread may give up.

**Fairness.** `slot_uplink` assumes only that the slot task keeps taking steps;
it is a real-time thread that blocks nowhere but in short critical sections.
UEs are not assumed to send, and they fall silent after the load's last subframe: a UE
that always has a message with the newest label could hold up the others for as long
as it does. An abort of the proxy ends the obligation. `nsa_barrier` assumes that each
task that can take a step does. `downlink` assumes strong fairness of each thread's steps:
a mutex that is released over and over goes to each waiter at some time, as the threads
sleep or block on their sockets between two critical sections; the requests and ticks
themselves are not assumed to come. `pnf` assumes that a connection that can be made is made
(the code retries) and that the orderly VNF goes on.

## 4. Proofs

Every safety property of the queue, the barrier, the uplinks, the downlink, the P7 transport, the P7 buffers and P5
that a run checks is proved for every value of the constants. A proof follows one pattern: an
inductive invariant that contains the property, one lemma per action, and a last
step that combines them. Each inductive invariant was checked with TLC on the run's instance before
it was proved.

**Queue.** `QueueProofs` proves `TypeOK`, `RingInv` and `AssertsHold` for every ring size and every set
of pointers. The inductive invariant is
`TypeOK /\ RingInv`: the counter alone does not say which slots are occupied, and
without that neither the assertions nor the result of `get_queue` are safe.
`LinearInv` restates it without remainders, since the provers handle a conditional
subtraction and not division by an unknown size; `ModSmall` and `IndexSteps` carry
that over. One lemma per operation follows; for `unqueue_matching` the argument
is in `CloseGapInv`. `RingIsDeque` is the refinement: `ContentsOfRing` reads the ring as a
sequence, and each operation is shown to be the one of `BoundedDeque` by comparing the two sequences member by
member. `unqueue_matching` counts from the newest item and the sequence from the oldest; `DepthAndPosition`
relates the two and `CloseGapRemoves` shows that the inner loop removes one item and moves no other.

**NSA barrier.** `NsaBarrierProofs` proves `TypeOK`, `NoLostWakeup` and `BitsBelongToWaiter` for
every period. Two facts strengthen the invariant: a meeting has one member
(`OneInMeeting`: who arrives second does not wait), and `slot_tick` is 2 exactly
while the slot task is in a meeting. For `DriftIsLaps` the difference of its two sides, `Drift`, is
followed as an integer: every step leaves it alone or, where one of the four counters wraps, changes it by the whole period
(`DriftSteps`), so it stays a multiple of the period and the remainders agree.

**Uplink, LTE and NR.** `UplinkProofs` proves `TypeOK`, `OneOwner`, `OneLabelPerSubframe`, `NoOvertaking`,
`NoSleepOnBacklog` and `OnlyOldIsStale` for both uplinks, and `AbortsOnlyOnEmptyOrUntyped` for NR, for any number of UEs, any
loads and any sizes of queues, arrays and lists, and `CutOnlyWhenFull` for LTE, where a run checks it. Both next-state relations are instances of one,
`UplinkNext`, in which an aggregator may give any of the messages of its batch any end
(`LteSteps`, `NrSteps`), so everything is proved once. The invariant `UplinkInv` adds to the properties:

* `OwnerInv`: a live buffer is in exactly one of its UE's queue, the task's hand and the collection; queues hold
  each buffer once and in the order of sending, apart from the one that is about to be put back; the collection is empty at the top of the loop;
* `LabelInv`: what is collected carries `master_sfn_sf`, and what is sent its own label (five later for a RACH);
* `BacklogInv`: which messages of the backlog are still queued behind the UE that the loop has reached.

What the loops over the collection compute (`WithId`, `Members`, `InOrder`) is shown by induction on the size of a finite
set, written with sets as the library's induction over an operator cannot be used. `CutOnlyWhenFull` compares two sums:
the aggregator's running one (`PdusUpTo`) and one over the set of buffers that were taken. `SetSumAdd` shows that a sum over a finite set
does not depend on the order in which its members are picked, `BatchSum` that the two sums agree as no buffer is twice in a batch
(`BatchDistinct`), and `NotReached` that the messages reached are a first part of the batch and fill the list. The theorems assume that every id that `get_sfnsf` accepts has an
aggregator (`LteIdsKnown`, `NrIdsKnown`), as in the two switches of the code.

**Downlink.** `DownlinkProofs` proves `TypeOK`, `RightAddress`, `SameOrder` and `BufferExclusive` for any number of UEs, requests and
ticks. The invariant says who is in the loop (`LoopInv`: the holder of the proxy's mutex), what `address_tx_` is between its
assignment and `sendto` (`AddressInv`), which message is on the way to which UEs (`MessageInv`), who may be in the buffers (`OwnerInv`), and,
for the order, that messages are numbered in the order of their broadcasts, are received at most once and
are the last ones received (`OrderInv`).

**P7 transport.** `P7TransportProofs` proves `EachOnce` (`EachMessageOnce`), `OneSource` (`NeverMixed`) and `Intact` (`NeverTorn`) for
any lengths, segment sizes, delays and age limits and any number of messages, threads, sequence numbers and faults. That the segments of a message tile it is `SegmentsTile` and `PiecesTile`.
`Base` holds in every scenario: types, a busy thread has a message of its own, and a datagram is a segment of a sent message, sent at
most `MaxDelay` ago.

* Without faults and reordering (`Orderly`) the invariant follows the stream: only the holder of `pack_mutex` sends, each
  datagram continues the one before it (`StreamInv`), the queue holds exactly what precedes the next one (`QueueInv`), and each message is with
  its thread, under way or dispatched, once (`AccountInv`). Equal sequence numbers do not matter, since
  an entry is gone before the next message opens one.
* With faults (`Roomy`) every segment the receiver may still use belongs to a recent message. Messages are no further apart than the
  ticks they started in (`DatedInv`); all that was sent since an entry became stale is still under way or lost, as the first of it to arrive
  removes the entry (`StaleInv`: the number of messages missing is at most the losses). With
  `2 * MaxDelay + Delta + 1 + faults < SeqNumbers` two messages that meet in an entry are therefore the same (`SameMessage`). The counter of segments is the number of
  segments stored while nothing is duplicated (`EntryInv`, `OnceInv`), and never wraps or reaches 255, the mark of an unknown number (`CopiesInv`).

The conditions are not idle. Without the one on `SeqNumbers` losses in a row join two messages (section 5); a thread starts at
most one message in a tick, so for the code a tick is a subframe, `Delta` is one or two of them and the 16 numbers leave room for
a delay of some six. `Roomy` also wants every datagram to make the receiver look for stale entries: the VNF's receiver does so only for segments. `Lasting` says that no entry
expires while its segments travel; `LastingInSecond` shows it within a second, and across a second boundary the code breaks it for messages of three segments and more.

**P7 buffers.** `P7BufferProofs` proves `WindowIsDistance`, `LateReported` and `TypeOK` without any condition, for every
numbering, window and heap. So is `BlockInv`: a stored request is allocated and shares its block with no
other, whatever is sent, also after shifts. `FreedInItsTurn`, `KeptUntilItsTurn` and `OneOwner` need two
conditions, which section 5 shows to be needed: the ring's size divides the numbering (`SizeDivides`), and no DL request comes after its turn
(`TxEarly`). The argument is `RingInv`: until a shift a stored request is in the entry of its subframe, the
entry has its number, and its turn is to come within the ring; two subframes of a window that share an entry are then the same
(`SameEntry`). `P7SlotBufferProofs` proves `FreedInItsSlot` and `OneOwner` of the NR buffer. There the frame is the
ring, so its size divides; as the window test accepts everything, the condition `InRing` says that requests come at most a ring ahead and UL_DCI requests before their
transmit slot. With it each request is freed in its own slot and no block is lost, with shifts or without: the entry that is reset holds no UL_DCI request any more (`DueIsInTime`).

**P5.** `PnfP5Proofs` proves `ViewsAgree` and `Answered` for any lists of PHYs (ids may repeat) and any requests and losses. The invariant
adds that a lost connection leaves an idle PNF, that the PHY id the callbacks keep belongs to a record, and that of two
records of one PHY only the first is used. For the third exception of `Answered`, `ConfigRefused` shows that a CONFIG of a known PHY is refused only
in the wrong state. `RunningIsPublished` and the action property `RunningNotConfigured` are proved for VNFs that list at most one PHY
(`OnePhy`): with two the code breaks both (section 5).

The assumptions on constants (`QueueAssumption`, `BarrierAssumption`, `DownlinkAssumption`, `NumberingAssumption`, `WindowAssumption`,
`BufferAssumption`, `SlotAssumption`, `UplinkAssumption`, `PhyAssumption`, `RequestAssumption`, `NoneAssumption`, and of the transport `LengthsAssumption`,
`SegmentsAssumption`, `TimeAssumption`, `SeqAssumption`, `BoundsAssumption`, `ScenarioAssumption`) say that sizes are positive, that blocks
are numbered from 1, that the window is smaller than the numbering, that every message has a body and fits into the array of segments, and that
the constants that name things differ.

Only model-checked:

* liveness (`EveryMessageHandled`, `KeepMeeting`, `NobodyStuck`, `ComesUp`), which the prover cannot do;
* the codecs, whose definitions are recursive operators.

## 5. Where code and comments, or two parts of the code, differ

With a run:

* `nfapi_p7.c:2487` asserts that a CRC indication announces at most
  `NFAPI_CRC_IND_MAX_PDU` PDUs. The aggregator stops copying at that number but has
  already added the whole count of the last message (`nfapi_pnf.c:2758`), so the
  messages of several UEs can make an aggregate that fails the assertion
  (`uplink_pdus`). RX and CQI do the same; HARQ and SR have no assertion.
* `proxy.cc:151` asks for LTE and NR mode at once, so with five and more addresses and
  one base station none is used, and `configure` indexes an empty vector
  (`command_line`). `README.md:206` asks for one address per UE.

Met while modelling. The models do what the code does; the properties are stated so
as to leave these cases out, as said at each:

* Uplink. `nfapi_pnf.c:4019` says that messages with a wrong sfn/sf are discarded. Those
  up to 200 subframes old, or ahead, pass by design; but `get_sf_delta` does not wrap,
  so after sfn 1023 a message from before has a negative age and passes whatever its
  age, and one labelled ahead across the wrap is dropped. The NR unpacker accepts a UCI PDU of unknown type with a
  warning (`nfapi_p7.c:6772`), and the aggregator aborts the proxy when it is the first of its message
  (`nfapi_pnf.c:3397`). `nfapi_pnf.c:2627` says that
  the first RACH is selected and the others ignored; all are sent.
* P7 transport. A duplicated segment is counted again, so a message can look
  complete with one missing (`Intact` excludes duplicates). `TIMEHR` keeps seconds above bit 20
  and microseconds below, so an age across a second boundary is 48576 too large and a
  young message is removed (`pnf_p7.c:464`). If some 15 messages in a row are lost, segments of
  two messages with one sequence number can be joined; one loss cannot do it.
* P7 buffers. `nfapi_pnf_interface.h` describes callbacks for the requests of each subframe; in the proxy all but
  `lbt_dl_config_req` are NULL, so the buffered copy of a request is freed unused and timing and order towards the UEs are those of its
  arrival. A DL request is accepted until its own subframe but has its turn `sf_ahead`
  subframes before it, so one that comes in between stays in the ring (`TxLeads` are
  larger). 10240 is not a multiple of every buffer size: across the wrap two subframes of
  a window can share an entry (the instance's size divides). The shift of DL_NODE_SYNC is
  added to the decimal number and the result used as SFN/SF (`pnf_p7.c:1173`), hence `~shifted` in
  `FreedInItsTurn` and `KeptUntilItsTurn`. After a shift an entry can be reset while it holds a HI_DCI0 request, which
  is not among those that are looked at (`pnf_p7.c:1381`), and its memory is lost; hence `~shifted` in one part
  of `OneOwner`. UE_RELEASE is answered OK also when it was refused.
  The last branch of `is_nr_p7_request_in_window` accepts what it traces as out of window
  (`pnf_p7.c:1506`).
* P7 start. The mutex of the buffers is initialised while others may hold it
  (`pnf_p7.c:2894`): `clobbered` in `Downlink`.
* P5. CONFIG.request is answered for the first PHY whichever was addressed, and takes
  a running one to CONFIGURED (`nfapi_pnf.c:903`); the run has at most one PHY. The proxy sets
  no callback for STOP.request, so one for a PHY that does not run is not
  answered, nor is PNF_START with no PHY; refusals for an unknown PHY are made and never
  sent. `pnf_nr_handle_config_request` gives its refusals the LTE id NFAPI_CONFIG_RESPONSE (`pnf.c:690`, 700, 710),
  which `pack_nr_p5_message_body` does not know, so in NR a CONFIG.request in the wrong state
  is not answered (the third exception in `Answered`). P7 instances of lost connections stay.
* Codecs, LTE: the `bf_value` of CSI-RS vectors is written and not read; RX_ULSCH and NRACH
  indications are only read with all TLVs of a PDU; the loops of TX.request and
  UE_RELEASE.request do not step over unknown TLVs; the data of a CQI PDU with both release 8 and release 9
  parameters does not lie at the offset of both; PARAM.response has seven eMBMS TLVs that its reader does not know, more than
  `MAX_BAD_TAG`; a P4 system information request for NB-IoT is not accepted.
  `unpack_pnf_phy_rel12_value` steps through its array by the size of the whole TLV (`nfapi_p5.c:1415`), so of two
  PHYs the second is stored elsewhere (`Astray`) and read back as zeros. The profile keeps that list at one PHY, which is
  what the proxy sends (`nfapi_pnf.c:298`); the test that sends two (`nfapi_cunit_main.c:2507`) fills only the first and passes.
* Codecs, NR: PDU groups of a DL_TTI.request cannot be packed; PUSCH, PUCCH and SRS PDUs of an
  UL_TTI.request are read in another order or width than written; UE_RELEASE.request is
  padded and read without padding; the counts of CONFIG.response are read into locals; the measurement messages
  are not packed; all but the first TLV of a PRACH occasion are stored with the next one; some functions
  ignore the result of a push and report success, and padding is written without
  a look at the end of the buffer (`honest`, `bounded`).

## 6. Not modelled

* Formatting and tracing, sleep-time statistics, `nfapiutils.c` (printing), thread creation and
  signals, failures of `malloc`, of mutex calls and of socket set-up.
* Uplink: vendor extensions (an assertion), the warnings about two messages with one
  RNTI, an aggregated RX indication too large for its packing buffer. The two uplinks and
  `NsaBarrier` are not composed: they share no state but the turn of the loop, which `NsaBarrier`
  shows to go on.
* P7: the time stamps of node sync and the statistics in timing info, vendor
  extensions; the receiving sockets of two P7 threads after a reconnection, since the
  operating system decides which one gets a datagram.
* P5: what the messages carry beyond PHY ids, P4 indications.
* Codecs: vendor extensions, checksum and transmit timestamp.
* The VNF library beyond its transport, which the proxy does not run, and the simulators
  and test scripts.

## 7. Plan

All parts named in section 6 stay out. What is left to TLC is liveness and the codecs: a proof about those would need
their recursive operators written as functions over the length of a message.
