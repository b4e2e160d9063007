----------------------------- MODULE CodecSession -----------------------------
(* One sender and one receiver of nFAPI messages.  The sender composes a message,
   packs it into a buffer, the network may carry TLVs a newer peer has added, and
   the receiver unpacks what arrived.  Messages are composed from the sender's
   own layout: every field it would write gets a value, selectors run through
   their alternatives, lists have shape.count elements, and shape.tlv says which
   optional TLVs are there. *)
EXTENDS Codec

CONSTANTS Codecs     \* a function: for each codec a record with
                     \*   packer    layout of the pack function
                     \*   unpacker  layout of the unpack function
                     \*   ids       message ids sent
                     \*   shapes    records [count, alt, tlv], see above
                     \*   short     how many bytes a buffer may be too small by
                     \*   honest    every failed push fails the pack function
                     \*   bounded   every write looks at the end of the buffer
                     \*   unknown   numbers of unknown TLVs a peer may append
                     \*   padded    whether TLVs are padded to four bytes
                     \*   profile   what the sender keeps to, for each id: a record with
                     \*     pinned   a function: fields that have one value only
                     \*     omitted  TLVs that are never sent
                     \*     single   TLVs whose lists have one element at most
                     \*     whole    all other TLVs are always sent
                     \*     grows    a newer peer may append TLVs to the message

ASSUME CodecsAssumption ==
  \A c \in DOMAIN Codecs :
    /\ Codecs[c].shapes \subseteq [count : Nat, alt : Nat, tlv : {"all", "none", "even", "odd"}]
    /\ \A i \in Codecs[c].ids : Codecs[c].profile[i].whole \in BOOLEAN

VARIABLES codec, phase, id, shape, msg, packed, got

vars == <<codec, phase, id, shape, msg, packed, got>>

------------------------------------------------------------------------------
(* Composing messages. *)

NthSmallest(S, k) == CHOOSE x \in S : Cardinality({y \in S : y < x}) = k

\* The fields that decide what else is written, with the values worth sending:
\* <<struct, field, kind, value>>, where struct is the one they are used in.
Counted(in, c) ==
  CASE c.k = "field" -> {<<in, c.n, "count", 0>>}
    [] c.k = "sum"   -> {<<in, c.ns[i], "count", 0>> : i \in DOMAIN c.ns}
    [] c.k \in {"ceil", "plus1"} -> {<<in, c.n, "bits", 0>>}
    [] c.k = "iq"    -> {<<in, n, "count", 0>> : n \in {"num_prgs", "num_ue_srs_ports",
                                                        "num_gnb_antenna_elements"}}
                        \cup {<<in, "normalized_iq_representation", "value", v>> : v \in 0..1}
    [] c.k = "first" -> {<<c.ss[i], c.f, "own count", 0>> : i \in DOMAIN c.ss}
    [] c.k = "const" -> {}

Tested(in, x) ==
  {<<in, x.n, "value", v>> : v \in CASE x.o \in {"==", "!="} -> {x.v, x.v + 1}
                                     [] x.o = ">"  -> {0, x.v + 1}
                                     [] x.o = "&"  -> {0, x.v, 15}
                                     [] x.o \in {"<", "<="} -> {}}

RECURSIVE Controls(_, _)
Controls(in, L) ==
  UNION {LET x == L[i] IN
         CASE x.op = "arr"    -> Counted(in, x.cnt)
           [] x.op = "list"   -> Counted(in, x.cnt) \cup Controls(in, x.body)
           [] x.op = "when"   -> Tested(in, x) \cup Controls(in, x.body)
           [] x.op = "set"    -> {<<in, x.n, "value", x.v>>}
           [] x.op = "dci"    -> {<<in, x.bits, "bits", 0>>}
           [] x.op = "switch" ->
                {<<in, x.n, "value", x.as[j][1]>> :
                   j \in {k \in DOMAIN x.as : x.as[k][1] # Default /\ x.as[k][2] # Fail}}
                \cup UNION {Controls(in, x.as[j][2]) : j \in DOMAIN x.as}
           [] x.op \in {"sub", "tlv"} -> Controls(x.n, x.body)
           [] x.op \in {"lax", "call", "sized", "length", "tally"} -> Controls(in, x.body)
           [] OTHER -> {} : i \in DOMAIN L}

\* the body the packer writes for one message id
Body(c, i) ==
  LET L == Codecs[c].packer[1].body
      S == L[CHOOSE k \in DOMAIN L : L[k].op = "switch" /\ L[k].n = "message_id"]
  IN Alternative([sc |-> <<("message_id" :> i)>>], S)

ControlsOf ==
  [c \in DOMAIN Codecs |-> [i \in Codecs[c].ids |-> Controls("", Body(c, i))]]

\* A value for field n: its counts and alternatives in turn, other fields bytes
\* that differ from one field to the next.
Chosen(g, w, n) ==
  LET own    == {c \in g.controls : c[2] = n /\ c[1] = g.in}
      shared == {c \in g.controls : c[2] = n /\ c[3] # "own count"}
      C == IF own # {} THEN own ELSE shared
      V == {c[4] : c \in C}
      byte(k) == ((37 * (g.seed + k)) % 250) + 1
      \* inside a list, some elements have empty lists of their own
      count == IF g.index > 0 /\ (g.shape.alt + g.index) % 3 = 2 THEN 0
               ELSE IF g.in \in g.profile.single /\ g.shape.count > 1 THEN 1
               ELSE g.shape.count
  IN IF n \in DOMAIN g.profile.pinned THEN g.profile.pinned[n]
     ELSE IF \E c \in C : c[3] \in {"count", "own count"} THEN count
     ELSE IF \E c \in C : c[3] = "bits"
            THEN IF count = 0 THEN 0 ELSE 8 * count + 3
     ELSE IF C # {} THEN NthSmallest(V, (g.shape.alt + g.index) % Cardinality(V))
     ELSE Number([k \in 1..w |-> IF w = 4 /\ k = 1 THEN byte(1) \div 2 ELSE byte(k)])

Fresh(g, w, n) == [Assign(g, n, Chosen(g, w, n)) EXCEPT !.seed = @ + 1]
Known(g, n) == \E i \in DOMAIN g.sc : n \in DOMAIN g.sc[i]
Ensure(g, n) == IF Known(g, n) THEN g ELSE Fresh(g, 1, n)

Array(g, w, n, c) ==
  IF c = 0 THEN g
  ELSE [Assign(g, n, [i \in 1..c |-> Chosen([g EXCEPT !.seed = @ + i], w, "")])
          EXCEPT !.seed = @ + c]

RECURSIVE Compose(_, _)

RECURSIVE Elements(_, _, _, _)
Elements(g, x, i, c) ==
  IF i > c \/ ~g.ok THEN g
  ELSE IF i = c
    THEN LET e == Compose(x.body, [Enter(g, Element(g, x.n, i)) EXCEPT !.index = i])
         IN [LeaveAt(e, x.n, i) EXCEPT !.index = g.index]
  ELSE Elements(Elements(g, x, i, (i + c) \div 2), x, (i + c) \div 2 + 1, c)

\* the field a count is read from may be one that is never written
Counters(g, c) == IF c.k \in {"field", "ceil", "plus1"} THEN Ensure(g, c.n) ELSE g

\* TLVs inside the message body are optional one by one
IsSent(g, x) ==
  /\ x.n \notin g.profile.omitted
  /\ \/ g.profile.whole
     \/ g.shape.tlv # "none" /\ Len(g.sc) = 1
     \/ g.shape.tlv = "all"
     \/ g.shape.tlv = "even" /\ x.tag % 2 = 0
     \/ g.shape.tlv = "odd" /\ x.tag % 2 = 1

Filled(g, x) ==
  [Leave(Compose(x.body, [Enter(g, <<>>) EXCEPT !.in = x.n]), x.n) EXCEPT !.in = g.in]

ComposeItem(g, x) ==
  CASE x.op = "int" -> IF x.n \in Derived \/ Has(g, x.n) THEN g ELSE Fresh(g, x.w, x.n)
    [] x.op = "set" -> Assign(g, x.n, x.v)
    [] x.op = "arr" -> LET h == Counters(g, x.cnt)
                       IN Array(h, x.w, x.n, Count(h, x.cnt))
    [] x.op = "fixed" -> Array(g, x.w, x.n, x.len)
    [] x.op = "list" -> LET h == Counters(g, x.cnt)
                        IN Elements(h, x, 1, Count(h, x.cnt))
    [] x.op = "sub" -> Filled(g, x)
    [] x.op = "tlv" -> IF IsSent(g, x) THEN Filled(g, x) ELSE g
    [] x.op \in {"lax", "call", "sized", "length", "tally"} -> Compose(x.body, g)
    [] x.op = "switch" -> LET h == Ensure(g, x.n) IN Compose(Alternative(h, x), h)
    [] x.op = "when" -> LET h == Ensure(g, x.n) IN IF Holds(h, x) THEN Compose(x.body, h) ELSE h
    [] x.op = "dci" ->
         LET len == (Val(g, x.bits) + 7) \div 8
             h   == Array(g, 1, x.n, len)
         IN IF len = 0 \/ Val(g, x.bits) % 8 = 0 THEN h
            ELSE Assign(h, x.n, [Top(h)[x.n] EXCEPT ![len] = @ % 2 ^ (Val(g, x.bits) % 8)])
    [] OTHER -> g

\* looking at g first makes TLC compute it before it goes on
Compose(L, g) ==
  IF L = <<>> \/ ~g.ok THEN g
  ELSE IF Len(L) = 1 THEN ComposeItem(g, Head(L))
  ELSE Compose(SecondHalf(L), Compose(FirstHalf(L), g))

Sample(c, i, s) ==
  LET g == Compose(Codecs[c].packer, [ok |-> TRUE, sc |-> <<("message_id" :> i)>>, shape |-> s,
                            seed |-> 7 * s.alt, index |-> 0, in |-> "", tlen |-> 0,
                            controls |-> ControlsOf[c][i], profile |-> Codecs[c].profile[i]])
  IN Top(g)

------------------------------------------------------------------------------
(* The session. *)

\* a sender without restrictions
AnyMessage == [pinned |-> <<>>, omitted |-> {}, single |-> {}, whole |-> FALSE, grows |-> TRUE]

BufferSize == 20000
None == [ok |-> FALSE]

NoCodec == "none"

Init ==
  /\ codec = NoCodec
  /\ phase = "idle" /\ id = 0 /\ shape = 0
  /\ msg = <<>> /\ packed = None /\ got = None

NewMessage(c, i, s) ==
  /\ phase = "idle"
  /\ codec' = c /\ id' = i /\ shape' = s /\ msg' = Sample(c, i, s)
  /\ packed' = None /\ got' = None
  /\ phase' = "composed"

\* the caller's buffer is large enough
PackMessage ==
  /\ phase = "composed"
  /\ packed' = PackInto(Codecs[codec].packer, msg, BufferSize)
  /\ phase' = "packed"
  /\ UNCHANGED <<codec, id, shape, msg, got>>

\* the caller's buffer is too small by k bytes
PackShort ==
  /\ phase = "composed"
  /\ \E k \in Codecs[codec].short :
       LET need == Len(PackInto(Codecs[codec].packer, msg, BufferSize).out)
       IN /\ k < need
          /\ packed' = PackInto(Codecs[codec].packer, msg, need - k)
  /\ phase' = "packed"
  /\ UNCHANGED <<codec, id, shape, msg, got>>

\* a TLV of two bytes that no list knows, padded to four bytes by a peer that pads
UnknownTlv ==
  Bytes(2, \h3FFF) \o Bytes(2, 2) \o <<48, 1>> \o IF Codecs[codec].padded THEN <<0, 0>> ELSE <<>>
Appended(k) == [i \in 1..k * Len(UnknownTlv) |-> UnknownTlv[((i - 1) % Len(UnknownTlv)) + 1]]

UnpackMessage ==
  /\ phase = "packed" /\ packed.ok /\ ~packed.lost
  /\ \E k \in Codecs[codec].unknown :
       /\ k > 0 => Codecs[codec].profile[id].grows
       /\ got' = UnpackFrom(Codecs[codec].unpacker, packed.out \o Appended(k))
  /\ phase' = "unpacked"
  /\ UNCHANGED <<codec, id, shape, msg, packed>>

Finish ==
  /\ phase = "unpacked" \/ (phase = "packed" /\ ~(packed.ok /\ ~packed.lost))
  /\ codec' = NoCodec /\ phase' = "idle" /\ id' = 0 /\ shape' = 0
  /\ msg' = <<>> /\ packed' = None /\ got' = None

Next ==
  \/ \E c \in DOMAIN Codecs : \E i \in Codecs[c].ids, s \in Codecs[c].shapes : NewMessage(c, i, s)
  \/ PackMessage
  \/ PackShort
  \/ UnpackMessage
  \/ Finish

Spec == Init /\ [][Next]_vars

------------------------------------------------------------------------------
(* Properties. *)

\* A message is packed when the buffer is large enough, and unpacked to the message
\* that was sent, whatever unknown TLVs (at most MAX_BAD_TAG) were appended to it:
\* both halves of each codec agree on every field, width, order, count and selector.
RoundTrip ==
  /\ phase = "packed" /\ packed.room = BufferSize => packed.ok
  /\ phase = "unpacked" => got.ok /\ got.sc[1] = msg

\* A pack function that reports success has written the whole message: no push
\* was refused for want of room.  Whatever it reports, it has not written past the
\* end of the caller's buffer.
PackIsHonest ==
  phase = "packed" =>
    /\ packed.ok /\ Codecs[codec].honest => ~packed.lost
    /\ Codecs[codec].bounded => Len(packed.out) <= packed.room

==============================================================================
