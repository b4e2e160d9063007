--------------------------------- MODULE Codec ---------------------------------
(* What the helpers of nfapi.c do for each item of a layout, once as a packer
   and once as an unpacker.

   A packer's state p holds the bytes written (out), the size of the buffer
   (room), whether a write was refused for want of room (lost), and the structs
   it is in the middle of (sc, innermost first).  An unpacker's state u holds
   the packet (wire), the bytes consumed (pos), the bound of the reads (end),
   the length of the TLV being read (tlen) and the structs it is filling (sc).
   ok is the return value so far; lax is set while the code does not look at
   return values.  Vendor extension callbacks are not installed. *)
EXTENDS Layout, FiniteSets, TLC

\* Fields the packer computes; they are not part of what a message says.
Derived == {"offset", "data_offset", "pdu_size", "PDUSize", "instance_length", "n_ulsch",
            "n_ulcch", "message_length", "checksum", "num_tlv", "num_tlvs", "prach_root_seq_idx",
            "ssb_mask_idx", "config_beam_idx", "unused_root_seq_idx", "symbol_per_slot_idx"}

Bytes(w, v) == [i \in 1..w |-> (v \div 256 ^ (w - i)) % 256]
Number(bs) ==
  LET val[i \in 0..Len(bs)] == IF i = 0 THEN 0 ELSE 256 * val[i - 1] + bs[i]
  IN val[Len(bs)]

get_tlv_padding(len) == (4 - (len % 4)) % 4

\* bit k of v, for k a power of two
Bit(v, k) == (v \div k) % 2 = 1
Masked(v, m) == \E k \in {1, 2, 4, 8, 16, 32, 64, 128} : Bit(v, k) /\ Bit(m, k)

FirstHalf(L) == SubSeq(L, 1, Len(L) \div 2)
SecondHalf(L) == SubSeq(L, Len(L) \div 2 + 1, Len(L))

Replaced(s, at, bs) ==
  [i \in DOMAIN s |-> IF i > at /\ i <= at + Len(bs) THEN bs[i - at] ELSE s[i]]

------------------------------------------------------------------------------
(* Structs and their fields. *)

Top(s) == Head(s.sc)
Has(s, n) == n \in DOMAIN Top(s)
Val(s, n) ==
  LET D == {i \in DOMAIN s.sc : n \in DOMAIN s.sc[i]}
  IN IF D = {} THEN 0 ELSE s.sc[CHOOSE i \in D : \A j \in D : i <= j][n]
Assign(s, n, v) == [s EXCEPT !.sc = <<(n :> v) @@ Head(@)>> \o Tail(@)]

Bare(x) == IF DOMAIN x \cap Derived = {} THEN x ELSE [n \in DOMAIN x \ Derived |-> x[n]]

\* step into a struct and out of it again: back into field n, or element i of n
Enter(s, x) == [s EXCEPT !.sc = <<x>> \o @]
Struct(s, n) == IF Has(s, n) THEN Top(s)[n] ELSE <<>>
Leave(s, n) == Assign([s EXCEPT !.sc = Tail(@)], n, Top(s))
Element(s, n, i) == IF Has(s, n) /\ i <= Len(Top(s)[n]) THEN Top(s)[n][i] ELSE <<>>
LeaveAt(s, n, i) ==
  LET out == [s EXCEPT !.sc = Tail(@)]
      old == Struct(out, n)
  IN Assign(out, n, IF i \in DOMAIN old THEN [old EXCEPT ![i] = Top(s)] ELSE Append(old, Top(s)))

Count(s, c) ==
  CASE c.k = "field" -> Val(s, c.n)
    [] c.k = "const" -> c.c
    [] c.k = "sum"   -> Val(s, c.ns[1]) + Val(s, c.ns[2])
    [] c.k = "ceil"  -> (Val(s, c.n) + c.u - 1) \div c.u
    [] c.k = "plus1" -> Val(s, c.n) \div 8 + 1
    [] c.k = "iq"    -> Val(s, "num_prgs") * Val(s, "num_ue_srs_ports")
                          * Val(s, "num_gnb_antenna_elements")
                          * (IF Val(s, "normalized_iq_representation") = 0 THEN 2 ELSE 4)
    [] c.k = "first" -> LET P == SelectSeq(c.ss, LAMBDA n : Has(s, n))
                        IN IF P = <<>> THEN 0
                           ELSE LET x == Top(s)[Head(P)]
                                IN IF c.f \in DOMAIN x THEN x[c.f] ELSE 0

Holds(s, x) ==
  LET v == IF x.n = "tl.length" THEN s.tlen ELSE Val(s, x.n)
      r == CASE x.o = "==" -> v = x.v
             [] x.o = "!=" -> v # x.v
             [] x.o = ">"  -> v > x.v
             [] x.o = "<"  -> v < x.v
             [] x.o = "<=" -> v <= x.v
             [] x.o = "&"  -> Masked(v, x.v)
  IN r # x.neg

Alternative(s, x) ==
  LET v == Val(s, x.n)
      A == {i \in DOMAIN x.as : x.as[i][1] = v}
      D == {i \in DOMAIN x.as : x.as[i][1] = Default}
  IN IF A # {} THEN x.as[CHOOSE i \in A : \A j \in A : i <= j][2]
     ELSE IF D # {} THEN x.as[CHOOSE i \in D : TRUE][2] ELSE <<>>

------------------------------------------------------------------------------
(* The packer. *)

push(p, bs) ==
  IF Len(p.out) + Len(bs) <= p.room
    THEN [p EXCEPT !.out = @ \o bs]
    ELSE [p EXCEPT !.ok = p.lax, !.lost = TRUE]

Refuse(s) == [s EXCEPT !.ok = s.lax]

Flat(w, vs) == [i \in 1..w * Len(vs) |-> Bytes(w, vs[(i - 1) \div w + 1])[((i - 1) % w) + 1]]
Item(vs, i) == IF i \in DOMAIN vs THEN vs[i] ELSE 0

pusharray(p, w, vs, c, max) ==
  IF c = 0 THEN p
  ELSE IF c > max THEN Refuse(p)
  ELSE push(p, Flat(w, [i \in 1..c |-> Item(vs, i)]))

\* n bytes as one little endian number, shifted by r bits
ShiftLeft(bs, r) ==
  [i \in DOMAIN bs |-> ((bs[i] * 2 ^ r) % 256) + (IF i = 1 THEN 0 ELSE bs[i - 1] \div 2 ^ (8 - r))]
ShiftRight(bs, r) ==
  [i \in DOMAIN bs |-> bs[i] \div 2 ^ r
                         + (IF i = Len(bs) THEN 0 ELSE (bs[i + 1] * 2 ^ (8 - r)) % 256)]
Reversed(bs) == [i \in DOMAIN bs |-> bs[Len(bs) + 1 - i]]
DCI_PAYLOAD_BYTE_LEN == 8

pack_dci_payload(p, x) ==
  LET bits == Val(p, x.bits)
      len  == (bits + 7) \div 8
      given == [i \in 1..len |-> Item(Struct(p, x.n), i)]
      left == IF bits % 8 = 0 THEN given ELSE ShiftLeft(given, 8 - (bits % 8))
  IN pusharray(IF bits % 8 = 0 THEN p ELSE Assign(p, x.n, left),
               1, Reversed(left), len, DCI_PAYLOAD_BYTE_LEN)

\* the offsets of pack_rx_ulsch_indication_body_value and its cqi twin; a caller
\* leaves the field at 1 to have it computed
DataOffset(p, x) ==
  LET es == Top(p)[x.list]
      size(e) == x.each + LET s[k \in 0..Len(x.sizes)] ==
                               IF k = 0 THEN 0
                               ELSE LET n == x.sizes[k][1]
                                    IN s[k - 1] + IF n \notin DOMAIN e THEN 0
                                                  ELSE x.sizes[k][2]
                                                       + (IF n = "cqi_indication_rel9"
                                                          THEN e[n].number_of_cc_reported ELSE 0)
                          IN s[Len(x.sizes)]
      first[i \in 0..Len(es)] == IF i = 0 THEN x.start ELSE first[i - 1] + size(es[i])
      data(e, k) == IF x.ss[k] \in DOMAIN e THEN e[x.ss[k]].length ELSE 0
      \* where the data of sub-struct k of element i begins
      at[j \in 0..Len(es) * Len(x.ss)] ==
        IF j = 0 THEN first[Len(es)]
        ELSE at[j - 1] + (IF j = 1 THEN 0
                          ELSE data(es[(j - 2) \div Len(x.ss) + 1], ((j - 2) % Len(x.ss)) + 1))
  IN IF ~Has(p, x.list) THEN p
     ELSE Assign(p, x.list,
            [i \in DOMAIN es |->
              [n \in DOMAIN es[i] |->
                IF \E k \in DOMAIN x.ss : x.ss[k] = n
                  THEN LET k == CHOOSE k \in DOMAIN x.ss : x.ss[k] = n
                       IN (x.f :> at[(i - 1) * Len(x.ss) + k]) @@ es[i][n]
                  ELSE es[i][n]]])

RECURSIVE Pack(_, _)

Relax(s, b) == [s EXCEPT !.lax = b]

RECURSIVE packarray(_, _, _, _)
packarray(p, x, i, c) ==
  IF i > c \/ ~p.ok THEN p
  ELSE IF i = c THEN LeaveAt(Pack(x.body, Enter(p, Element(p, x.n, i))), x.n, i)
  ELSE packarray(packarray(p, x, i, (i + c) \div 2), x, (i + c) \div 2 + 1, c)

pack_tlv(p, x) ==
  IF ~Has(p, x.n) THEN p
  ELSE LET at  == Len(p.out)
           tl  == push(push(p, Bytes(2, x.tag)), Bytes(2, 0))
           val == Leave(Pack(x.body, Enter(tl, Top(tl)[x.n])), x.n)
           len == Len(val.out) - at - 4
           pad == IF x.nr THEN get_tlv_padding(len) ELSE 0
       IN IF ~tl.ok THEN tl
          ELSE IF ~val.ok THEN val
          ELSE [val EXCEPT !.out = Replaced(@, at + 2, Bytes(2, len)) \o [i \in 1..pad |-> 0]]

PackItem(p, x) ==
  CASE x.op = "int"   -> push(p, Bytes(x.w, Val(p, x.n) + x.k))
    [] x.op = "lit"   -> push(p, Bytes(x.w, x.v))
    [] x.op = "set"   -> push(Assign(p, x.n, x.v), Bytes(x.w, x.v))
    [] x.op = "arr"   -> pusharray(p, x.w, Struct(p, x.n), Count(p, x.cnt), x.max)
    [] x.op = "fixed" -> Pack([i \in 1..x.len |-> Lit(x.w, Item(Struct(p, x.n), i))[1]], p)
    [] x.op = "list"  -> IF Count(p, x.cnt) > x.max THEN Refuse(p)
                         ELSE packarray(p, x, 1, Count(p, x.cnt))
    [] x.op = "sub"   -> Leave(Pack(x.body, Enter(p, Struct(p, x.n))), x.n)
    [] x.op = "tlv"   -> pack_tlv(p, x)
    [] x.op = "lax"   -> Relax(Pack(x.body, Relax(p, TRUE)), p.lax)
    [] x.op = "call"  -> [Relax(Pack(x.body, Relax(p, FALSE)), p.lax) EXCEPT !.ok = TRUE]
    [] x.op = "switch" -> Pack(Alternative(p, x), p)
    [] x.op = "when"  -> IF Holds(p, x) THEN Pack(x.body, p) ELSE p
    [] x.op = "fail"  -> [p EXCEPT !.ok = FALSE]
    [] x.op = "atmost" -> IF Val(p, x.n) > x.m THEN [p EXCEPT !.ok = FALSE] ELSE p
    [] x.op = "put"   -> Assign(p, x.n, x.v)
    [] x.op = "dci"   -> pack_dci_payload(p, x)
    [] x.op = "offsets" -> DataOffset(p, x)
    [] x.op = "countof" ->
         Assign(p, x.n, Cardinality({i \in 1..Val(p, x.cnt) : Top(p)[x.list][i][x.f] = x.v}))
    [] x.op = "sized" ->
         LET at == Len(p.out)
             hd == push(p, Bytes(x.w, 0))
             q  == Pack(x.body, hd)
         IN IF ~hd.ok THEN hd
            ELSE [q EXCEPT !.out =
                    Replaced(@, at, Bytes(x.w, Len(q.out) - at - x.w + x.off))]
    [] x.op = "tally" ->
         LET at == Len(p.out)
             q  == Pack(x.body, [p EXCEPT !.out = Append(@, 0)])
         IN IF at + 1 > p.room THEN [q EXCEPT !.ok = FALSE, !.lost = TRUE]
            ELSE [q EXCEPT !.out = Replaced(@, at, Bytes(1, x.base + x.per * Count(q, x.cnt)))]
    [] x.op = "length" ->
         LET q == Pack(x.body, p)
         IN IF q.ok /\ Len(q.out) <= 65535
              THEN [q EXCEPT !.out = Replaced(@, 4, Bytes(2, Len(q.out) - x.sub))]
              ELSE [q EXCEPT !.ok = FALSE]

\* item by item, in halves to keep the recursion shallow
Pack(L, p) ==
  IF L = <<>> \/ ~p.ok THEN p
  ELSE IF Len(L) = 1 THEN PackItem(p, Head(L))
  ELSE Pack(SecondHalf(L), Pack(FirstHalf(L), p))

\* msg packed by layout L into a buffer of the given size
PackInto(L, msg, room) ==
  Pack(L, [ok |-> TRUE, out |-> <<>>, room |-> room, lost |-> FALSE, lax |-> FALSE,
           sc |-> <<msg>>, tlen |-> 0])

------------------------------------------------------------------------------
(* The unpacker. *)

Byte(u, i) == IF i \in DOMAIN u.wire THEN u.wire[i] ELSE 0
Peek(u, at, w) == Number([i \in 1..w |-> Byte(u, at + i)])

\* Pulled(u, w): the state after w bytes were consumed; the read is refused at the bound
CanPull(u, w) == u.end - u.pos >= w
Advance(u, w) == [u EXCEPT !.pos = @ + w]
pull(u, w, n, k) ==
  IF CanPull(u, w) THEN Advance(Assign(u, n, Peek(u, u.pos, w) + k), w) ELSE Refuse(u)

pullarray(u, w, n, c, max) ==
  IF c = 0 THEN u
  ELSE IF c > max \/ ~CanPull(u, w * c) THEN Refuse(u)
  ELSE Advance(Assign(u, n, [i \in 1..c |-> Peek(u, u.pos + w * (i - 1), w)]), w * c)

unpack_dci_payload(u, x) ==
  LET bits == Val(u, x.bits)
      len  == (bits + 7) \div 8
      r    == pullarray(u, 1, x.n, len, DCI_PAYLOAD_BYTE_LEN)
      back == Reversed(Struct(r, x.n))
  IN IF len = 0 \/ ~CanPull(u, len) \/ len > DCI_PAYLOAD_BYTE_LEN THEN r
     ELSE Assign(r, x.n, IF bits % 8 = 0 THEN back ELSE ShiftRight(back, 8 - (bits % 8)))

RECURSIVE Unpack(_, _)

Return(s) == [s EXCEPT !.sc = <<Bare(Head(@))>> \o Tail(@)]

\* the elements the memset of the whole message leaves where nothing is stored
FirstStored(u, n) ==
  IF ~Has(u, n) THEN u
  ELSE Assign(u, n, [i \in DOMAIN Top(u)[n] |->
                       IF i = 1 THEN Top(u)[n][1] ELSE [f \in DOMAIN Top(u)[n][i] |-> 0]])

RECURSIVE unpackarray(_, _, _, _)
unpackarray(u, x, i, c) ==
  IF i > c \/ ~u.ok THEN u
  ELSE IF i = c THEN LeaveAt(Return(Unpack(x.body, Enter(u, Element(u, x.n, i)))), x.n, i)
  ELSE unpackarray(unpackarray(u, x, i, (i + c) \div 2), x, (i + c) \div 2 + 1, c)

\* the TLV list functions: the parser of every entry with the tag is called
RECURSIVE Matches(_, _, _)
Matches(u, es, len) ==
  IF es = <<>> \/ ~u.ok THEN u
  ELSE LET e == Head(es)
           v == [u EXCEPT !.tlen = len]
           r == IF Len(e) = 3
                  THEN Leave(Return(Unpack(e[3], Enter(v, Struct(v, e[2])))), e[2])
                  ELSE LET i == Val(v, e[4].counter) + 1
                           in == Enter(v, Element(v, e[4].list, i))
                           w == LeaveAt(Leave(Unpack(e[3], Enter(in, <<>>)), e[2]), e[4].list, i)
                       IN IF e[4].bump THEN Assign(w, e[4].counter, i) ELSE w
       IN Matches([r EXCEPT !.tlen = u.tlen], Tail(es), len)

MAX_BAD_TAG == 3
VENDOR_EXTENSION == \hF000..\hFFFF

\* one turn of the loop: the TLV at the read pointer
NextTlv(u, x) ==
  LET tag == Peek(u, u.pos, 2)
      len == Peek(u, u.pos + 2, 2)
      pad == IF x.nr THEN get_tlv_padding(len) ELSE 0
      es  == SelectSeq(x.es, LAMBDA e : e[1] = tag)
      v   == Advance(u, 4)
  IN IF ~CanPull(u, 4) THEN Refuse(u)
     ELSE IF es # <<>> THEN Advance(Matches(v, es, len), pad * Len(es))
     ELSE IF tag \in VENDOR_EXTENSION THEN v
     ELSE IF u.bad = MAX_BAD_TAG THEN IF x.p7 THEN [v EXCEPT !.end = v.pos] ELSE Refuse(v)
     ELSE IF CanPull(v, len) THEN [Advance(v, len + pad) EXCEPT !.bad = @ + 1]
     ELSE Refuse(v)

\* up to 2^k turns
RECURSIVE Turns(_, _, _)
Turns(u, x, k) ==
  IF ~u.ok \/ u.pos >= u.end THEN u
  ELSE IF k = 0 THEN NextTlv(u, x)
  ELSE Turns(Turns(u, x, k - 1), x, k - 1)

\* the while loop, for packets of fewer than 2^MaxTurns TLVs
MaxTurns == 10
unpack_tlv_list(u, x) ==
  LET r == Turns([u EXCEPT !.bad = 0], x, MaxTurns)
  IN [r EXCEPT !.bad = u.bad, !.end = u.end]

\* the hand written loops: no unknown TLV is skipped
RECURSIVE RawLoop(_, _, _)
RawLoop(u, es, stop) ==
  IF ~u.ok \/ u.pos >= stop THEN u
  ELSE IF ~CanPull(u, 4) THEN Refuse(u)
  ELSE LET tag == Peek(u, u.pos, 2)
           len == Peek(u, u.pos + 2, 2)
       IN RawLoop(Matches(Advance(u, 4), SelectSeq(es, LAMBDA e : e[1] = tag), len), es, stop)

UnpackItem(u, x) ==
  CASE x.op = "int"   -> pull(u, x.w, x.n, x.k)
    [] x.op = "skip"  -> IF CanPull(u, x.w) THEN Advance(u, x.w) ELSE Refuse(u)
    [] x.op = "set"   -> pull(u, x.w, x.n, 0)
    [] x.op = "arr"   -> pullarray(u, x.w, x.n, Count(u, x.cnt), x.max)
    [] x.op = "fixed" -> pullarray(u, x.w, x.n, x.len, x.len)
    [] x.op = "list"  -> IF Count(u, x.cnt) > x.max THEN Refuse(u)
                         ELSE unpackarray(u, x, 1, Count(u, x.cnt))
    [] x.op = "astray" -> IF Count(u, x.cnt) > x.max THEN Refuse(u)
                          ELSE FirstStored(unpackarray(u, x, 1, Count(u, x.cnt)), x.n)
    [] x.op = "sub"   -> Leave(Return(Unpack(x.body, Enter(u, Struct(u, x.n)))), x.n)
    [] x.op = "tlvs"  -> unpack_tlv_list(u, x)
    [] x.op = "raw"   -> RawLoop(u, x.es, IF Count(u, x.cnt) = -1 THEN u.end
                                          ELSE u.pos + Count(u, x.cnt))
    [] x.op = "need"  -> IF CanPull(u, 4) /\ Peek(u, u.pos, 2) = x.e[1]
                           THEN Matches(Advance(u, 4), <<x.e>>, Peek(u, u.pos + 2, 2))
                           ELSE Refuse(u)
    [] x.op = "lax"   -> Relax(Unpack(x.body, Relax(u, TRUE)), u.lax)
    [] x.op = "call"  -> [Relax(Unpack(x.body, Relax(u, FALSE)), u.lax) EXCEPT !.ok = TRUE]
    [] x.op = "switch" -> Unpack(Alternative(u, x), u)
    [] x.op = "when"  -> IF Holds(u, x) THEN Unpack(x.body, u) ELSE u
    [] x.op = "fail"  -> [u EXCEPT !.ok = FALSE]
    [] x.op = "atmost" -> IF (IF x.n = "tl.length" THEN u.tlen ELSE Val(u, x.n)) > x.m
                            THEN [u EXCEPT !.ok = FALSE] ELSE u
    [] x.op = "put"   -> Assign(u, x.n, x.v)
    [] x.op = "measured" -> Assign(u, x.n, u.tlen)
    [] x.op = "dci"   -> unpack_dci_payload(u, x)
    [] x.op = "within" ->
         LET bound == u.pos + Count(u, x.cnt) - x.off
         IN IF x.check /\ bound > u.end THEN [u EXCEPT !.ok = FALSE]
            ELSE [Unpack(x.body, [u EXCEPT !.end = bound]) EXCEPT !.end = u.end]
    [] x.op = "tlvend" -> IF u.pos + u.tlen > u.end THEN [u EXCEPT !.ok = FALSE] ELSE u
    [] x.op = "fits"  -> IF Val(u, x.n) > u.end THEN [u EXCEPT !.ok = FALSE] ELSE u
    [] x.op = "requires" ->
         IF \E i \in DOMAIN x.vs : x.vs[i][1] = Val(u, x.n) /\ Has(u, x.vs[i][2])
           THEN u ELSE [u EXCEPT !.ok = FALSE]

Unpack(L, u) ==
  IF L = <<>> \/ ~u.ok THEN u
  ELSE IF Len(L) = 1 THEN UnpackItem(u, Head(L))
  ELSE Unpack(SecondHalf(L), Unpack(FirstHalf(L), u))

\* what layout L makes of a packet
UnpackFrom(L, wire) ==
  Return(Unpack(L, [ok |-> TRUE, wire |-> wire, pos |-> 0, end |-> Len(wire), tlen |-> 0, bad |-> 0,
                    lax |-> FALSE, sc |-> <<<<>>>>]))

==============================================================================
