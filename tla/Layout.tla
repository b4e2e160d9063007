-------------------------------- MODULE Layout --------------------------------
(* The vocabulary in which the codec modules describe nFAPI messages.  A layout
   is the sequence of items that a pack_ function writes, or that an unpack_
   function reads, in the order of its statements.  An item is a record whose
   field op names the helper of nfapi.c it calls; module Codec says what each
   item does.  Every constructor returns a layout, so that layouts are put
   together with \o.  A struct of the program is a function from field names to
   values; a TLV is present in it when its name is in the domain (tl.tag set).

   w is a width in bytes, n the name of a field, L a layout. *)
EXTENDS Integers, Sequences

\* push8, push16, push32 and the pull functions, one call per name
Ints(w, ns) == [i \in 1..Len(ns) |-> [op |-> "int", w |-> w, n |-> ns[i], k |-> 0]]
U8(ns) == Ints(1, ns)
U16(ns) == Ints(2, ns)
U32(ns) == Ints(4, ns)

\* a field written with k added to it, or read and stored with k added
Bias(w, n, k) == <<[op |-> "int", w |-> w, n |-> n, k |-> k]>>

\* a constant that is pushed, a value that is pulled into a local variable, a
\* field that is given the value v and then pushed
Lit(w, v) == <<[op |-> "lit", w |-> w, v |-> v]>>
Skip(w) == <<[op |-> "skip", w |-> w]>>
Set(w, n, v) == <<[op |-> "set", w |-> w, n |-> n, v |-> v]>>

\* Counts: a field, a constant, a sum of fields, n divided by u rounded up,
\* n / 8 + 1, the bytes of a channel matrix, and field f of the first of the
\* sub-structs in ss that is present
N(n) == [k |-> "field", n |-> n]
K(c) == [k |-> "const", c |-> c]
SumOf(ns) == [k |-> "sum", ns |-> ns]
Ceil(n, u) == [k |-> "ceil", n |-> n, u |-> u]
Plus1(n) == [k |-> "plus1", n |-> n]
IqSize == [k |-> "iq"]
FirstOf(ss, f) == [k |-> "first", ss |-> ss, f |-> f]

\* larger than any count a 16 bit field can hold
NoMax == 65536

\* pusharray and pullarray: count elements of width w, none at all unless there
\* is room for every one; Fixed is the loop over an array of fixed size
Arr(w, n, cnt, max) == <<[op |-> "arr", w |-> w, n |-> n, cnt |-> cnt, max |-> max]>>
Fixed(w, n, len) == <<[op |-> "fixed", w |-> w, n |-> n, len |-> len]>>

\* packarray and unpackarray, and the loops over a list of structs
List(n, cnt, max, L) == <<[op |-> "list", n |-> n, cnt |-> cnt, max |-> max, body |-> L]>>

\* an unpackarray whose stride is larger than the array: all elements are read,
\* but only the first is stored in it; the others go behind it
Astray(n, cnt, max, L) == <<[op |-> "astray", n |-> n, cnt |-> cnt, max |-> max, body |-> L]>>

\* a struct inside a struct, without a header of its own
Sub(n, L) == <<[op |-> "sub", n |-> n, body |-> L]>>

\* statements whose results are not looked at, and a call whose result is not
\* looked at while its own body stops at the first failure
Lax(L) == <<[op |-> "lax", body |-> L]>>
Call(L) == <<[op |-> "call", body |-> L]>>

\* pack_tlv and pack_nr_tlv
Tlv(tag, n, L) == <<[op |-> "tlv", nr |-> FALSE, tag |-> tag, n |-> n, body |-> L]>>
NrTlv(tag, n, L) == <<[op |-> "tlv", nr |-> TRUE, tag |-> tag, n |-> n, body |-> L]>>

\* the four unpack_tlv_list functions, over entries <<tag, n, L>>; an entry with
\* a fourth component stores its value in the element of a list that a counter
\* of the struct points at, and may advance the counter
TlvList(nr, p7, es) == <<[op |-> "tlvs", nr |-> nr, p7 |-> p7, es |-> es]>>
Tlvs(es) == TlvList(FALSE, FALSE, es)
NrTlvs(es) == TlvList(TRUE, FALSE, es)
P7Tlvs(es) == TlvList(FALSE, TRUE, es)
NrP7Tlvs(es) == TlvList(TRUE, TRUE, es)
At(list, counter, bump) == [list |-> list, counter |-> counter, bump |-> bump]

\* hand written TLV loops: to the end of the packet, over cnt bytes, and one TLV
\* that must come next
Raw(es) == <<[op |-> "raw", cnt |-> K(-1), es |-> es]>>
RawWithin(cnt, es) == <<[op |-> "raw", cnt |-> cnt, es |-> es]>>
Need(tag, n, L) == <<[op |-> "need", e |-> <<tag, n, L>>]>>

\* switch statements over field n, and conditions "field o v"
Default == -1
Switch(n, as) == <<[op |-> "switch", n |-> n, as |-> as]>>
When(n, o, v, L) == <<[op |-> "when", n |-> n, o |-> o, v |-> v, neg |-> FALSE, body |-> L]>>
Unless(n, o, v, L) == <<[op |-> "when", n |-> n, o |-> o, v |-> v, neg |-> TRUE, body |-> L]>>

\* failure, a limit on a field, an assignment, a field set to the TLV's length
Fail == <<[op |-> "fail"]>>
AtMost(n, m) == <<[op |-> "atmost", n |-> n, m |-> m]>>
Put(n, v) == <<[op |-> "put", n |-> n, v |-> v]>>
Measured(n) == <<[op |-> "measured", n |-> n]>>

\* a length field of width w written after its contents L, off more than their
\* size; the reader's bound taken from such a field; the bound given by the
\* length of the TLV being read
Sized(w, n, off, L) == <<[op |-> "sized", w |-> w, n |-> n, off |-> off, body |-> L]>>
Within(cnt, off, check, L) ==
  <<[op |-> "within", cnt |-> cnt, off |-> off, check |-> check, body |-> L]>>
TlvEnd == <<[op |-> "tlvend"]>>

\* the message length in bytes 5 and 6, sub less than the packed size, and the
\* reader's test that the packet holds that many bytes
Length(sub, L) == <<[op |-> "length", sub |-> sub, body |-> L]>>
Fits(n) == <<[op |-> "fits", n |-> n]>>

\* a byte left free for the number of TLVs: base + per * cnt, written after L
Tally(n, base, per, cnt, L) ==
  <<[op |-> "tally", n |-> n, base |-> base, per |-> per, cnt |-> cnt, body |-> L]>>

\* n := how many of the first cnt elements of a list have field f equal to v
CountOf(n, list, cnt, f, v) ==
  <<[op |-> "countof", n |-> n, list |-> list, cnt |-> cnt, f |-> f, v |-> v]>>

\* the offsets of the data that follows a list: it starts after start bytes,
\* each bytes per element and the sizes of the TLVs present, and the present
\* sub-structs ss get the running offset in field f
DataOffsets(list, start, sizes, each, ss, f) ==
  <<[op |-> "offsets", list |-> list, start |-> start, sizes |-> sizes, each |-> each,
     ss |-> ss, f |-> f]>>

\* a DCI payload of as many bits as field bits says
Dci(n, bits) == <<[op |-> "dci", n |-> n, bits |-> bits]>>

\* the dispatch of an unpack function that first looks its message up in ids
Checked(ids, as) ==
  SelectSeq(as, LAMBDA a : a[1] \in ids) \o <<<<Default, Fail>>>>

\* the TLV that the value of field n asks for must have been read
Requires(n, vs) == <<[op |-> "requires", n |-> n, vs |-> vs]>>

==============================================================================
