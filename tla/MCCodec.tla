------------------------------- MODULE MCCodec -------------------------------
(* The P4, P5 and P7 codecs for TLC: every message, lists of two elements and
   empty lists, each selector through all of its alternatives. *)
EXTENDS CodecSession

P7 == INSTANCE P7Codec
P5 == INSTANCE P5Codec
P4 == INSTANCE P4Codec

Shapes(alternatives) ==
  [count : {2}, alt : 0..alternatives, tlv : {"all", "even", "odd"}]
    \cup [count : {0}, alt : {0}, tlv : {"all", "none"}]

Free(ids) == [i \in ids |-> AnyMessage]

------------------------------------------------------------------------------
P7Ids == (128..145 \ {130}) \cup {384, 385, 386}

\* no beamforming vectors in a CSI-RS PDU, whose bf_value the unpack function does not
\* read; the receiver of an RX_ULSCH or an NRACH indication needs all the TLVs of a PDU;
\* the hand written loops of TX.request and UE_RELEASE.request know their own TLVs only
P7Profile == [Free(P7Ids) EXCEPT ![128].pinned = ("num_bf_vector" :> 0),
                                 ![135].whole = TRUE, ![143].whole = TRUE,
                                 ![132].grows = FALSE, ![144].grows = FALSE]

NrP7Ids == (128..137) \cup {145, 384, 385, 386}

\* no PDU groups in a DL_TTI, which pack_dl_tti_request fails to pack; PRACH PDUs only in
\* an UL_TTI: the unpack functions of the others read other fields than were written
NrP7Profile == [Free(NrP7Ids) EXCEPT ![128].pinned = ("nGroup" :> 0),
                                     ![129].pinned = ("pdu_type" :> 0)]

P5Ids == 256..273

\* no eMBMS parameters in a PARAM.response: its unpack table lacks their seven tags,
\* more than MAX_BAD_TAG; one release 12 PHY in a PNF_PARAM.response, as the proxy sends
\* it: the second would not come back
P5Profile ==
  [Free(P5Ids) EXCEPT ![257].single = {"pnf_phy_rel12"}, ![265].omitted =
     {"mbsfn_area_idx", "mbsfn_area_id_r9", "embms_mbsfn_config", "radioframe_allocation_period",
      "radioframe_allocation_offset", "non_mbsfn_config_flag", "non_mbsfn_subframeconfig"}]

NrP5Ids == {0, 1, 2, 4, 5} \cup (256..263) \cup {269, 271}

\* no PRACH occasions in a CONFIG.request: all but the first TLV of one are stored with
\* the next; the stop messages are read by the LTE functions, which expect no padding
NrP5Profile ==
  [i \in NrP5Ids |-> [AnyMessage EXCEPT !.omitted = IF i = 2 THEN {"num_prach_fd_occasions"} ELSE {},
                                        !.whole = i = 2,
                                        !.grows = i \notin {5, 262, 263, 271}]]

P4Ids == 512..528

\* the TLV the RAT asks for is there, and a system information request is not for
\* NB-IoT, which unpack_system_information_request does not accept
P4Profile ==
  [Free(P4Ids) EXCEPT ![512].whole = TRUE, ![515].whole = TRUE, ![524].whole = TRUE,
                      ![524].pinned = ("rat_type" :> 0)]

LteCodec(packer, unpacker, ids, alternatives, profile) ==
  [packer |-> packer, unpacker |-> unpacker, ids |-> ids, shapes |-> Shapes(alternatives),
   short |-> {1, 6}, honest |-> TRUE, bounded |-> TRUE, unknown |-> {0, 3}, padded |-> FALSE,
   profile |-> profile]

\* some NR functions ignore what push returns, and pack_nr_tlv pads without looking at
\* the end of the buffer
NrCodec(packer, unpacker, ids, alternatives, profile) ==
  [LteCodec(packer, unpacker, ids, alternatives, profile)
     EXCEPT !.short = {1}, !.honest = FALSE, !.bounded = FALSE, !.padded = TRUE]

AllCodecs ==
  [P7   |-> LteCodec(P7!nfapi_p7_message_pack, P7!nfapi_p7_message_unpack, P7Ids, 20, P7Profile),
   NrP7 |-> NrCodec(P7!nfapi_nr_p7_message_pack, P7!nfapi_nr_p7_message_unpack, NrP7Ids, 20, NrP7Profile),
   P5   |-> LteCodec(P5!nfapi_p5_message_pack, P5!nfapi_p5_message_unpack, P5Ids, 5, P5Profile),
   NrP5 |-> NrCodec(P5!nfapi_nr_p5_message_pack, P5!nfapi_nr_p5_message_unpack, NrP5Ids, 5, NrP5Profile),
   P4   |-> LteCodec(P4!nfapi_p4_message_pack, P4!nfapi_p4_message_unpack, P4Ids, 5, P4Profile)]

------------------------------------------------------------------------------
(* The data of RX_ULSCH and CQI indications lies behind the list of PDUs, and each
   PDU tells where: pack_rx_ulsch_indication_body_value and
   pack_cqi_indication_body_value compute the offsets before anything is packed,
   from the sizes they expect the TLVs to have. *)

\* the body's value starts behind the header, sfn_sf and the body's tag and length
BodyValueAt == 16 + 2 + 4

HasDataAt(e, s, offset, data) ==
  s \in DOMAIN e /\ data \in DOMAIN e =>
    SubSeq(packed.out, BodyValueAt + e[s][offset] + 1,
                       BodyValueAt + e[s][offset] + Len(e[data])) = e[data]

\* Every offset a packed indication carries is where the data of its PDU begins,
\* whichever optional TLVs precede it; a CQI PDU has one of its two formats.
DataAtOffset ==
  phase = "packed" /\ packed.ok /\ codec = "P7" =>
    LET m == packed.sc[1] IN
    /\ "rx_indication_body" \in DOMAIN m /\ "rx_pdu_list" \in DOMAIN m["rx_indication_body"] =>
         \A i \in DOMAIN m["rx_indication_body"].rx_pdu_list :
           HasDataAt(m["rx_indication_body"].rx_pdu_list[i],
                     "rx_indication_rel8", "offset", "rx_ind_data")
    /\ "cqi_indication_body" \in DOMAIN m /\ "cqi_pdu_list" \in DOMAIN m["cqi_indication_body"] =>
         \A i \in DOMAIN m["cqi_indication_body"].cqi_pdu_list :
           LET e == m["cqi_indication_body"].cqi_pdu_list[i]
               formats == {"cqi_indication_rel8", "cqi_indication_rel9"} \cap DOMAIN e
           IN Cardinality(formats) = 1 =>
                \A f \in formats : HasDataAt(e, f, "data_offset", "pdu")

=============================================================================
