------------------------------- MODULE P7Codec -------------------------------
(* The two P7 codecs: the 16 byte header and the body its message_id selects.
   The callers' buffers are taken to be large enough for the struct, so that
   check_unpack_length only tells whether it knows the message. *)
EXTENDS P7PackRequests, P7PackIndications, P7UnpackRequests, P7UnpackIndications

check_unpack_length ==
  {128, 129, 130, 131, 132, 133, 134, 135, 136, 137, 138, 139, 140, 141, 142, 143, 144, 145, 384,
   385, 386}

check_nr_unpack_length ==
  {128, 129, 130, 131, 132, 133, 134, 135, 136, 137, 144, 145, 384, 385, 386}

nfapi_p7_header ==
  U16(<<"phy_id", "message_id">>) \o Lit(2, 0) \o U16(<<"m_segment_sequence">>) \o Lit(4, 0) \o
  U32(<<"transmit_timestamp">>)

nfapi_p7_message_header_unpack ==
  U16(<<"phy_id", "message_id", "message_length", "m_segment_sequence">>) \o
  U32(<<"checksum", "transmit_timestamp">>)

nfapi_nr_p7_message_pack ==
  Length(0,
         nfapi_p7_header \o
         Switch("message_id",
                <<<<128, pack_dl_tti_request>>, <<129, pack_ul_tti_request>>,
                  <<132, pack_tx_data_request>>, <<131, pack_ul_dci_request>>,
                  <<144, pack_nr_ue_release_request>>,
                  <<145, pack_ue_release_response>>,
                  <<130, pack_nr_slot_indication>>,
                  <<133, pack_nr_rx_data_indication>>,
                  <<134, pack_nr_crc_indication>>,
                  <<135, pack_nr_uci_indication>>,
                  <<136, pack_nr_srs_indication>>,
                  <<137, pack_nr_rach_indication>>, <<385, pack_nr_dl_node_sync>>,
                  <<384, pack_nr_ul_node_sync>>, <<386, pack_nr_timing_info>>>> \o
                <<<<Default, Fail>>>>))

nfapi_p7_message_pack ==
  Length(0,
         nfapi_p7_header \o
         Switch("message_id",
                <<<<128, pack_dl_config_request>>, <<129, pack_ul_config_request>>,
                  <<132, pack_tx_request>>, <<131, pack_hi_dci0_request>>,
                  <<144, pack_ue_release_request>>,
                  <<145, pack_ue_release_response>>,
                  <<133, pack_harq_indication>>, <<134, pack_crc_indication>>,
                  <<135, pack_rx_ulsch_indication>>,
                  <<136, pack_rach_indication>>, <<137, pack_srs_indication>>,
                  <<138, pack_sr_indication>>, <<139, pack_cqi_indication>>,
                  <<140, pack_lbt_dl_config_request>>,
                  <<141, pack_lbt_dl_indication>>,
                  <<142, pack_nb_harq_indication>>,
                  <<143, pack_nrach_indication>>, <<385, pack_dl_node_sync>>,
                  <<384, pack_ul_node_sync>>, <<386, pack_timing_info>>>> \o
                <<<<Default, Fail>>>>))

nfapi_p7_message_unpack ==
  nfapi_p7_message_header_unpack \o Fits("message_length") \o
  Switch("message_id",
         Checked(check_unpack_length,
                 <<<<128, unpack_dl_config_request>>, <<129, unpack_ul_config_request>>,
                   <<132, unpack_tx_request>>, <<131, unpack_hi_dci0_request>>,
                   <<144, unpack_ue_release_request>>,
                   <<133, unpack_harq_indication>>,
                   <<134, unpack_crc_indication>>, <<135, unpack_rx_indication>>,
                   <<136, unpack_rach_indication>>,
                   <<137, unpack_srs_indication>>, <<138, unpack_sr_indication>>,
                   <<139, unpack_cqi_indication>>,
                   <<140, unpack_lbt_dl_config_request>>,
                   <<141, unpack_lbt_dl_indication>>,
                   <<142, unpack_nb_harq_indication>>,
                   <<143, unpack_nrach_indication>>,
                   <<385, unpack_dl_node_sync>>, <<384, unpack_ul_node_sync>>,
                   <<386, unpack_timing_info>>,
                   <<145, unpack_ue_release_resp>>>>))

nfapi_nr_p7_message_unpack ==
  nfapi_p7_message_header_unpack \o Fits("message_length") \o
  Switch("message_id",
         Checked(check_nr_unpack_length,
                 <<<<128, unpack_dl_tti_request>>, <<129, unpack_ul_tti_request>>,
                   <<132, unpack_tx_data_request>>,
                   <<131, unpack_ul_dci_request>>,
                   <<144, unpack_ue_release_request>>,
                   <<130, unpack_nr_slot_indication>>,
                   <<133, unpack_nr_rx_data_indication>>,
                   <<134, unpack_nr_crc_indication>>,
                   <<135, unpack_nr_uci_indication>>,
                   <<136, unpack_nr_srs_indication>>,
                   <<137, unpack_nr_rach_indication>>,
                   <<385, unpack_nr_dl_node_sync>>,
                   <<384, unpack_nr_ul_node_sync>>,
                   <<386, unpack_nr_timing_info>>,
                   <<145, unpack_ue_release_resp>>>>))

==============================================================================
