------------------------- MODULE P7UnpackIndications -------------------------
(* What each unpack_ function of nfapi_p7.c reads for the indications, the
   release and the node sync messages of the P7 interface. *)
EXTENDS Layout

\* defect: the two fields read in the other order
RxUeInformationSwapped ==
  U16(<<"rnti">>) \o U32(<<"handle">>)

unpack_rx_ue_information_value ==
  U32(<<"handle">>) \o U16(<<"rnti">>)

unpack_nr_slot_indication ==
  U16(<<"sfn", "slot">>)

unpack_nr_rx_data_indication_body ==
  U32(<<"handle">>) \o U16(<<"rnti">>) \o U8(<<"harq_id">>) \o U16(<<"pdu_length">>) \o
  U8(<<"ul_cqi">>) \o U16(<<"timing_advance", "rssi">>) \o Arr(1, "pdu", N("pdu_length"), NoMax)

unpack_nr_rx_data_indication ==
  U16(<<"sfn", "slot", "number_of_pdus">>) \o
  List("pdu_list", N("number_of_pdus"), NoMax, unpack_nr_rx_data_indication_body)

unpack_nr_crc_indication_body ==
  Lax(U32(<<"handle">>) \o U16(<<"rnti">>) \o U8(<<"harq_id", "tb_crc_status">>) \o
      U16(<<"num_cb">>) \o
      When("num_cb", "!=", 0, Arr(1, "cb_crc_status", Plus1("num_cb"), NoMax)) \o
      U8(<<"ul_cqi">>) \o U16(<<"timing_advance", "rssi">>))

unpack_nr_crc_indication ==
  U16(<<"sfn", "slot", "number_crcs">>) \o
  List("crc_list", N("number_crcs"), NoMax, unpack_nr_crc_indication_body)

unpack_nr_srs_normalized_channel_iq_matrix ==
  U8(<<"normalized_iq_representation">>) \o
  U16(<<"num_gnb_antenna_elements", "num_ue_srs_ports", "prg_size", "num_prgs">>) \o
  List("channel_matrix", IqSize, NoMax, U8(<<"channel_matrix">>))

unpack_nr_srs_reported_symbol ==
  U16(<<"num_prgs">>) \o List("prg_list", N("num_prgs"), NoMax, U8(<<"rb_snr">>))

unpack_nr_srs_beamforming_report ==
  U16(<<"prg_size">>) \o U8(<<"num_symbols", "wide_band_snr", "num_reported_symbols">>) \o
  unpack_nr_srs_reported_symbol

unpack_nr_srs_report_tlv ==
  U16(<<"tag">>) \o U32(<<"length">>) \o List("value", N("length"), NoMax, U32(<<"value">>))

unpack_nr_srs_indication_body ==
  U32(<<"handle">>) \o U16(<<"rnti", "timing_advance_offset", "timing_advance_offset_nsec">>) \o
  U8(<<"srs_usage", "report_type">>) \o unpack_nr_srs_report_tlv

unpack_nr_srs_indication ==
  U16(<<"sfn", "slot", "control_length">>) \o U8(<<"number_of_pdus">>) \o
  List("pdu_list", N("number_of_pdus"), NoMax, unpack_nr_srs_indication_body)

unpack_nr_rach_indication_body ==
  Lax(U16(<<"phy_cell_id">>) \o
      U8(<<"symbol_index", "slot_index", "freq_index", "avg_rssi", "avg_snr">>)) \o
  U8(<<"num_preamble">>) \o
  List("preamble_list", N("num_preamble"), NoMax,
       Lax(U8(<<"preamble_index">>) \o U16(<<"timing_advance">>)) \o U32(<<"preamble_pwr">>))

unpack_nr_rach_indication ==
  Lax(U16(<<"sfn", "slot">>)) \o U8(<<"number_of_pdus">>) \o
  List("pdu_list", N("number_of_pdus"), NoMax, unpack_nr_rach_indication_body)

unpack_nr_uci_pucch_0_1 ==
  U8(<<"pduBitmap">>) \o U32(<<"handle">>) \o U16(<<"rnti">>) \o
  U8(<<"pucch_format", "ul_cqi">>) \o U16(<<"timing_advance", "rssi">>) \o
  When("pduBitmap", "&", 1, U8(<<"sr_indication", "sr_confidence_level">>)) \o
  When("pduBitmap", "&", 2,
       U8(<<"num_harq", "harq_confidence_level">>) \o
       When("num_harq", ">", 0, List("harq_list", N("num_harq"), NoMax, U8(<<"harq_value">>))))

unpack_nr_uci_pucch_2_3_4 ==
  U8(<<"pduBitmap">>) \o U32(<<"handle">>) \o U16(<<"rnti">>) \o Bias(1, "pucch_format", 2) \o
  U8(<<"ul_cqi">>) \o U16(<<"timing_advance", "rssi">>) \o
  When("pduBitmap", "&", 1,
       U16(<<"sr_bit_len">>) \o Arr(1, "sr_payload", Plus1("sr_bit_len"), NoMax)) \o
  When("pduBitmap", "&", 2,
       U8(<<"harq_crc">>) \o U16(<<"harq_bit_len">>) \o
       Arr(1, "harq_payload", Plus1("harq_bit_len"), NoMax)) \o
  When("pduBitmap", "&", 4,
       U8(<<"csi_part1_crc">>) \o U16(<<"csi_part1_bit_len">>) \o
       Arr(1, "csi_part1_payload", Plus1("csi_part1_bit_len"), NoMax)) \o
  When("pduBitmap", "&", 8,
       U8(<<"csi_part2_crc">>) \o U16(<<"csi_part2_bit_len">>) \o
       Arr(1, "csi_part2_payload", Plus1("csi_part2_bit_len"), NoMax))

unpack_nr_uci_pusch ==
  U8(<<"pduBitmap">>) \o U32(<<"handle">>) \o U16(<<"rnti">>) \o U8(<<"ul_cqi">>) \o
  U16(<<"timing_advance", "rssi">>) \o
  When("pduBitmap", "&", 2,
       U8(<<"harq_crc">>) \o U16(<<"harq_bit_len">>) \o
       Arr(1, "harq_payload", Plus1("harq_bit_len"), NoMax)) \o
  When("pduBitmap", "&", 4,
       U8(<<"csi_part1_crc">>) \o U16(<<"csi_part1_bit_len">>) \o
       Arr(1, "csi_part1_payload", Plus1("csi_part1_bit_len"), NoMax)) \o
  When("pduBitmap", "&", 8,
       U8(<<"csi_part2_crc">>) \o U16(<<"csi_part2_bit_len">>) \o
       Arr(1, "csi_part2_payload", Plus1("csi_part2_bit_len"), NoMax))

unpack_nr_uci_indication_body ==
  U16(<<"pdu_type", "pdu_size">>) \o
  Switch("pdu_type",
         <<<<0, unpack_nr_uci_pusch>>, <<1, unpack_nr_uci_pucch_0_1>>,
           <<2, unpack_nr_uci_pucch_2_3_4>>>>)

unpack_nr_uci_indication ==
  U16(<<"sfn", "slot", "num_ucis">>) \o
  List("uci_list", N("num_ucis"), NoMax, unpack_nr_uci_indication_body)

unpack_ue_release_request ==
  U16(<<"sfn_sf">>) \o
  Raw(<<<<\h2068, "ue_release_request_body",
          U16(<<"number_of_TLVs">>) \o
          List("ue_release_request_TLVs_list", N("number_of_TLVs"), 256, U16(<<"rnti">>))>>>>)

unpack_harq_indication_tdd_harq_data_bundling ==
  U8(<<"value_0", "value_1">>)

unpack_harq_indication_tdd_harq_data_multiplexing ==
  U8(<<"value_0", "value_1", "value_2", "value_3">>)

unpack_harq_indication_tdd_harq_data_special_bundling ==
  U8(<<"value_0">>)

unpack_harq_indication_tdd_harq_data ==
  U8(<<"value_0">>)

unpack_harq_indication_tdd_rel8_value ==
  U8(<<"mode", "number_of_ack_nack">>) \o
  Switch("mode",
         <<<<0, unpack_harq_indication_tdd_harq_data_bundling>>,
           <<1, unpack_harq_indication_tdd_harq_data_multiplexing>>,
           <<2, unpack_harq_indication_tdd_harq_data_special_bundling>>, <<3, <<>>>>,
           <<4, <<>>>>, <<Default, Fail>>>>)

unpack_harq_indication_tdd_rel9_value ==
  U8(<<"mode", "number_of_ack_nack">>) \o AtMost("number_of_ack_nack", 8) \o
  List("harq_data", N("number_of_ack_nack"), NoMax,
       Switch("mode",
              <<<<0, unpack_harq_indication_tdd_harq_data>>,
                <<1, unpack_harq_indication_tdd_harq_data>>,
                <<2, unpack_harq_indication_tdd_harq_data_special_bundling>>,
                <<3, unpack_harq_indication_tdd_harq_data>>,
                <<4, unpack_harq_indication_tdd_harq_data>>, <<Default, Fail>>>>))

unpack_harq_indication_tdd_rel13_value ==
  U8(<<"mode">>) \o U16(<<"number_of_ack_nack">>) \o AtMost("number_of_ack_nack", 8) \o
  List("harq_data", N("number_of_ack_nack"), NoMax,
       Switch("mode",
              <<<<0, unpack_harq_indication_tdd_harq_data>>,
                <<1, unpack_harq_indication_tdd_harq_data>>,
                <<2, unpack_harq_indication_tdd_harq_data_special_bundling>>,
                <<3, unpack_harq_indication_tdd_harq_data>>,
                <<4, unpack_harq_indication_tdd_harq_data>>,
                <<5, unpack_harq_indication_tdd_harq_data>>,
                <<6, unpack_harq_indication_tdd_harq_data>>, <<Default, Fail>>>>))

unpack_harq_indication_fdd_rel8_value ==
  U8(<<"harq_tb1", "harq_tb2">>)

unpack_harq_indication_fdd_rel9_value ==
  U8(<<"mode", "number_of_ack_nack">>) \o Arr(1, "harq_tb_n", N("number_of_ack_nack"), 10)

unpack_harq_indication_fdd_rel13_value ==
  U8(<<"mode">>) \o U16(<<"number_of_ack_nack">>) \o
  Arr(1, "harq_tb_n", N("number_of_ack_nack"), 22)

unpack_ul_cqi_information_value ==
  U8(<<"ul_cqi", "channel">>)

unpack_harq_indication_body_value ==
  TlvEnd \o U16(<<"number_of_harqs">>) \o AtMost("number_of_harqs", 100) \o
  AtMost("number_of_harqs", 100) \o
  List("harq_pdu_list", N("number_of_harqs"), NoMax,
       U16(<<"instance_length">>) \o
       Within(N("instance_length"), 0, FALSE,
              Tlvs(<<<<\h2038, "rx_ue_information", unpack_rx_ue_information_value>>,
                     <<\h2027, "harq_indication_tdd_rel8",
                       unpack_harq_indication_tdd_rel8_value>>,
                     <<\h2028, "harq_indication_tdd_rel9",
                       unpack_harq_indication_tdd_rel9_value>>,
                     <<\h204F, "harq_indication_tdd_rel13",
                       unpack_harq_indication_tdd_rel13_value>>,
                     <<\h2029, "harq_indication_fdd_rel8",
                       unpack_harq_indication_fdd_rel8_value>>,
                     <<\h202A, "harq_indication_fdd_rel9",
                       unpack_harq_indication_fdd_rel9_value>>,
                     <<\h2050, "harq_indication_fdd_rel13",
                       unpack_harq_indication_fdd_rel13_value>>,
                     <<\h2052, "ul_cqi_information", unpack_ul_cqi_information_value>>>>)))

unpack_harq_indication ==
  U16(<<"sfn_sf">>) \o
  P7Tlvs(<<<<\h2026, "harq_indication_body", unpack_harq_indication_body_value>>>>)

unpack_crc_indication_rel8_value ==
  U8(<<"crc_flag">>)

unpack_crc_indication_body_value ==
  TlvEnd \o U16(<<"number_of_crcs">>) \o AtMost("number_of_crcs", 100) \o
  When("number_of_crcs", ">", 0, AtMost("number_of_crcs", 100)) \o
  Lax(Unless("number_of_crcs", ">", 0, <<>>)) \o
  List("crc_pdu_list", N("number_of_crcs"), NoMax,
       U16(<<"instance_length">>) \o
       Within(N("instance_length"), 0, FALSE,
              Tlvs(<<<<\h2038, "rx_ue_information", unpack_rx_ue_information_value>>,
                     <<\h202C, "crc_indication_rel8", unpack_crc_indication_rel8_value>>>>)))

unpack_crc_indication ==
  U16(<<"sfn_sf">>) \o
  P7Tlvs(<<<<\h202B, "crc_indication_body", unpack_crc_indication_body_value>>>>)

unpack_rx_indication_rel8_value ==
  U16(<<"length", "offset">>) \o U8(<<"ul_cqi">>) \o U16(<<"timing_advance">>)

unpack_rx_indication_rel9_value ==
  U16(<<"timing_advance_r9">>)

unpack_rx_indication_body_value ==
  TlvEnd \o U16(<<"number_of_pdus">>) \o
  List("rx_pdu_list", N("number_of_pdus"), 100,
       Need(\h2038, "rx_ue_information", unpack_rx_ue_information_value) \o
       Need(\h2024, "rx_indication_rel8", unpack_rx_indication_rel8_value) \o
       Need(\h2025, "rx_indication_rel9", unpack_rx_indication_rel9_value)) \o
  List("rx_pdu_list", N("number_of_pdus"), NoMax,
       Arr(1, "rx_ind_data", FirstOf(<<"rx_indication_rel8">>, "length"), 8192))

unpack_rx_indication ==
  U16(<<"sfn_sf">>) \o
  P7Tlvs(<<<<\h2023, "rx_indication_body", unpack_rx_indication_body_value>>>>)

unpack_preamble_pdu_rel8_value ==
  U16(<<"rnti">>) \o U8(<<"preamble">>) \o U16(<<"timing_advance">>)

unpack_preamble_pdu_rel9_value ==
  U16(<<"timing_advance_r9">>)

unpack_preamble_pdu_rel13_value ==
  U8(<<"rach_resource_type">>)

unpack_rach_indication_body_value ==
  TlvEnd \o U16(<<"number_of_preambles">>) \o AtMost("number_of_preambles", 100) \o
  List("preamble_list", N("number_of_preambles"), NoMax,
       U16(<<"instance_length">>) \o
       Within(N("instance_length"), 0, FALSE,
              Tlvs(<<<<\h2032, "preamble_rel8", unpack_preamble_pdu_rel8_value>>,
                     <<\h2033, "preamble_rel9", unpack_preamble_pdu_rel9_value>>,
                     <<\h2051, "preamble_rel13", unpack_preamble_pdu_rel13_value>>>>)))

unpack_rach_indication ==
  U16(<<"sfn_sf">>) \o
  P7Tlvs(<<<<\h2031, "rach_indication_body", unpack_rach_indication_body_value>>>>)

unpack_srs_indication_fdd_rel8_value ==
  U16(<<"doppler_estimation", "timing_advance">>) \o
  U8(<<"number_of_resource_blocks", "rb_start">>) \o
  Arr(1, "snr", N("number_of_resource_blocks"), 1000)

unpack_srs_indication_fdd_rel9_value ==
  U16(<<"timing_advance_r9">>)

unpack_srs_indication_tdd_rel10_value ==
  U8(<<"uppts_symbol">>)

unpack_srs_indication_fdd_rel11_value ==
  U16(<<"ul_rtoa">>)

unpack_tdd_channel_measurement_value ==
  U8(<<"num_prb_per_subband", "number_of_subbands", "num_atennas">>) \o
  AtMost("number_of_subbands", 13) \o AtMost("num_atennas", 8) \o
  List("subands", N("number_of_subbands"), NoMax,
       U8(<<"subband_index">>) \o Arr(2, "channel", N("num_atennas"), 8))

unpack_srs_indication_body_value ==
  TlvEnd \o U8(<<"number_of_ues">>) \o AtMost("number_of_ues", 16) \o
  List("srs_pdu_list", N("number_of_ues"), NoMax,
       U16(<<"instance_length">>) \o
       Within(N("instance_length"), 0, FALSE,
              Tlvs(<<<<\h2038, "rx_ue_information", unpack_rx_ue_information_value>>,
                     <<\h2035, "srs_indication_fdd_rel8", unpack_srs_indication_fdd_rel8_value>>,
                     <<\h2036, "srs_indication_fdd_rel9", unpack_srs_indication_fdd_rel9_value>>,
                     <<\h2037, "srs_indication_tdd_rel10",
                       unpack_srs_indication_tdd_rel10_value>>,
                     <<\h2053, "srs_indication_fdd_rel11",
                       unpack_srs_indication_fdd_rel11_value>>,
                     <<\h2054, "tdd_channel_measurement",
                       unpack_tdd_channel_measurement_value>>>>)))

unpack_srs_indication ==
  U16(<<"sfn_sf">>) \o
  P7Tlvs(<<<<\h2034, "srs_indication_body", unpack_srs_indication_body_value>>>>)

unpack_sr_indication_body_value ==
  TlvEnd \o U16(<<"number_of_srs">>) \o AtMost("number_of_srs", 100) \o
  List("sr_pdu_list", N("number_of_srs"), NoMax,
       U16(<<"instance_length">>) \o
       Within(N("instance_length"), 0, FALSE,
              Tlvs(<<<<\h2038, "rx_ue_information", unpack_rx_ue_information_value>>,
                     <<\h2052, "ul_cqi_information", unpack_ul_cqi_information_value>>>>)))

unpack_sr_indication ==
  U16(<<"sfn_sf">>) \o
  P7Tlvs(<<<<\h202D, "sr_indication_body", unpack_sr_indication_body_value>>>>)

unpack_cqi_indication_rel8_value ==
  U16(<<"length", "data_offset">>) \o U8(<<"ul_cqi", "ri">>) \o U16(<<"timing_advance">>)

unpack_cqi_indication_rel9_value ==
  U16(<<"length", "data_offset">>) \o U8(<<"ul_cqi", "number_of_cc_reported">>) \o
  AtMost("number_of_cc_reported", 4) \o Arr(1, "ri", N("number_of_cc_reported"), 4) \o
  U16(<<"timing_advance", "timing_advance_r9">>)

unpack_cqi_indication_body_value ==
  TlvEnd \o U16(<<"number_of_cqis">>) \o
  When("number_of_cqis", "<=", 100,
       List("cqi_pdu_list", N("number_of_cqis"), NoMax,
            U16(<<"instance_length">>) \o
            RawWithin(N("instance_length"),
                      <<<<\h2038, "rx_ue_information", unpack_rx_ue_information_value>>,
                        <<\h202F, "cqi_indication_rel8", unpack_cqi_indication_rel8_value>>,
                        <<\h2030, "cqi_indication_rel9", unpack_cqi_indication_rel9_value>>,
                        <<\h2052, "ul_cqi_information", unpack_ul_cqi_information_value>>>>)) \o
       List("cqi_pdu_list", N("number_of_cqis"), NoMax,
            Arr(1, "pdu", FirstOf(<<"cqi_indication_rel8", "cqi_indication_rel9">>, "length"),
                12)))

unpack_cqi_indication ==
  U16(<<"sfn_sf">>) \o
  P7Tlvs(<<<<\h202E, "cqi_indication_body", unpack_cqi_indication_body_value>>>>)

unpack_lbt_pdsch_req_pdu_rel13_value ==
  U32(<<"handle", "mp_cca", "n_cca", "offset", "lte_txop_sf">>) \o U16(<<"txop_sfn_sf_end">>) \o
  U32(<<"lbt_mode">>)

unpack_lbt_drs_req_pdu_rel13_value ==
  U32(<<"handle", "offset">>) \o U16(<<"sfn_sf_end">>) \o U32(<<"lbt_mode">>)

unpack_lbt_config_request_body_value ==
  U16(<<"number_of_pdus">>) \o AtMost("number_of_pdus", 16) \o
  List("lbt_dl_config_req_pdu_list", N("number_of_pdus"), NoMax,
       U8(<<"pdu_type", "pdu_size">>) \o
       Within(N("pdu_size"), 2, TRUE,
              Switch("pdu_type",
                     <<<<0,
                         Call(Tlvs(<<<<\h2056, "lbt_pdsch_req_pdu_rel13",
                                       unpack_lbt_pdsch_req_pdu_rel13_value>>>>))>>,
                       <<1,
                         Call(Tlvs(<<<<\h2057, "lbt_drs_req_pdu_rel13",
                                       unpack_lbt_drs_req_pdu_rel13_value>>>>))>>,
                       <<Default, Fail>>>>)))

unpack_lbt_dl_config_request ==
  U16(<<"sfn_sf">>) \o
  P7Tlvs(<<<<\h2055, "lbt_dl_config_request_body", unpack_lbt_config_request_body_value>>>>)

unpack_lbt_pdsch_rsp_pdu_rel13_value ==
  U32(<<"handle", "result", "lte_txop_symbols", "initial_partial_sf">>)

unpack_lbt_drs_rsp_pdu_rel13_value ==
  U32(<<"handle", "result">>)

unpack_lbt_indication_body_value ==
  U16(<<"number_of_pdus">>) \o AtMost("number_of_pdus", 16) \o
  List("lbt_indication_pdu_list", N("number_of_pdus"), NoMax,
       U8(<<"pdu_type", "pdu_size">>) \o
       Within(N("pdu_size"), 2, TRUE,
              Switch("pdu_type",
                     <<<<0,
                         Call(Tlvs(<<<<\h2059, "lbt_pdsch_rsp_pdu_rel13",
                                       unpack_lbt_pdsch_rsp_pdu_rel13_value>>>>))>>,
                       <<1,
                         Call(Tlvs(<<<<\h205A, "lbt_drs_rsp_pdu_rel13",
                                       unpack_lbt_drs_rsp_pdu_rel13_value>>>>))>>,
                       <<Default, Fail>>>>)))

unpack_lbt_dl_indication ==
  U16(<<"sfn_sf">>) \o
  P7Tlvs(<<<<\h2058, "lbt_dl_indication_body", unpack_lbt_indication_body_value>>>>)

unpack_nb_harq_indication_fdd_rel13_value ==
  U8(<<"harq_tb1">>)

unpack_nb_harq_indication_body_value ==
  TlvEnd \o U16(<<"number_of_harqs">>) \o AtMost("number_of_harqs", 100) \o
  List("nb_harq_pdu_list", N("number_of_harqs"), NoMax,
       U16(<<"instance_length">>) \o
       Within(N("instance_length"), 0, FALSE,
              Tlvs(<<<<\h2038, "rx_ue_information", unpack_rx_ue_information_value>>,
                     <<\h2064, "nb_harq_indication_fdd_rel13",
                       unpack_nb_harq_indication_fdd_rel13_value>>,
                     <<\h2052, "ul_cqi_information", unpack_ul_cqi_information_value>>>>)))

unpack_nb_harq_indication ==
  U16(<<"sfn_sf">>) \o
  P7Tlvs(<<<<\h2063, "nb_harq_indication_body", unpack_nb_harq_indication_body_value>>>>)

unpack_nrach_indication_rel13_value ==
  U16(<<"rnti">>) \o U8(<<"initial_sc">>) \o U16(<<"timing_advance">>) \o U8(<<"nrach_ce_level">>)

unpack_ue_release_resp ==
  U32(<<"error_code">>)

unpack_nrach_indication_body_value ==
  TlvEnd \o U8(<<"number_of_initial_scs_detected">>) \o
  AtMost("number_of_initial_scs_detected", 100) \o
  List("nrach_pdu_list", N("number_of_initial_scs_detected"), NoMax,
       Within(K(10), 0, FALSE,
              Tlvs(<<<<\h2066, "nrach_indication_rel13",
                       unpack_nrach_indication_rel13_value>>>>)))

unpack_nrach_indication ==
  U16(<<"sfn_sf">>) \o
  P7Tlvs(<<<<\h2065, "nrach_indication_body", unpack_nrach_indication_body_value>>>>)

unpack_nr_dl_node_sync ==
  U32(<<"t1", "delta_sfn_slot">>) \o NrP7Tlvs(<<>>)

unpack_dl_node_sync ==
  U32(<<"t1", "delta_sfn_sf">>) \o P7Tlvs(<<>>)

unpack_nr_ul_node_sync ==
  U32(<<"t1", "t2", "t3">>) \o NrP7Tlvs(<<>>)

unpack_ul_node_sync ==
  U32(<<"t1", "t2", "t3">>) \o P7Tlvs(<<>>)

unpack_timing_info ==
  U32(<<"last_sfn_sf", "time_since_last_timing_info", "dl_config_jitter", "tx_request_jitter",
        "ul_config_jitter", "hi_dci0_jitter", "dl_config_latest_delay", "tx_request_latest_delay",
        "ul_config_latest_delay", "hi_dci0_latest_delay", "dl_config_earliest_arrival",
        "tx_request_earliest_arrival", "ul_config_earliest_arrival",
        "hi_dci0_earliest_arrival">>) \o P7Tlvs(<<>>)

unpack_nr_timing_info ==
  U32(<<"last_sfn", "last_slot", "time_since_last_timing_info", "dl_tti_jitter",
        "tx_data_request_jitter", "ul_tti_jitter", "ul_dci_jitter", "dl_tti_latest_delay",
        "tx_data_request_latest_delay", "ul_tti_latest_delay", "ul_dci_latest_delay",
        "dl_tti_earliest_arrival", "tx_data_request_earliest_arrival", "ul_tti_earliest_arrival",
        "ul_dci_earliest_arrival">>) \o NrP7Tlvs(<<>>)

==============================================================================
