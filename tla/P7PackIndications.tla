-------------------------- MODULE P7PackIndications --------------------------
(* What each pack_ function of nfapi_p7.c writes for the indications and the
   node sync and timing messages of the LTE and the NR P7 interface. *)
EXTENDS Layout

pack_ue_release_response ==
  U32(<<"error_code">>)

pack_rx_ue_information_value ==
  U32(<<"handle">>) \o U16(<<"rnti">>)

pack_harq_indication_tdd_harq_data_bundling ==
  U8(<<"value_0", "value_1">>)

pack_harq_indication_tdd_harq_data_multiplexing ==
  U8(<<"value_0", "value_1", "value_2", "value_3">>)

pack_harq_indication_tdd_harq_data_special_bundling ==
  U8(<<"value_0">>)

pack_harq_indication_tdd_harq_data ==
  U8(<<"value_0">>)

pack_harq_indication_tdd_rel8_value ==
  U8(<<"mode", "number_of_ack_nack">>) \o
  Switch("mode",
         <<<<0, pack_harq_indication_tdd_harq_data_bundling>>,
           <<1, pack_harq_indication_tdd_harq_data_multiplexing>>,
           <<2, pack_harq_indication_tdd_harq_data_special_bundling>>, <<3, <<>>>>,
           <<4, <<>>>>, <<Default, Fail>>>>)

pack_harq_indication_tdd_rel9_value ==
  U8(<<"mode", "number_of_ack_nack">>) \o
  List("harq_data", N("number_of_ack_nack"), NoMax,
       Switch("mode",
              <<<<0, pack_harq_indication_tdd_harq_data>>,
                <<1, pack_harq_indication_tdd_harq_data>>,
                <<2, pack_harq_indication_tdd_harq_data_special_bundling>>,
                <<3, pack_harq_indication_tdd_harq_data>>,
                <<4, pack_harq_indication_tdd_harq_data>>, <<Default, Fail>>>>))

pack_harq_indication_tdd_rel13_value ==
  U8(<<"mode">>) \o U16(<<"number_of_ack_nack">>) \o
  List("harq_data", N("number_of_ack_nack"), NoMax,
       Switch("mode",
              <<<<0, pack_harq_indication_tdd_harq_data>>,
                <<1, pack_harq_indication_tdd_harq_data>>,
                <<2, pack_harq_indication_tdd_harq_data_special_bundling>>,
                <<3, pack_harq_indication_tdd_harq_data>>,
                <<4, pack_harq_indication_tdd_harq_data>>,
                <<5, pack_harq_indication_tdd_harq_data>>,
                <<6, pack_harq_indication_tdd_harq_data>>, <<Default, Fail>>>>))

pack_harq_indication_fdd_rel8_value ==
  U8(<<"harq_tb1", "harq_tb2">>)

pack_harq_indication_fdd_rel9_value ==
  U8(<<"mode", "number_of_ack_nack">>) \o Arr(1, "harq_tb_n", N("number_of_ack_nack"), 10)

pack_harq_indication_fdd_rel13_value ==
  U8(<<"mode">>) \o U16(<<"number_of_ack_nack">>) \o
  Arr(1, "harq_tb_n", N("number_of_ack_nack"), 22)

pack_ul_cqi_information_value ==
  U8(<<"ul_cqi", "channel">>)

pack_harq_indication_body_value ==
  U16(<<"number_of_harqs">>) \o
  List("harq_pdu_list", N("number_of_harqs"), NoMax,
       Sized(2, "instance_length", 0,
             Tlv(\h2038, "rx_ue_information", pack_rx_ue_information_value) \o
             Tlv(\h2027, "harq_indication_tdd_rel8", pack_harq_indication_tdd_rel8_value) \o
             Tlv(\h2028, "harq_indication_tdd_rel9", pack_harq_indication_tdd_rel9_value) \o
             Tlv(\h204F, "harq_indication_tdd_rel13", pack_harq_indication_tdd_rel13_value) \o
             Tlv(\h2029, "harq_indication_fdd_rel8", pack_harq_indication_fdd_rel8_value) \o
             Tlv(\h202A, "harq_indication_fdd_rel9", pack_harq_indication_fdd_rel9_value) \o
             Tlv(\h2050, "harq_indication_fdd_rel13", pack_harq_indication_fdd_rel13_value) \o
             Tlv(\h2052, "ul_cqi_information", pack_ul_cqi_information_value)))

pack_harq_indication ==
  U16(<<"sfn_sf">>) \o Tlv(\h2026, "harq_indication_body", pack_harq_indication_body_value)

pack_crc_indication_rel8_body ==
  U8(<<"crc_flag">>)

pack_crc_indication_body_value ==
  U16(<<"number_of_crcs">>) \o AtMost("number_of_crcs", 100) \o
  List("crc_pdu_list", N("number_of_crcs"), NoMax,
       Sized(2, "instance_length", 0,
             Tlv(\h2038, "rx_ue_information", pack_rx_ue_information_value) \o
             Tlv(\h202C, "crc_indication_rel8", pack_crc_indication_rel8_body)))

pack_crc_indication ==
  U16(<<"sfn_sf">>) \o Tlv(\h202B, "crc_indication_body", pack_crc_indication_body_value)

pack_rx_indication_rel8_value ==
  U16(<<"length", "offset">>) \o U8(<<"ul_cqi">>) \o U16(<<"timing_advance">>)

pack_rx_indication_rel9_value ==
  U16(<<"timing_advance_r9">>)

\* defect: the size of the rel9 TLV is left out of the offsets
RxOffsetsWithoutRel9 ==
  U16(<<"number_of_pdus">>) \o AtMost("number_of_pdus", 100) \o
  DataOffsets("rx_pdu_list", 2, <<<<"rx_ue_information", 10>>, <<"rx_indication_rel8", 11>>>>, 0,
              <<"rx_indication_rel8">>, "offset") \o
  List("rx_pdu_list", N("number_of_pdus"), NoMax,
       Tlv(\h2038, "rx_ue_information", pack_rx_ue_information_value) \o
       Tlv(\h2024, "rx_indication_rel8", pack_rx_indication_rel8_value) \o
       Tlv(\h2025, "rx_indication_rel9", pack_rx_indication_rel9_value)) \o
  List("rx_pdu_list", N("number_of_pdus"), NoMax,
       Arr(1, "rx_ind_data", FirstOf(<<"rx_indication_rel8">>, "length"), 8192))

pack_rx_ulsch_indication_body_value ==
  U16(<<"number_of_pdus">>) \o AtMost("number_of_pdus", 100) \o
  DataOffsets("rx_pdu_list", 2,
              <<<<"rx_ue_information", 10>>, <<"rx_indication_rel8", 11>>,
                <<"rx_indication_rel9", 6>>>>, 0, <<"rx_indication_rel8">>, "offset") \o
  List("rx_pdu_list", N("number_of_pdus"), NoMax,
       Tlv(\h2038, "rx_ue_information", pack_rx_ue_information_value) \o
       Tlv(\h2024, "rx_indication_rel8", pack_rx_indication_rel8_value) \o
       Tlv(\h2025, "rx_indication_rel9", pack_rx_indication_rel9_value)) \o
  List("rx_pdu_list", N("number_of_pdus"), NoMax,
       Arr(1, "rx_ind_data", FirstOf(<<"rx_indication_rel8">>, "length"), 8192))

pack_rx_ulsch_indication ==
  U16(<<"sfn_sf">>) \o Tlv(\h2023, "rx_indication_body", pack_rx_ulsch_indication_body_value)

pack_preamble_pdu_rel8_value ==
  U16(<<"rnti">>) \o U8(<<"preamble">>) \o U16(<<"timing_advance">>)

pack_preamble_pdu_rel9_value ==
  U16(<<"timing_advance_r9">>)

pack_preamble_pdu_rel13_value ==
  U8(<<"rach_resource_type">>)

pack_rach_indication_body_value ==
  U16(<<"number_of_preambles">>) \o
  List("preamble_list", N("number_of_preambles"), NoMax,
       Sized(2, "instance_length", 0,
             Tlv(\h2032, "preamble_rel8", pack_preamble_pdu_rel8_value) \o
             Tlv(\h2033, "preamble_rel9", pack_preamble_pdu_rel9_value) \o
             Tlv(\h2051, "preamble_rel13", pack_preamble_pdu_rel13_value)))

pack_rach_indication ==
  U16(<<"sfn_sf">>) \o Tlv(\h2031, "rach_indication_body", pack_rach_indication_body_value)

pack_srs_indication_fdd_rel8_value ==
  U16(<<"doppler_estimation", "timing_advance">>) \o
  U8(<<"number_of_resource_blocks", "rb_start">>) \o
  Arr(1, "snr", N("number_of_resource_blocks"), 1000)

pack_srs_indication_fdd_rel9_value ==
  U16(<<"timing_advance_r9">>)

pack_srs_indication_tdd_rel10_value ==
  U8(<<"uppts_symbol">>)

pack_srs_indication_fdd_rel11_value ==
  U16(<<"ul_rtoa">>)

pack_tdd_channel_measurement_value ==
  U8(<<"num_prb_per_subband", "number_of_subbands", "num_atennas">>) \o
  List("subands", N("number_of_subbands"), NoMax,
       U8(<<"subband_index">>) \o Arr(2, "channel", N("num_atennas"), 8))

pack_srs_indication_body_value ==
  U8(<<"number_of_ues">>) \o
  List("srs_pdu_list", N("number_of_ues"), NoMax,
       Sized(2, "instance_length", 0,
             Tlv(\h2038, "rx_ue_information", pack_rx_ue_information_value) \o
             Tlv(\h2035, "srs_indication_fdd_rel8", pack_srs_indication_fdd_rel8_value) \o
             Tlv(\h2036, "srs_indication_fdd_rel9", pack_srs_indication_fdd_rel9_value) \o
             Tlv(\h2037, "srs_indication_tdd_rel10", pack_srs_indication_tdd_rel10_value) \o
             Tlv(\h2053, "srs_indication_fdd_rel11", pack_srs_indication_fdd_rel11_value) \o
             Tlv(\h2054, "tdd_channel_measurement", pack_tdd_channel_measurement_value)))

pack_srs_indication ==
  U16(<<"sfn_sf">>) \o Tlv(\h2034, "srs_indication_body", pack_srs_indication_body_value)

\* defect: results of the pushes not looked at
SrIndicationUnchecked ==
  Lax(U16(<<"number_of_srs">>) \o
      List("sr_pdu_list", N("number_of_srs"), NoMax,
           Sized(2, "instance_length", 0,
                 Tlv(\h2038, "rx_ue_information", pack_rx_ue_information_value) \o
                 Tlv(\h2052, "ul_cqi_information", pack_ul_cqi_information_value))))

pack_sr_indication_body_value ==
  U16(<<"number_of_srs">>) \o
  List("sr_pdu_list", N("number_of_srs"), NoMax,
       Sized(2, "instance_length", 0,
             Tlv(\h2038, "rx_ue_information", pack_rx_ue_information_value) \o
             Tlv(\h2052, "ul_cqi_information", pack_ul_cqi_information_value)))

pack_sr_indication ==
  U16(<<"sfn_sf">>) \o Tlv(\h202D, "sr_indication_body", pack_sr_indication_body_value)

pack_cqi_indication_rel8_value ==
  U16(<<"length", "data_offset">>) \o U8(<<"ul_cqi", "ri">>) \o U16(<<"timing_advance">>)

pack_cqi_indication_rel9_value ==
  U16(<<"length", "data_offset">>) \o U8(<<"ul_cqi", "number_of_cc_reported">>) \o
  Arr(1, "ri", N("number_of_cc_reported"), 4) \o U16(<<"timing_advance", "timing_advance_r9">>)

pack_cqi_indication_body_value ==
  U16(<<"number_of_cqis">>) \o AtMost("number_of_cqis", 100) \o
  DataOffsets("cqi_pdu_list", 2,
              <<<<"rx_ue_information", 10>>, <<"cqi_indication_rel8", 12>>,
                <<"cqi_indication_rel9", 14>>, <<"ul_cqi_information", 6>>>>, 2,
              <<"cqi_indication_rel8", "cqi_indication_rel9">>, "data_offset") \o
  List("cqi_pdu_list", N("number_of_cqis"), NoMax,
       Sized(2, "instance_length", 0,
             Tlv(\h2038, "rx_ue_information", pack_rx_ue_information_value) \o
             Tlv(\h202F, "cqi_indication_rel8", pack_cqi_indication_rel8_value) \o
             Tlv(\h2030, "cqi_indication_rel9", pack_cqi_indication_rel9_value) \o
             Tlv(\h2052, "ul_cqi_information", pack_ul_cqi_information_value))) \o
  List("cqi_pdu_list", N("number_of_cqis"), NoMax,
       Arr(1, "pdu", FirstOf(<<"cqi_indication_rel9", "cqi_indication_rel8">>, "length"), 12))

pack_cqi_indication ==
  U16(<<"sfn_sf">>) \o Tlv(\h202E, "cqi_indication_body", pack_cqi_indication_body_value)

pack_lbt_pdsch_req_pdu_rel13_value ==
  U32(<<"handle", "mp_cca", "n_cca", "offset", "lte_txop_sf">>) \o U16(<<"txop_sfn_sf_end">>) \o
  U32(<<"lbt_mode">>)

pack_lbt_drs_req_pdu_rel13_value ==
  U32(<<"handle", "offset">>) \o U16(<<"sfn_sf_end">>) \o U32(<<"lbt_mode">>)

pack_lbt_dl_config_request_body_value ==
  U16(<<"number_of_pdus">>) \o
  List("lbt_dl_config_req_pdu_list", N("number_of_pdus"), NoMax,
       U8(<<"pdu_type">>) \o
       Sized(1, "pdu_size", 2,
             Switch("pdu_type",
                    <<<<0,
                        Tlv(\h2056, "lbt_pdsch_req_pdu_rel13",
                            pack_lbt_pdsch_req_pdu_rel13_value)>>,
                      <<1,
                        Tlv(\h2057, "lbt_drs_req_pdu_rel13",
                            pack_lbt_drs_req_pdu_rel13_value)>>>>)))

pack_lbt_pdsch_rsp_pdu_rel13_value ==
  U32(<<"handle", "result", "lte_txop_symbols", "initial_partial_sf">>)

pack_lbt_drs_rsp_pdu_rel13_value ==
  U32(<<"handle", "result">>)

pack_lbt_dl_config_request ==
  U16(<<"sfn_sf">>) \o
  Tlv(\h2055, "lbt_dl_config_request_body", pack_lbt_dl_config_request_body_value)

pack_lbt_dl_config_indication_value ==
  U16(<<"number_of_pdus">>) \o
  List("lbt_indication_pdu_list", N("number_of_pdus"), NoMax,
       U8(<<"pdu_type">>) \o
       Sized(1, "pdu_size", 2,
             Switch("pdu_type",
                    <<<<0,
                        Tlv(\h2059, "lbt_pdsch_rsp_pdu_rel13",
                            pack_lbt_pdsch_rsp_pdu_rel13_value)>>,
                      <<1,
                        Tlv(\h205A, "lbt_drs_rsp_pdu_rel13",
                            pack_lbt_drs_rsp_pdu_rel13_value)>>>>)))

pack_lbt_dl_indication ==
  U16(<<"sfn_sf">>) \o Tlv(\h2058, "lbt_dl_indication_body", pack_lbt_dl_config_indication_value)

pack_nb_harq_indication_fdd_rel13_value ==
  U8(<<"harq_tb1">>)

pack_nb_harq_indication_body_value ==
  U16(<<"number_of_harqs">>) \o
  List("nb_harq_pdu_list", N("number_of_harqs"), NoMax,
       Sized(2, "instance_length", 0,
             Tlv(\h2038, "rx_ue_information", pack_rx_ue_information_value) \o
             Tlv(\h2064, "nb_harq_indication_fdd_rel13",
                 pack_nb_harq_indication_fdd_rel13_value) \o
             Tlv(\h2052, "ul_cqi_information", pack_ul_cqi_information_value)))

pack_nb_harq_indication ==
  U16(<<"sfn_sf">>) \o Tlv(\h2063, "nb_harq_indication_body", pack_nb_harq_indication_body_value)

pack_nrach_indication_rel13_value ==
  U16(<<"rnti">>) \o U8(<<"initial_sc">>) \o U16(<<"timing_advance">>) \o U8(<<"nrach_ce_level">>)

pack_nrach_indication_body_value ==
  U8(<<"number_of_initial_scs_detected">>) \o
  List("nrach_pdu_list", N("number_of_initial_scs_detected"), NoMax,
       Tlv(\h2066, "nrach_indication_rel13", pack_nrach_indication_rel13_value))

pack_nrach_indication ==
  U16(<<"sfn_sf">>) \o Tlv(\h2065, "nrach_indication_body", pack_nrach_indication_body_value)

pack_nr_dl_node_sync ==
  U32(<<"t1", "delta_sfn_slot">>)

pack_dl_node_sync ==
  U32(<<"t1", "delta_sfn_sf">>)

pack_nr_ul_node_sync ==
  U32(<<"t1", "t2", "t3">>)

pack_ul_node_sync ==
  U32(<<"t1", "t2", "t3">>)

pack_timing_info ==
  U32(<<"last_sfn_sf", "time_since_last_timing_info", "dl_config_jitter", "tx_request_jitter",
        "ul_config_jitter", "hi_dci0_jitter", "dl_config_latest_delay", "tx_request_latest_delay",
        "ul_config_latest_delay", "hi_dci0_latest_delay", "dl_config_earliest_arrival",
        "tx_request_earliest_arrival", "ul_config_earliest_arrival", "hi_dci0_earliest_arrival">>)

pack_nr_timing_info ==
  U32(<<"last_sfn", "last_slot", "time_since_last_timing_info", "dl_tti_jitter",
        "tx_data_request_jitter", "ul_tti_jitter", "ul_dci_jitter", "dl_tti_latest_delay",
        "tx_data_request_latest_delay", "ul_tti_latest_delay", "ul_dci_latest_delay",
        "dl_tti_earliest_arrival", "tx_data_request_earliest_arrival", "ul_tti_earliest_arrival",
        "ul_dci_earliest_arrival">>)

pack_nr_slot_indication ==
  U16(<<"sfn", "slot">>)

pack_nr_rx_data_indication_body ==
  U32(<<"handle">>) \o U16(<<"rnti">>) \o U8(<<"harq_id">>) \o U16(<<"pdu_length">>) \o
  U8(<<"ul_cqi">>) \o U16(<<"timing_advance", "rssi">>) \o Arr(1, "pdu", N("pdu_length"), NoMax)

pack_nr_rx_data_indication ==
  U16(<<"sfn", "slot", "number_of_pdus">>) \o
  List("pdu_list", N("number_of_pdus"), NoMax, pack_nr_rx_data_indication_body)

pack_nr_crc_indication_body ==
  Lax(U32(<<"handle">>) \o U16(<<"rnti">>) \o U8(<<"harq_id", "tb_crc_status">>) \o
      U16(<<"num_cb">>) \o
      When("num_cb", "!=", 0, Arr(1, "cb_crc_status", Plus1("num_cb"), NoMax)) \o
      U8(<<"ul_cqi">>) \o U16(<<"timing_advance", "rssi">>))

pack_nr_crc_indication ==
  U16(<<"sfn", "slot", "number_crcs">>) \o
  List("crc_list", N("number_crcs"), NoMax, pack_nr_crc_indication_body)

pack_nr_srs_normalized_channel_iq_matrix ==
  U8(<<"normalized_iq_representation">>) \o
  U16(<<"num_gnb_antenna_elements", "num_ue_srs_ports", "prg_size", "num_prgs">>) \o
  List("channel_matrix", IqSize, NoMax, U8(<<"channel_matrix">>))

pack_nr_srs_reported_symbol ==
  U16(<<"num_prgs">>) \o List("prg_list", N("num_prgs"), NoMax, U8(<<"rb_snr">>))

pack_nr_srs_beamforming_report ==
  U16(<<"prg_size">>) \o U8(<<"num_symbols", "wide_band_snr", "num_reported_symbols">>) \o
  pack_nr_srs_reported_symbol

pack_nr_srs_report_tlv ==
  U16(<<"tag">>) \o U32(<<"length">>) \o List("value", N("length"), NoMax, U32(<<"value">>))

pack_nr_srs_indication_body ==
  U32(<<"handle">>) \o U16(<<"rnti", "timing_advance_offset", "timing_advance_offset_nsec">>) \o
  U8(<<"srs_usage", "report_type">>) \o pack_nr_srs_report_tlv

pack_nr_srs_indication ==
  U16(<<"sfn", "slot", "control_length">>) \o U8(<<"number_of_pdus">>) \o
  List("pdu_list", N("number_of_pdus"), NoMax, pack_nr_srs_indication_body)

pack_nr_rach_indication_body ==
  U16(<<"phy_cell_id">>) \o
  U8(<<"symbol_index", "slot_index", "freq_index", "avg_rssi", "avg_snr", "num_preamble">>) \o
  List("preamble_list", N("num_preamble"), NoMax,
       U8(<<"preamble_index">>) \o U16(<<"timing_advance">>) \o U32(<<"preamble_pwr">>))

pack_nr_rach_indication ==
  U16(<<"sfn", "slot">>) \o U8(<<"number_of_pdus">>) \o
  List("pdu_list", N("number_of_pdus"), NoMax, pack_nr_rach_indication_body)

pack_nr_uci_pucch_0_1 ==
  U8(<<"pduBitmap">>) \o U32(<<"handle">>) \o U16(<<"rnti">>) \o
  U8(<<"pucch_format", "ul_cqi">>) \o U16(<<"timing_advance", "rssi">>) \o
  When("pduBitmap", "&", 1, U8(<<"sr_indication", "sr_confidence_level">>)) \o
  When("pduBitmap", "&", 2,
       U8(<<"num_harq", "harq_confidence_level">>) \o
       List("harq_list", N("num_harq"), NoMax, U8(<<"harq_value">>)))

pack_nr_uci_pucch_2_3_4 ==
  U8(<<"pduBitmap">>) \o U32(<<"handle">>) \o U16(<<"rnti">>) \o Bias(1, "pucch_format", -2) \o
  U8(<<"ul_cqi">>) \o U16(<<"timing_advance", "rssi">>) \o
  When("pduBitmap", "&", 1,
       U16(<<"sr_bit_len">>) \o Arr(1, "sr_payload", Plus1("sr_bit_len"), NoMax)) \o
  When("pduBitmap", "&", 2,
       U8(<<"harq_crc">>) \o U16(<<"harq_bit_len">>) \o
       Arr(1, "harq_payload", Plus1("harq_bit_len"), NoMax)) \o
  When("pduBitmap", "&", 4,
       U8(<<"csi_part1_crc">>) \o U16(<<"csi_part1_bit_len">>) \o
       Arr(1, "csi_part1_payload", Plus1("csi_part1_bit_len"), NoMax)) \o
  When("pduBitmap", "&", 8,
       U8(<<"csi_part2_crc">>) \o U16(<<"csi_part2_bit_len">>) \o
       Arr(1, "csi_part2_payload", Plus1("csi_part2_bit_len"), NoMax))

pack_nr_uci_pusch ==
  U8(<<"pduBitmap">>) \o U32(<<"handle">>) \o U16(<<"rnti">>) \o U8(<<"ul_cqi">>) \o
  U16(<<"timing_advance", "rssi">>) \o
  When("pduBitmap", "&", 2,
       U8(<<"harq_crc">>) \o U16(<<"harq_bit_len">>) \o
       Arr(1, "harq_payload", Plus1("harq_bit_len"), NoMax)) \o
  When("pduBitmap", "&", 4,
       U8(<<"csi_part1_crc">>) \o U16(<<"csi_part1_bit_len">>) \o
       Arr(1, "csi_part1_payload", Plus1("csi_part1_bit_len"), NoMax)) \o
  When("pduBitmap", "&", 8,
       U8(<<"csi_part2_crc">>) \o U16(<<"csi_part2_bit_len">>) \o
       Arr(1, "csi_part2_payload", Plus1("csi_part2_bit_len"), NoMax))

pack_nr_uci_indication_body ==
  U16(<<"pdu_type", "pdu_size">>) \o
  Lax(Switch("pdu_type",
             <<<<0, Call(pack_nr_uci_pusch)>>, <<1, Call(pack_nr_uci_pucch_0_1)>>,
               <<2, Call(pack_nr_uci_pucch_2_3_4)>>>>))

pack_nr_uci_indication ==
  U16(<<"sfn", "slot", "num_ucis">>) \o
  List("uci_list", N("num_ucis"), NoMax, pack_nr_uci_indication_body)

==============================================================================
