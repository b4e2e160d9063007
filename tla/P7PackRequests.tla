---------------------------- MODULE P7PackRequests ----------------------------
(* What each pack_ function of nfapi_p7.c writes for the requests of the LTE and
   the NR P7 interface: one layout per C function, in the order of the source.
   Nested structs whose field names do not clash are flattened into the struct
   that holds them; a tx_request PDU's segments are modelled by their
   concatenation (their lengths add up to pdu_length).  Vendor extensions are
   left out.  See Layout for the vocabulary. *)
EXTENDS Layout

pack_dl_config_dci_dl_pdu_rel8_value ==
  U8(<<"dci_format", "cce_idx", "aggregation_level">>) \o U16(<<"rnti">>) \o
  U8(<<"resource_allocation_type", "virtual_resource_block_assignment_flag">>) \o
  U32(<<"resource_block_coding">>) \o
  U8(<<"mcs_1", "redundancy_version_1", "new_data_indicator_1",
       "transport_block_to_codeword_swap_flag", "mcs_2", "redundancy_version_2",
       "new_data_indicator_2", "harq_process", "tpmi", "pmi", "precoding_information", "tpc",
       "downlink_assignment_index", "ngap", "transport_block_size_index", "downlink_power_offset",
       "allocate_prach_flag", "preamble_index", "prach_mask_index", "rnti_type">>) \o
  U16(<<"transmission_power">>)

pack_dl_config_dci_dl_pdu_rel9_value ==
  U8(<<"mcch_flag", "mcch_change_notification", "scrambling_identity">>)

pack_dl_config_dci_dl_pdu_rel10_value ==
  U8(<<"cross_carrier_scheduling_flag", "carrier_indicator", "srs_flag", "srs_request",
       "antenna_ports_scrambling_and_layers", "total_dci_length_including_padding", "n_dl_rb">>)

pack_dl_config_dci_dl_pdu_rel11_value ==
  U8(<<"harq_ack_resource_offset", "pdsch_re_mapping_quasi_co_location_indicator">>)

pack_dl_config_dci_dl_pdu_rel12_value ==
  U8(<<"primary_cell_type", "ul_dl_configuration_flag", "number_ul_dl_configurations">>) \o
  Arr(1, "ul_dl_configuration_indication", N("number_ul_dl_configurations"), 5)

pack_tpm_value ==
  U8(<<"num_prb_per_subband", "number_of_subbands", "num_antennas">>) \o
  List("subband_info", N("number_of_subbands"), NoMax,
       U8(<<"subband_index", "scheduled_ues">>) \o
       List("precoding_value", N("num_antennas"), NoMax,
            List("precoding_value", N("scheduled_ues"), NoMax, U16(<<"precoding_value">>))))

pack_dl_tti_csi_rs_pdu_rel15_value ==
  Lax(U16(<<"bwp_size", "bwp_start">>) \o U8(<<"subcarrier_spacing", "cyclic_prefix">>) \o
      U16(<<"start_rb", "nr_of_rbs">>) \o U8(<<"csi_type", "row">>) \o U16(<<"freq_domain">>) \o
      U8(<<"symb_l0", "symb_l1", "cdm_type", "freq_density">>) \o U16(<<"scramb_id">>) \o
      U8(<<"power_control_offset", "power_control_offset_ss">>) \o Lit(2, 0) \o Lit(2, 0) \o
      Lit(1, 0))

pack_dl_tti_pdcch_pdu_rel15_value ==
  Lax(U16(<<"BWPSize", "BWPStart">>) \o
      U8(<<"SubcarrierSpacing", "CyclicPrefix", "StartSymbolIndex", "DurationSymbols">>) \o
      Fixed(1, "FreqDomainResource", 6) \o
      U8(<<"CceRegMappingType", "RegBundleSize", "InterleaverSize", "CoreSetType">>) \o
      U16(<<"ShiftIndex">>) \o U8(<<"precoderGranularity">>) \o U16(<<"numDlDci">>) \o
      List("dci_pdu", N("numDlDci"), NoMax,
           U16(<<"RNTI", "ScramblingId", "ScramblingRNTI">>) \o
           U8(<<"CceIndex", "AggregationLevel">>) \o Set(2, "num_prgs", 0) \o
           Set(2, "prg_size", 0) \o Set(1, "dig_bf_interfaces", 0) \o
           List("prgs_list", N("num_prgs"), NoMax,
                U16(<<"pm_idx">>) \o
                List("dig_bf_interface_list", N("dig_bf_interfaces"), NoMax,
                     U16(<<"beam_idx">>))) \o U8(<<"beta_PDCCH_1_0", "powerControlOffsetSS">>) \o
           U16(<<"PayloadSizeBits">>) \o Dci("Payload", "PayloadSizeBits")))

pack_dl_tti_pdsch_pdu_rel15_value ==
  Lax(U16(<<"pduBitmap", "rnti", "pduIndex", "BWPSize", "BWPStart">>) \o
      U8(<<"SubcarrierSpacing", "CyclicPrefix", "NrOfCodewords">>) \o
      List("targetCodeRate", N("NrOfCodewords"), NoMax,
           U16(<<"targetCodeRate">>) \o
           U8(<<"qamModOrder", "mcsIndex", "mcsTable", "rvIndex">>) \o U32(<<"TBSize">>)) \o
      U16(<<"dataScramblingId">>) \o U8(<<"nrOfLayers", "transmissionScheme", "refPoint">>) \o
      U16(<<"dlDmrsSymbPos">>) \o U8(<<"dmrsConfigType">>) \o U16(<<"dlDmrsScramblingId">>) \o
      U8(<<"SCID", "numDmrsCdmGrpsNoData">>) \o U16(<<"dmrsPorts">>) \o U8(<<"resourceAlloc">>) \o
      Fixed(1, "rbBitmap", 36) \o U16(<<"rbStart", "rbSize">>) \o
      U8(<<"VRBtoPRBMapping", "StartSymbolIndex", "NrOfSymbols">>) \o
      When("pduBitmap", "&", 1,
           U8(<<"PTRSPortIndex", "PTRSTimeDensity", "PTRSFreqDensity", "PTRSReOffset",
                "nEpreRatioOfPDSCHToPTRS">>)) \o U16(<<"num_prgs", "prg_size">>) \o
      U8(<<"dig_bf_interfaces">>) \o
      List("prgs_list", N("num_prgs"), NoMax,
           U16(<<"pm_idx">>) \o
           List("dig_bf_interface_list", N("dig_bf_interfaces"), NoMax, U16(<<"beam_idx">>))) \o
      Lit(1, 8)) \o Lit(1, 1)

pack_dl_tti_ssb_pdu_rel15_value ==
  Lax(U16(<<"PhysCellId">>) \o U8(<<"BetaPss", "SsbBlockIndex", "SsbSubcarrierOffset">>) \o
      U16(<<"ssbOffsetPointA">>) \o U8(<<"bchPayloadFlag">>) \o Fixed(1, "bchPayload", 3) \o
      Lit(1, 0) \o Lit(2, 0) \o U16(<<"num_prgs", "prg_size">>) \o U8(<<"dig_bf_interfaces">>) \o
      List("prgs_list", N("num_prgs"), NoMax,
           U16(<<"pm_idx">>) \o
           List("dig_bf_interface_list", N("dig_bf_interfaces"), NoMax, U16(<<"beam_idx">>))))

pack_dl_config_dci_dl_pdu_rel13_value ==
  U8(<<"laa_end_partial_sf_flag", "laa_end_partial_sf_configuration", "initial_lbt_sf",
       "codebook_size_determination", "drms_table_flag", "tpm_struct_flag">>) \o
  When("tpm_struct_flag", "==", 1, pack_tpm_value)

pack_dl_config_bch_pdu_rel8_value ==
  U16(<<"length", "pdu_index", "transmission_power">>)

pack_dl_config_mch_pdu_rel8_value ==
  U16(<<"length", "pdu_index", "rnti">>) \o U8(<<"resource_allocation_type">>) \o
  U32(<<"resource_block_coding">>) \o U8(<<"modulation">>) \o
  U16(<<"transmission_power", "mbsfn_area_id">>)

pack_bf_vector_info ==
  U8(<<"subband_index", "num_antennas">>) \o Arr(2, "bf_value", N("num_antennas"), 8)

pack_dl_config_dlsch_pdu_rel8_value ==
  U16(<<"length", "pdu_index", "rnti">>) \o
  U8(<<"resource_allocation_type", "virtual_resource_block_assignment_flag">>) \o
  U32(<<"resource_block_coding">>) \o
  U8(<<"modulation", "redundancy_version", "transport_blocks",
       "transport_block_to_codeword_swap_flag", "transmission_scheme", "number_of_layers",
       "number_of_subbands">>) \o Arr(1, "codebook_index", N("number_of_subbands"), 13) \o
  U8(<<"ue_category_capacity", "pa", "delta_power_offset_index", "ngap", "nprb",
       "transmission_mode", "num_bf_prb_per_subband", "num_bf_vector">>) \o
  List("bf_vector", N("num_bf_vector"), 8, pack_bf_vector_info)

pack_dl_config_dlsch_pdu_rel9_value ==
  U8(<<"nscid">>)

pack_dl_config_dlsch_pdu_rel10_value ==
  U8(<<"csi_rs_flag", "csi_rs_resource_config_r10">>) \o
  U16(<<"csi_rs_zero_tx_power_resource_config_bitmap_r10">>) \o
  U8(<<"csi_rs_number_nzp_configuration">>) \o
  Arr(1, "csi_rs_resource_config", N("csi_rs_number_nzp_configuration"), 4) \o
  U8(<<"pdsch_start">>)

pack_dl_config_dlsch_pdu_rel11_value ==
  U8(<<"drms_config_flag">>) \o U16(<<"drms_scrambling">>) \o U8(<<"csi_config_flag">>) \o
  U16(<<"csi_scrambling">>) \o
  U8(<<"pdsch_re_mapping_flag", "pdsch_re_mapping_atenna_ports", "pdsch_re_mapping_freq_shift">>)

pack_dl_config_dlsch_pdu_rel12_value ==
  U8(<<"altcqi_table_r12", "maxlayers", "n_dl_harq">>)

pack_dl_config_dlsch_pdu_rel13_value ==
  U8(<<"dwpts_symbols", "initial_lbt_sf", "ue_type", "pdsch_payload_type">>) \o
  U16(<<"initial_transmission_sf_io">>) \o U8(<<"drms_table_flag">>)

pack_dl_config_pch_pdu_rel8_value ==
  U16(<<"length", "pdu_index", "p_rnti">>) \o
  U8(<<"resource_allocation_type", "virtual_resource_block_assignment_flag">>) \o
  U32(<<"resource_block_coding">>) \o
  U8(<<"mcs", "redundancy_version", "number_of_transport_blocks",
       "transport_block_to_codeword_swap_flag", "transmission_scheme", "number_of_layers",
       "codebook_index", "ue_category_capacity", "pa">>) \o U16(<<"transmission_power">>) \o
  U8(<<"nprb", "ngap">>)

pack_dl_config_pch_pdu_rel13_value ==
  U8(<<"ue_mode">>) \o U16(<<"initial_transmission_sf_io">>)

pack_dl_config_prs_pdu_rel9_value ==
  U16(<<"transmission_power">>) \o U8(<<"prs_bandwidth", "prs_cyclic_prefix_type", "prs_muting">>)

pack_dl_config_csi_rs_pdu_rel10_value ==
  U8(<<"csi_rs_antenna_port_count_r10", "csi_rs_resource_config_r10">>) \o
  U16(<<"transmission_power", "csi_rs_zero_tx_power_resource_config_bitmap_r10">>) \o
  U8(<<"csi_rs_number_of_nzp_configuration">>) \o
  Arr(1, "csi_rs_resource_config", N("csi_rs_number_of_nzp_configuration"), 4)

pack_dl_config_csi_rs_pdu_rel13_value ==
  U8(<<"csi_rs_class", "cdm_type", "num_bf_vector">>) \o
  List("bf_vector", N("num_bf_vector"), NoMax,
       U8(<<"csi_rs_resource_index">>) \o Fixed(2, "bf_value", 8))

pack_bf_vector ==
  U8(<<"subband_index", "num_antennas">>) \o Arr(2, "bf_value", N("num_antennas"), 8)

pack_dl_config_epdcch_parameters_rel11_value ==
  U8(<<"epdcch_resource_assignment_flag">>) \o U16(<<"epdcch_id">>) \o
  U8(<<"epdcch_start_symbol", "epdcch_num_prb">>) \o
  Arr(1, "epdcch_prb_index", N("epdcch_num_prb"), 8) \o pack_bf_vector

pack_dl_config_epdcch_parameters_rel13_value ==
  U8(<<"dwpts_symbols", "initial_lbt_sf">>)

pack_dl_config_mpdcch_pdu_rel13_value ==
  U8(<<"mpdcch_narrow_band", "number_of_prb_pairs", "resource_block_assignment",
       "mpdcch_tansmission_type", "start_symbol", "ecce_index", "aggregation_level",
       "rnti_type">>) \o U16(<<"rnti">>) \o U8(<<"ce_mode">>) \o
  U16(<<"drms_scrambling_init", "initial_transmission_sf_io", "transmission_power">>) \o
  U8(<<"dci_format">>) \o U16(<<"resource_block_coding">>) \o
  U8(<<"mcs", "pdsch_reptition_levels", "redundancy_version", "new_data_indicator",
       "harq_process", "tpmi_length", "tpmi", "pmi_flag", "pmi", "harq_resource_offset",
       "dci_subframe_repetition_number", "tpc", "downlink_assignment_index_length",
       "downlink_assignment_index", "allocate_prach_flag", "preamble_index", "prach_mask_index",
       "starting_ce_level", "srs_request", "antenna_ports_and_scrambling_identity_flag",
       "antenna_ports_and_scrambling_identity", "frequency_hopping_enabled_flag",
       "paging_direct_indication_differentiation_flag", "direct_indication",
       "total_dci_length_including_padding", "number_of_tx_antenna_ports">>) \o
  Arr(2, "precoding_value", N("number_of_tx_antenna_ports"), 8)

pack_dl_config_nbch_pdu_rel13_value ==
  U16(<<"length", "pdu_index", "transmission_power", "hyper_sfn_2_lsbs">>)

pack_dl_config_npdcch_pdu_rel13_value ==
  U16(<<"length", "pdu_index">>) \o
  U8(<<"ncce_index", "aggregation_level", "start_symbol", "rnti_type">>) \o U16(<<"rnti">>) \o
  U8(<<"scrambling_reinitialization_batch_index", "nrs_antenna_ports_assumed_by_the_ue",
       "dci_format", "scheduling_delay", "resource_assignment", "repetition_number", "mcs",
       "new_data_indicator", "harq_ack_resource", "npdcch_order_indication",
       "starting_number_of_nprach_repetitions", "subcarrier_indication_of_nprach",
       "paging_direct_indication_differentation_flag", "direct_indication",
       "dci_subframe_repetition_number", "total_dci_length_including_padding">>)

pack_dl_config_ndlsch_pdu_rel13_value ==
  U16(<<"length", "pdu_index">>) \o U8(<<"start_symbol", "rnti_type">>) \o
  U16(<<"rnti", "resource_assignment", "repetition_number">>) \o
  U8(<<"modulation", "number_of_subframes_for_resource_assignment",
       "scrambling_sequence_initialization_cinit">>) \o U16(<<"sf_idx">>) \o
  U8(<<"nrs_antenna_ports_assumed_by_the_ue">>)

pack_dl_tti_request_body_value ==
  Lax(U16(<<"PDUType">>)) \o
  Sized(2, "PDUSize", 4,
        Switch("PDUType",
               <<<<2, pack_dl_tti_csi_rs_pdu_rel15_value>>,
                 <<0, pack_dl_tti_pdcch_pdu_rel15_value>>,
                 <<1, pack_dl_tti_pdsch_pdu_rel15_value>>,
                 <<3, pack_dl_tti_ssb_pdu_rel15_value>>>>))

pack_dl_config_request_body_value ==
  U8(<<"number_pdcch_ofdm_symbols", "number_dci">>) \o U16(<<"number_pdu">>) \o
  U8(<<"number_pdsch_rnti">>) \o U16(<<"transmission_power_pcfich">>) \o
  List("dl_config_pdu_list", N("number_pdu"), NoMax,
       U8(<<"pdu_type">>) \o
       Sized(1, "pdu_size", 2,
             Switch("pdu_type",
                    <<<<0,
                        Tlv(\h2001, "dci_dl_pdu_rel8", pack_dl_config_dci_dl_pdu_rel8_value) \o
                        Tlv(\h2002, "dci_dl_pdu_rel9", pack_dl_config_dci_dl_pdu_rel9_value) \o
                        Tlv(\h2003, "dci_dl_pdu_rel10", pack_dl_config_dci_dl_pdu_rel10_value) \o
                        Tlv(\h2039, "dci_dl_pdu_rel11", pack_dl_config_dci_dl_pdu_rel11_value) \o
                        Tlv(\h203A, "dci_dl_pdu_rel12", pack_dl_config_dci_dl_pdu_rel12_value) \o
                        Tlv(\h203B, "dci_dl_pdu_rel13", pack_dl_config_dci_dl_pdu_rel13_value)>>,
                      <<1, Tlv(\h2004, "bch_pdu_rel8", pack_dl_config_bch_pdu_rel8_value)>>,
                      <<2, Tlv(\h2005, "mch_pdu_rel8", pack_dl_config_mch_pdu_rel8_value)>>,
                      <<3,
                        Tlv(\h2006, "dlsch_pdu_rel8", pack_dl_config_dlsch_pdu_rel8_value) \o
                        Tlv(\h2007, "dlsch_pdu_rel9", pack_dl_config_dlsch_pdu_rel9_value) \o
                        Tlv(\h2008, "dlsch_pdu_rel10", pack_dl_config_dlsch_pdu_rel10_value) \o
                        Tlv(\h203C, "dlsch_pdu_rel11", pack_dl_config_dlsch_pdu_rel11_value) \o
                        Tlv(\h203D, "dlsch_pdu_rel12", pack_dl_config_dlsch_pdu_rel12_value) \o
                        Tlv(\h203E, "dlsch_pdu_rel13", pack_dl_config_dlsch_pdu_rel13_value)>>,
                      <<4,
                        Tlv(\h2009, "pch_pdu_rel8", pack_dl_config_pch_pdu_rel8_value) \o
                        Tlv(\h203F, "pch_pdu_rel13", pack_dl_config_pch_pdu_rel13_value)>>,
                      <<5, Tlv(\h200A, "prs_pdu_rel9", pack_dl_config_prs_pdu_rel9_value)>>,
                      <<6,
                        Tlv(\h200B, "csi_rs_pdu_rel10", pack_dl_config_csi_rs_pdu_rel10_value) \o
                        Tlv(\h2040, "csi_rs_pdu_rel13", pack_dl_config_csi_rs_pdu_rel13_value)>>,
                      <<7,
                        Tlv(\h2001, "epdcch_pdu_rel8", pack_dl_config_dci_dl_pdu_rel8_value) \o
                        Tlv(\h2002, "epdcch_pdu_rel9", pack_dl_config_dci_dl_pdu_rel9_value) \o
                        Tlv(\h2003, "epdcch_pdu_rel10", pack_dl_config_dci_dl_pdu_rel10_value) \o
                        Tlv(\h2039, "epdcch_pdu_rel11", pack_dl_config_dci_dl_pdu_rel11_value) \o
                        Tlv(\h203A, "epdcch_pdu_rel12", pack_dl_config_dci_dl_pdu_rel12_value) \o
                        Tlv(\h203B, "epdcch_pdu_rel13", pack_dl_config_dci_dl_pdu_rel13_value) \o
                        Tlv(\h2041, "epdcch_params_rel11",
                            pack_dl_config_epdcch_parameters_rel11_value) \o
                        Tlv(\h2042, "epdcch_params_rel13",
                            pack_dl_config_epdcch_parameters_rel13_value)>>,
                      <<8,
                        Tlv(\h205B, "mpdcch_pdu_rel13", pack_dl_config_mpdcch_pdu_rel13_value)>>,
                      <<9, Tlv(\h205C, "nbch_pdu_rel13", pack_dl_config_nbch_pdu_rel13_value)>>,
                      <<10,
                        Tlv(\h205D, "npdcch_pdu_rel13", pack_dl_config_npdcch_pdu_rel13_value)>>,
                      <<11,
                        Tlv(\h205E, "ndlsch_pdu_rel13",
                            pack_dl_config_ndlsch_pdu_rel13_value)>>>>)))

pack_dl_tti_request ==
  U16(<<"SFN", "Slot">>) \o U8(<<"nPDUs", "nGroup">>) \o
  List("dl_tti_pdu_list", N("nPDUs"), NoMax, pack_dl_tti_request_body_value) \o
  List("nUe", N("nGroup"), NoMax,
       Lax(U8(<<"nUe">>)) \o List("PduIdx", N("nUe"), NoMax, U32(<<"PduIdx">>)) \o Fail)

pack_dl_config_request ==
  U16(<<"sfn_sf">>) \o Tlv(\h2000, "dl_config_request_body", pack_dl_config_request_body_value)

pack_ul_config_request_ulsch_rel8_value ==
  U32(<<"handle">>) \o U16(<<"size", "rnti">>) \o
  U8(<<"resource_block_start", "number_of_resource_blocks", "modulation_type",
       "cyclic_shift_2_for_drms", "frequency_hopping_enabled_flag", "frequency_hopping_bits",
       "new_data_indication", "redundancy_version", "harq_process_number", "ul_tx_mode",
       "current_tx_nb", "n_srs">>)

pack_ul_config_request_ulsch_rel10_value ==
  U8(<<"resource_allocation_type">>) \o U32(<<"resource_block_coding">>) \o
  U8(<<"transport_blocks", "transmission_scheme", "number_of_layers", "codebook_index",
       "disable_sequence_hopping_flag">>)

pack_ul_config_request_ulsch_rel11_value ==
  U8(<<"virtual_cell_id_enabled_flag">>) \o U16(<<"npusch_identity">>) \o
  U8(<<"dmrs_config_flag">>) \o U16(<<"ndmrs_csh_identity">>)

pack_ul_config_request_ulsch_rel13_value ==
  U8(<<"ue_type">>) \o
  U16(<<"total_number_of_repetitions", "repetition_number", "initial_transmission_sf_io">>) \o
  U8(<<"empty_symbols_due_to_re_tunning">>)

pack_ul_tti_request_prach_pdu ==
  Lax(U16(<<"phys_cell_id">>) \o
      U8(<<"num_prach_ocas", "prach_format", "num_ra", "prach_start_symbol">>) \o
      U16(<<"num_cs">>) \o Set(2, "num_prgs", 0) \o Set(2, "prg_size", 0) \o
      Set(1, "dig_bf_interface", 0) \o
      List("prgs_list", N("num_prgs"), NoMax,
           List("dig_bf_interface_list", N("dig_bf_interface"), NoMax, U16(<<"beam_idx">>))))

pack_ul_tti_request_pucch_pdu ==
  Lax(U16(<<"rnti">>) \o U32(<<"handle">>) \o U16(<<"bwp_size", "bwp_start">>) \o
      U8(<<"subcarrier_spacing", "cyclic_prefix", "format_type", "multi_slot_tx_indicator",
           "pi_2bpsk">>) \o U16(<<"prb_start", "prb_size">>) \o
      U8(<<"start_symbol_index", "nr_of_symbols", "freq_hop_flag">>) \o
      U16(<<"second_hop_prb">>) \o U8(<<"group_hop_flag", "sequence_hop_flag">>) \o
      U16(<<"hopping_id", "initial_cyclic_shift", "data_scrambling_id">>) \o
      U8(<<"time_domain_occ_idx", "pre_dft_occ_idx", "pre_dft_occ_len", "add_dmrs_flag">>) \o
      U16(<<"dmrs_scrambling_id">>) \o U8(<<"dmrs_cyclic_shift", "sr_flag">>) \o
      U16(<<"bit_len_harq", "bit_len_csi_part1", "bit_len_csi_part2", "num_prgs", "prg_size">>) \o
      U8(<<"dig_bf_interface">>) \o
      List("prgs_list", N("num_prgs"), NoMax,
           List("dig_bf_interface_list", N("dig_bf_interface"), NoMax, U16(<<"beam_idx">>))))

pack_ul_tti_request_pusch_pdu ==
  U16(<<"pdu_bit_map", "rnti">>) \o U32(<<"handle">>) \o U16(<<"bwp_size", "bwp_start">>) \o
  U8(<<"subcarrier_spacing", "cyclic_prefix">>) \o U16(<<"target_code_rate">>) \o
  U8(<<"qam_mod_order", "mcs_index", "mcs_table", "transform_precoding">>) \o
  U16(<<"data_scrambling_id">>) \o U8(<<"nrOfLayers">>) \o U16(<<"ul_dmrs_symb_pos">>) \o
  U8(<<"dmrs_config_type">>) \o U16(<<"ul_dmrs_scrambling_id", "pusch_identity">>) \o
  U8(<<"scid", "num_dmrs_cdm_grps_no_data">>) \o U16(<<"dmrs_ports">>) \o
  U8(<<"resource_alloc">>) \o Fixed(1, "rb_bitmap", 36) \o U16(<<"rb_start", "rb_size">>) \o
  U8(<<"vrb_to_prb_mapping", "frequency_hopping">>) \o U16(<<"tx_direct_current_location">>) \o
  U8(<<"uplink_frequency_shift_7p5khz", "start_symbol_index", "nr_of_symbols">>) \o
  Lax(Switch("pdu_bit_map",
             <<<<1,
                 U8(<<"rv_index", "harq_process_id", "new_data_indicator">>) \o
                 U32(<<"tb_size">>) \o U16(<<"num_cb">>) \o
                 Arr(1, "cb_present_and_position", Ceil("num_cb", 8), NoMax)>>,
               <<2,
                 U16(<<"harq_ack_bit_length", "csi_part1_bit_length", "csi_part2_bit_length">>) \o
                 U8(<<"alpha_scaling", "beta_offset_harq_ack", "beta_offset_csi1",
                      "beta_offset_csi2">>)>>,
               <<4,
                 U8(<<"num_ptrs_ports">>) \o
                 List("ptrs_ports_list", N("num_ptrs_ports"), NoMax,
                      U16(<<"ptrs_port_index">>) \o U8(<<"ptrs_dmrs_port", "ptrs_re_offset">>)) \o
                 U8(<<"ptrs_time_density", "ptrs_freq_density", "ul_ptrs_power">>)>>,
               <<8,
                 U8(<<"low_papr_group_number">>) \o U16(<<"low_papr_sequence_number">>) \o
                 U8(<<"ul_ptrs_sample_density",
                      "ul_ptrs_time_density_transform_precoding">>)>>>>) \o
      U16(<<"num_prgs", "prg_size">>) \o U8(<<"dig_bf_interface">>) \o
      List("prgs_list", N("num_prgs"), NoMax,
           List("dig_bf_interface_list", N("dig_bf_interface"), NoMax, U16(<<"beam_idx">>))))

pack_ul_tti_request_srs_pdu ==
  U16(<<"rnti">>) \o U32(<<"handle">>) \o U16(<<"bwp_size", "bwp_start">>) \o
  U8(<<"subcarrier_spacing", "cyclic_prefix", "num_ant_ports", "num_symbols", "num_repetitions",
       "time_start_position", "config_index">>) \o U16(<<"sequence_id">>) \o
  U8(<<"bandwidth_index", "comb_size", "comb_offset", "cyclic_shift", "frequency_position">>) \o
  U16(<<"frequency_shift">>) \o
  U8(<<"frequency_hopping", "group_or_sequence_hopping", "resource_type">>) \o
  U16(<<"t_srs", "t_offset">>)

pack_ul_config_request_ulsch_pdu ==
  Tlv(\h200D, "ulsch_pdu_rel8", pack_ul_config_request_ulsch_rel8_value) \o
  Tlv(\h200E, "ulsch_pdu_rel10", pack_ul_config_request_ulsch_rel10_value) \o
  Tlv(\h2043, "ulsch_pdu_rel11", pack_ul_config_request_ulsch_rel11_value) \o
  Tlv(\h2044, "ulsch_pdu_rel13", pack_ul_config_request_ulsch_rel13_value)

pack_ul_config_request_cqi_ri_rel8_value ==
  U8(<<"dl_cqi_pmi_size_rank_1", "dl_cqi_pmi_size_rank_greater_1", "ri_size", "delta_offset_cqi",
       "delta_offset_ri">>)

pack_ul_config_request_cqi_ri_rel9_value ==
  U8(<<"report_type", "delta_offset_cqi", "delta_offset_ri">>) \o
  Switch("report_type",
         <<<<0, U8(<<"dl_cqi_pmi_ri_size", "control_type">>)>>,
           <<1,
             U8(<<"number_of_cc">>) \o
             List("cc", N("number_of_cc"), NoMax,
                  U8(<<"ri_size">>) \o
                  List("dl_cqi_pmi_size", K(8), NoMax, U8(<<"dl_cqi_pmi_size">>)))>>>>)

pack_ul_config_request_cqi_ri_rel13_value ==
  Switch("report_type", <<<<0, U16(<<"dl_cqi_pmi_ri_size_2">>)>>, <<1, <<>>>>>>)

pack_ul_config_request_cqi_ri_information ==
  Tlv(\h2010, "cqi_ri_information_rel8", pack_ul_config_request_cqi_ri_rel8_value) \o
  Tlv(\h2011, "cqi_ri_information_rel9", pack_ul_config_request_cqi_ri_rel9_value) \o
  Tlv(\h2045, "cqi_ri_information_rel13", pack_ul_config_request_cqi_ri_rel13_value)

pack_ul_config_request_init_tx_params_rel8_value ==
  U8(<<"n_srs_initial", "initial_number_of_resource_blocks">>)

pack_ul_config_request_initial_transmission_parameters ==
  Tlv(\h200F, "initial_transmission_parameters_rel8",
      pack_ul_config_request_init_tx_params_rel8_value)

pack_ul_config_request_ulsch_harq_info_rel10_value ==
  U8(<<"harq_size", "delta_offset_harq", "ack_nack_mode">>)

pack_ul_config_request_ulsch_harq_info_rel13_value ==
  U16(<<"harq_size_2">>) \o U8(<<"delta_offset_harq_2">>)

pack_ul_config_request_ulsch_harq_information ==
  Tlv(\h2012, "harq_information_rel10", pack_ul_config_request_ulsch_harq_info_rel10_value) \o
  Tlv(\h2046, "harq_information_rel13", pack_ul_config_request_ulsch_harq_info_rel13_value)

pack_ul_config_request_ue_info_rel8_value ==
  U32(<<"handle">>) \o U16(<<"rnti">>)

pack_ul_config_request_ue_info_rel11_value ==
  U8(<<"virtual_cell_id_enabled_flag">>) \o U16(<<"npusch_identity">>)

pack_ul_config_request_ue_info_rel13_value ==
  U8(<<"ue_type", "empty_symbols">>) \o
  U16(<<"total_number_of_repetitions", "repetition_number">>)

pack_ul_config_request_ue_information ==
  Tlv(\h2013, "ue_information_rel8", pack_ul_config_request_ue_info_rel8_value) \o
  Tlv(\h2047, "ue_information_rel11", pack_ul_config_request_ue_info_rel11_value) \o
  Tlv(\h2048, "ue_information_rel13", pack_ul_config_request_ue_info_rel13_value)

pack_ul_config_request_harq_info_rel10_tdd_value ==
  U8(<<"harq_size", "ack_nack_mode", "number_of_pucch_resources">>) \o
  U16(<<"n_pucch_1_0", "n_pucch_1_1", "n_pucch_1_2", "n_pucch_1_3">>)

pack_ul_config_request_harq_info_rel8_fdd_value ==
  U16(<<"n_pucch_1_0">>) \o U8(<<"harq_size">>)

pack_ul_config_request_harq_info_rel9_fdd_value ==
  U8(<<"harq_size", "ack_nack_mode", "number_of_pucch_resources">>) \o
  U16(<<"n_pucch_1_0", "n_pucch_1_1", "n_pucch_1_2", "n_pucch_1_3">>)

pack_ul_config_request_harq_info_rel11_value ==
  U8(<<"num_ant_ports">>) \o U16(<<"n_pucch_2_0", "n_pucch_2_1", "n_pucch_2_2", "n_pucch_2_3">>)

pack_ul_config_request_harq_info_rel13_value ==
  U16(<<"harq_size_2">>) \o U8(<<"starting_prb", "n_prb", "cdm_index", "n_srs">>)

pack_ul_config_request_harq_information ==
  Tlv(\h2018, "harq_information_rel10_tdd", pack_ul_config_request_harq_info_rel10_tdd_value) \o
  Tlv(\h2019, "harq_information_rel8_fdd", pack_ul_config_request_harq_info_rel8_fdd_value) \o
  Tlv(\h201A, "harq_information_rel9_fdd", pack_ul_config_request_harq_info_rel9_fdd_value) \o
  Tlv(\h204A, "harq_information_rel11", pack_ul_config_request_harq_info_rel11_value) \o
  Tlv(\h204B, "harq_information_rel13", pack_ul_config_request_harq_info_rel13_value)

pack_ul_config_request_cqi_info_rel8_value ==
  U16(<<"pucch_index">>) \o U8(<<"dl_cqi_pmi_size">>)

pack_ul_config_request_cqi_info_rel10_value ==
  U8(<<"number_of_pucch_resource">>) \o U16(<<"pucch_index_p1">>)

pack_ul_config_request_cqi_info_rel13_value ==
  U8(<<"csi_mode">>) \o U16(<<"dl_cqi_pmi_size_2">>) \o
  U8(<<"starting_prb", "n_prb", "cdm_index", "n_srs">>)

pack_ul_config_request_cqi_information ==
  Tlv(\h2014, "cqi_information_rel8", pack_ul_config_request_cqi_info_rel8_value) \o
  Tlv(\h2015, "cqi_information_rel10", pack_ul_config_request_cqi_info_rel10_value) \o
  Tlv(\h2049, "cqi_information_rel13", pack_ul_config_request_cqi_info_rel13_value)

pack_ul_config_request_sr_info_rel8_value ==
  U16(<<"pucch_index">>)

pack_ul_config_request_sr_info_rel10_value ==
  U8(<<"number_of_pucch_resources">>) \o U16(<<"pucch_index_p1">>)

pack_ul_config_request_sr_information ==
  Tlv(\h2016, "sr_information_rel8", pack_ul_config_request_sr_info_rel8_value) \o
  Tlv(\h2017, "sr_information_rel10", pack_ul_config_request_sr_info_rel10_value)

pack_ul_config_request_srs_pdu_rel8_value ==
  U32(<<"handle">>) \o U16(<<"size", "rnti">>) \o
  U8(<<"srs_bandwidth", "frequency_domain_position", "srs_hopping_bandwidth",
       "transmission_comb">>) \o U16(<<"i_srs">>) \o U8(<<"sounding_reference_cyclic_shift">>)

pack_ul_config_request_srs_pdu_rel10_value ==
  U8(<<"antenna_port">>)

pack_ul_config_request_srs_pdu_rel13_value ==
  U8(<<"number_of_combs">>)

pack_ul_config_request_nb_harq_rel13_value ==
  U8(<<"harq_ack_resource">>)

pack_ul_config_request_nulsch_pdu_rel13_value ==
  U8(<<"nulsch_format">>) \o U32(<<"handle">>) \o U16(<<"size", "rnti">>) \o
  U8(<<"subcarrier_indication", "resource_assignment", "mcs", "redudancy_version",
       "repetition_number", "new_data_indication", "n_srs">>) \o
  U16(<<"scrambling_sequence_initialization_cinit", "sf_idx">>) \o
  pack_ul_config_request_ue_information \o
  Tlv(\h2061, "nb_harq_information_rel13_fdd", pack_ul_config_request_nb_harq_rel13_value)

pack_ul_config_request_nrach_pdu_rel13_value ==
  U8(<<"nprach_config_0", "nprach_config_1", "nprach_config_2">>)

pack_ul_tti_pdu_list_value ==
  Lax(U16(<<"pdu_type">>)) \o
  Sized(2, "pdu_size", 4,
        Switch("pdu_type",
               <<<<0, pack_ul_tti_request_prach_pdu>>, <<2, pack_ul_tti_request_pucch_pdu>>,
                 <<1, pack_ul_tti_request_pusch_pdu>>,
                 <<3, pack_ul_tti_request_srs_pdu>>>>))

pack_ul_tti_groups_list_value ==
  U8(<<"n_ue">>) \o List("ue_list", N("n_ue"), NoMax, U8(<<"pdu_idx">>))

pack_ul_config_request_body_value ==
  U8(<<"number_of_pdus", "rach_prach_frequency_resources", "srs_present">>) \o
  List("ul_config_pdu_list", N("number_of_pdus"), NoMax,
       U8(<<"pdu_type">>) \o
       Sized(1, "pdu_size", 2,
             Switch("pdu_type",
                    <<<<0, pack_ul_config_request_ulsch_pdu>>,
                      <<1,
                        pack_ul_config_request_ulsch_pdu \o
                        pack_ul_config_request_cqi_ri_information \o
                        pack_ul_config_request_initial_transmission_parameters>>,
                      <<2,
                        pack_ul_config_request_ulsch_pdu \o
                        pack_ul_config_request_ulsch_harq_information \o
                        pack_ul_config_request_initial_transmission_parameters>>,
                      <<3,
                        pack_ul_config_request_ulsch_pdu \o
                        pack_ul_config_request_cqi_ri_information \o
                        pack_ul_config_request_ulsch_harq_information \o
                        pack_ul_config_request_initial_transmission_parameters>>,
                      <<4,
                        pack_ul_config_request_ue_information \o
                        pack_ul_config_request_cqi_information>>,
                      <<5,
                        pack_ul_config_request_ue_information \o
                        pack_ul_config_request_sr_information>>,
                      <<6,
                        pack_ul_config_request_ue_information \o
                        pack_ul_config_request_harq_information>>,
                      <<7,
                        pack_ul_config_request_ue_information \o
                        pack_ul_config_request_sr_information \o
                        pack_ul_config_request_harq_information>>,
                      <<8,
                        pack_ul_config_request_ue_information \o
                        pack_ul_config_request_cqi_information \o
                        pack_ul_config_request_harq_information>>,
                      <<9,
                        pack_ul_config_request_ue_information \o
                        pack_ul_config_request_cqi_information \o
                        pack_ul_config_request_sr_information>>,
                      <<10,
                        pack_ul_config_request_ue_information \o
                        pack_ul_config_request_cqi_information \o
                        pack_ul_config_request_sr_information \o
                        pack_ul_config_request_harq_information>>,
                      <<11,
                        Tlv(\h201B, "srs_pdu_rel8", pack_ul_config_request_srs_pdu_rel8_value) \o
                        Tlv(\h201C, "srs_pdu_rel10",
                            pack_ul_config_request_srs_pdu_rel10_value) \o
                        Tlv(\h204C, "srs_pdu_rel13",
                            pack_ul_config_request_srs_pdu_rel13_value)>>,
                      <<12, pack_ul_config_request_ue_information>>,
                      <<13,
                        pack_ul_config_request_ulsch_pdu \o
                        pack_ul_config_request_cqi_information>>,
                      <<14,
                        pack_ul_config_request_ulsch_pdu \o
                        pack_ul_config_request_harq_information>>,
                      <<15,
                        pack_ul_config_request_ulsch_pdu \o
                        pack_ul_config_request_cqi_information \o
                        pack_ul_config_request_harq_information>>,
                      <<16,
                        Tlv(\h205F, "nulsch_pdu_rel13",
                            pack_ul_config_request_nulsch_pdu_rel13_value)>>,
                      <<17,
                        Tlv(\h2067, "nrach_pdu_rel13",
                            pack_ul_config_request_nrach_pdu_rel13_value)>>>>)))

pack_ul_tti_request ==
  CountOf("n_ulcch", "pdus_list", "n_pdus", "pdu_type", 2) \o
  CountOf("n_ulsch", "pdus_list", "n_pdus", "pdu_type", 1) \o U16(<<"SFN", "Slot">>) \o
  U8(<<"n_pdus", "rach_present", "n_ulsch", "n_ulcch", "n_group">>) \o
  List("pdus_list", N("n_pdus"), NoMax, pack_ul_tti_pdu_list_value) \o
  List("groups_list", N("n_group"), NoMax, pack_ul_tti_groups_list_value)

pack_ul_config_request ==
  U16(<<"sfn_sf">>) \o Tlv(\h200C, "ul_config_request_body", pack_ul_config_request_body_value)

pack_hi_dci0_hi_rel8_pdu_value ==
  U8(<<"resource_block_start", "cyclic_shift_2_for_drms", "hi_value", "i_phich">>) \o
  U16(<<"transmission_power">>)

pack_hi_dci0_hi_rel10_pdu_value ==
  U8(<<"flag_tb2", "hi_value_2">>)

pack_hi_dci0_dci_rel8_pdu_value ==
  U8(<<"dci_format", "cce_index", "aggregation_level">>) \o U16(<<"rnti">>) \o
  U8(<<"resource_block_start", "number_of_resource_block", "mcs_1", "cyclic_shift_2_for_drms",
       "frequency_hopping_enabled_flag", "frequency_hopping_bits", "new_data_indication_1",
       "ue_tx_antenna_seleciton", "tpc", "cqi_csi_request", "ul_index",
       "dl_assignment_index">>) \o U32(<<"tpc_bitmap">>) \o U16(<<"transmission_power">>)

pack_hi_dci0_dci_rel10_pdu_value ==
  U8(<<"cross_carrier_scheduling_flag", "carrier_indicator", "size_of_cqi_csi_feild", "srs_flag",
       "srs_request", "resource_allocation_flag", "resource_allocation_type">>) \o
  U32(<<"resource_block_coding">>) \o
  U8(<<"mcs_2", "new_data_indication_2", "number_of_antenna_ports", "tpmi",
       "total_dci_length_including_padding", "n_ul_rb">>)

pack_hi_dci0_dci_rel12_pdu_value ==
  U8(<<"pscch_resource", "time_resource_pattern">>)

pack_hi_dci0_mpdcch_dci_rel13_pdu_value ==
  U8(<<"mpdcch_narrowband", "number_of_prb_pairs", "resource_block_assignment",
       "mpdcch_transmission_type", "start_symbol", "ecce_index", "aggreagation_level",
       "rnti_type">>) \o U16(<<"rnti">>) \o U8(<<"ce_mode">>) \o
  U16(<<"drms_scrambling_init", "initial_transmission_sf_io", "transmission_power">>) \o
  U8(<<"dci_format", "resource_block_start", "number_of_resource_blocks", "mcs",
       "pusch_repetition_levels", "frequency_hopping_flag", "new_data_indication", "harq_process",
       "redudency_version", "tpc", "csi_request", "ul_inex", "dai_presence_flag",
       "dl_assignment_index", "srs_request", "dci_subframe_repetition_number">>) \o
  U32(<<"tcp_bitmap">>) \o
  U8(<<"total_dci_length_include_padding", "number_of_tx_antenna_ports">>) \o
  Arr(2, "precoding_value", N("number_of_tx_antenna_ports"), 8)

pack_hi_dci0_npdcch_dci_rel13_pdu_value ==
  U8(<<"ncce_index", "aggregation_level", "start_symbol">>) \o U16(<<"rnti">>) \o
  U8(<<"scrambling_reinitialization_batch_index", "nrs_antenna_ports_assumed_by_the_ue",
       "subcarrier_indication", "resource_assignment", "scheduling_delay", "mcs",
       "redudancy_version", "repetition_number", "new_data_indicator",
       "dci_subframe_repetition_number">>)

pack_hi_dci0_request_body_value ==
  U16(<<"sfnsf">>) \o U8(<<"number_of_dci", "number_of_hi">>) \o
  List("hi_dci0_pdu_list", SumOf(<<"number_of_dci", "number_of_hi">>), NoMax,
       U8(<<"pdu_type">>) \o
       Sized(1, "pdu_size", 2,
             Switch("pdu_type",
                    <<<<0,
                        Tlv(\h201E, "hi_pdu_rel8", pack_hi_dci0_hi_rel8_pdu_value) \o
                        Tlv(\h201F, "hi_pdu_rel10", pack_hi_dci0_hi_rel10_pdu_value)>>,
                      <<1,
                        Tlv(\h2020, "dci_pdu_rel8", pack_hi_dci0_dci_rel8_pdu_value) \o
                        Tlv(\h2021, "dci_pdu_rel10", pack_hi_dci0_dci_rel10_pdu_value) \o
                        Tlv(\h204D, "dci_pdu_rel12", pack_hi_dci0_dci_rel12_pdu_value)>>,
                      <<2,
                        Tlv(\h2020, "epdcch_dci_pdu_rel8", pack_hi_dci0_dci_rel8_pdu_value) \o
                        Tlv(\h2021, "epdcch_dci_pdu_rel10", pack_hi_dci0_dci_rel10_pdu_value) \o
                        Tlv(\h2041, "epdcch_parameters_rel11",
                            pack_dl_config_epdcch_parameters_rel11_value)>>,
                      <<3,
                        Tlv(\h204E, "mpdcch_dci_pdu_rel13",
                            pack_hi_dci0_mpdcch_dci_rel13_pdu_value)>>,
                      <<4,
                        Tlv(\h2062, "npdcch_dci_pdu_rel13",
                            pack_hi_dci0_npdcch_dci_rel13_pdu_value)>>>>)))

pack_ul_dci_pdu_list_value ==
  Lax(U16(<<"PDUType">>)) \o
  Sized(2, "PDUSize", 4,
        Lax(U16(<<"BWPSize", "BWPStart">>) \o
            U8(<<"SubcarrierSpacing", "CyclicPrefix", "StartSymbolIndex", "DurationSymbols">>) \o
            Fixed(1, "FreqDomainResource", 6) \o
            U8(<<"CceRegMappingType", "RegBundleSize", "InterleaverSize", "CoreSetType">>) \o
            U16(<<"ShiftIndex">>) \o U8(<<"precoderGranularity">>) \o U16(<<"numDlDci">>) \o
            List("dci_pdu", N("numDlDci"), NoMax,
                 U16(<<"RNTI", "ScramblingId", "ScramblingRNTI">>) \o
                 U8(<<"CceIndex", "AggregationLevel">>) \o Set(2, "num_prgs", 0) \o
                 Set(2, "prg_size", 0) \o Set(1, "dig_bf_interfaces", 0) \o
                 List("prgs_list", N("num_prgs"), NoMax,
                      U16(<<"pm_idx">>) \o
                      List("dig_bf_interface_list", N("dig_bf_interfaces"), NoMax,
                           U16(<<"beam_idx">>))) \o
                 U8(<<"beta_PDCCH_1_0", "powerControlOffsetSS">>) \o U16(<<"PayloadSizeBits">>) \o
                 Dci("Payload", "PayloadSizeBits"))))

pack_ul_dci_request ==
  U16(<<"SFN", "Slot">>) \o U8(<<"numPdus">>) \o
  List("ul_dci_pdu_list", N("numPdus"), NoMax, pack_ul_dci_pdu_list_value)

pack_hi_dci0_request ==
  U16(<<"sfn_sf">>) \o Tlv(\h201D, "hi_dci0_request_body", pack_hi_dci0_request_body_value)

pack_tx_data_pdu_list_value ==
  U16(<<"PDU_length", "PDU_index">>) \o U32(<<"num_TLV">>) \o
  List("TLVs", N("num_TLV"), NoMax,
       U16(<<"tag", "length">>) \o
       Switch("tag",
              <<<<0, Arr(4, "direct", Ceil("length", 4), 16384)>>,
                <<1, Arr(4, "ptr", N("length"), NoMax)>>>>))

pack_tx_request_body_value ==
  U16(<<"number_of_pdus">>) \o
  List("tx_pdu_list", N("number_of_pdus"), NoMax,
       U16(<<"pdu_length", "pdu_index">>) \o Arr(1, "segment_data", N("pdu_length"), 65535))

pack_tx_data_request ==
  U16(<<"SFN", "Slot", "Number_of_PDUs">>) \o
  List("pdu_list", N("Number_of_PDUs"), NoMax, pack_tx_data_pdu_list_value)

pack_tx_request ==
  U16(<<"sfn_sf">>) \o Tlv(\h2022, "tx_request_body", pack_tx_request_body_value)

pack_release_request_body_value ==
  U16(<<"number_of_TLVs">>) \o
  List("ue_release_request_TLVs_list", N("number_of_TLVs"), NoMax, U16(<<"rnti">>))

pack_ue_release_request ==
  U16(<<"sfn_sf">>) \o Tlv(\h2068, "ue_release_request_body", pack_release_request_body_value)

pack_nr_ue_release_request ==
  U16(<<"sfn_sf">>) \o NrTlv(\h2068, "ue_release_request_body", pack_release_request_body_value)

==============================================================================
