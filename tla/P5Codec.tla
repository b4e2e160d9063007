------------------------------- MODULE P5Codec -------------------------------
(* The two P5 codecs, LTE and NR: what each pack_ and unpack_ function of
   nfapi_p5.c writes and reads, one layout per C function. *)
EXTENDS Layout

pack_nr_pnf_param_request ==
  <<>>

pack_pnf_param_request ==
  <<>>

pack_pnf_param_general_value ==
  U8(<<"nfapi_sync_mode", "location_mode">>) \o U16(<<"location_coordinates_length">>) \o
  Arr(1, "location_coordinates", N("location_coordinates_length"), 16) \o
  U32(<<"dl_config_timing", "tx_timing", "ul_config_timing", "hi_dci0_timing">>) \o
  U16(<<"maximum_number_phys", "maximum_total_bandwidth">>) \o
  U8(<<"maximum_total_number_dl_layers", "maximum_total_number_ul_layers", "shared_bands",
       "shared_pa">>) \o U16(<<"maximum_total_power">>) \o Fixed(1, "oui", 3)

pack_rf_config_info ==
  U16(<<"rf_config_index">>)

pack_pnf_phy_info ==
  U16(<<"phy_config_index", "number_of_rfs">>) \o
  List("rf_config", N("number_of_rfs"), 5, pack_rf_config_info) \o
  U16(<<"number_of_rf_exclusions">>) \o
  List("excluded_rf_config", N("number_of_rf_exclusions"), 5, pack_rf_config_info) \o
  U16(<<"downlink_channel_bandwidth_supported", "uplink_channel_bandwidth_supported">>) \o
  U8(<<"number_of_dl_layers_supported", "number_of_ul_layers_supported">>) \o
  U16(<<"maximum_3gpp_release_supported">>) \o U8(<<"nmm_modes_supported">>)

pack_pnf_phy_value ==
  U16(<<"number_of_phys">>) \o List("phy", N("number_of_phys"), 5, pack_pnf_phy_info)

pack_pnf_rf_value ==
  U16(<<"number_of_rfs">>) \o
  List("rf", N("number_of_rfs"), NoMax,
       U16(<<"rf_config_index", "band", "maximum_transmit_power", "minimum_transmit_power">>) \o
       U8(<<"number_of_antennas_suppported">>) \o
       U32(<<"minimum_downlink_frequency", "maximum_downlink_frequency",
             "minimum_uplink_frequency", "maximum_uplink_frequency">>))

pack_pnf_phy_rel10_info ==
  U16(<<"phy_config_index", "transmission_mode_7_supported", "transmission_mode_8_supported",
        "two_antenna_ports_for_pucch", "transmission_mode_9_supported",
        "simultaneous_pucch_pusch", "four_layer_tx_with_tm3_and_tm4">>)

pack_pnf_phy_rel10_value ==
  U16(<<"number_of_phys">>) \o List("phy", N("number_of_phys"), 5, pack_pnf_phy_rel10_info)

pack_pnf_phy_rel11_info ==
  U16(<<"phy_config_index", "edpcch_supported", "multi_ack_csi_reporting", "pucch_tx_diversity",
        "ul_comp_supported", "transmission_mode_5_supported">>)

pack_pnf_phy_rel11_value ==
  U16(<<"number_of_phys">>) \o List("phy", N("number_of_phys"), 5, pack_pnf_phy_rel11_info)

pack_pnf_phy_rel12_info ==
  U16(<<"phy_config_index", "csi_subframe_set", "enhanced_4tx_codebook", "drs_supported",
        "ul_64qam_supported", "transmission_mode_10_supported", "alternative_bts_indices">>)

pack_pnf_phy_rel12_value ==
  U16(<<"number_of_phys">>) \o List("phy", N("number_of_phys"), 5, pack_pnf_phy_rel12_info)

pack_pnf_phy_rel13_info ==
  U16(<<"phy_config_index", "pucch_format4_supported", "pucch_format5_supported",
        "more_than_5_ca_support", "laa_supported", "laa_ending_in_dwpts_supported",
        "laa_starting_in_second_slot_supported", "beamforming_supported",
        "csi_rs_enhancement_supported", "drms_enhancement_supported",
        "srs_enhancement_supported">>)

pack_pnf_phy_rel13_value ==
  U16(<<"number_of_phys">>) \o List("phy", N("number_of_phys"), 5, pack_pnf_phy_rel13_info)

pack_pnf_phy_rel13_nb_iot_info ==
  U16(<<"phy_config_index", "number_of_rfs">>) \o
  List("rf_config", N("number_of_rfs"), 5, pack_rf_config_info) \o
  U16(<<"number_of_rf_exclusions">>) \o
  List("excluded_rf_config", N("number_of_rf_exclusions"), 5, pack_rf_config_info) \o
  U8(<<"number_of_dl_layers_supported", "number_of_ul_layers_supported">>) \o
  U16(<<"maximum_3gpp_release_supported">>) \o U8(<<"nmm_modes_supported">>)

pack_pnf_phy_rel13_nb_iot_value ==
  U16(<<"number_of_phys">>) \o List("phy", N("number_of_phys"), 5, pack_pnf_phy_rel13_nb_iot_info)

pack_nr_pnf_param_response ==
  U8(<<"error_code", "num_tlvs">>) \o
  NrTlv(\h1000, "pnf_param_general", pack_pnf_param_general_value) \o
  NrTlv(\h1001, "pnf_phy", pack_pnf_phy_value)

pack_pnf_param_response ==
  U32(<<"error_code">>) \o Tlv(\h1000, "pnf_param_general", pack_pnf_param_general_value) \o
  Tlv(\h1001, "pnf_phy", pack_pnf_phy_value) \o Tlv(\h1002, "pnf_rf", pack_pnf_rf_value) \o
  Tlv(\h100A, "pnf_phy_rel10", pack_pnf_phy_rel10_value) \o
  Tlv(\h100B, "pnf_phy_rel11", pack_pnf_phy_rel11_value) \o
  Tlv(\h100C, "pnf_phy_rel12", pack_pnf_phy_rel12_value) \o
  Tlv(\h100D, "pnf_phy_rel13", pack_pnf_phy_rel13_value) \o
  Tlv(\h100E, "pnf_phy_rel13_nb_iot", pack_pnf_phy_rel13_nb_iot_value)

pack_phy_rf_config_info ==
  U16(<<"phy_id", "phy_config_index", "rf_config_index">>)

pack_pnf_phy_rf_config_value ==
  U16(<<"number_phy_rf_config_info">>) \o
  List("phy_rf_config", N("number_phy_rf_config_info"), 2, pack_phy_rf_config_info)

pack_nr_pnf_config_request ==
  U8(<<"num_tlvs">>) \o NrTlv(\h1003, "pnf_phy_rf_config", pack_pnf_phy_rf_config_value)

pack_pnf_config_request ==
  U8(<<"num_tlvs">>) \o Tlv(\h1003, "pnf_phy_rf_config", pack_pnf_phy_rf_config_value)

pack_nr_pnf_config_response ==
  U8(<<"error_code">>)

pack_pnf_config_response ==
  U32(<<"error_code">>)

pack_nr_pnf_start_request ==
  <<>>

pack_pnf_start_request ==
  <<>>

pack_nr_pnf_start_response ==
  U32(<<"error_code">>)

pack_pnf_start_response ==
  U32(<<"error_code">>)

pack_nr_pnf_stop_request ==
  <<>>

pack_pnf_stop_request ==
  <<>>

pack_nr_pnf_stop_response ==
  U32(<<"error_code">>)

pack_pnf_stop_response ==
  U32(<<"error_code">>)

pack_nr_param_request ==
  <<>>

pack_param_request ==
  <<>>

pack_uint32_tlv_value ==
  U32(<<"value">>)

unpack_uint32_tlv_value ==
  U32(<<"value">>)

pack_uint16_tlv_value ==
  U16(<<"value">>)

unpack_uint16_tlv_value ==
  U16(<<"value">>)

pack_int16_tlv_value ==
  U16(<<"value">>)

unpack_int16_tlv_value ==
  U16(<<"value">>)

pack_uint8_tlv_value ==
  U8(<<"value">>)

unpack_uint8_tlv_value ==
  U8(<<"value">>)

pack_ipv4_address_value ==
  Fixed(1, "address", 4)

unpack_ipv4_address_value ==
  Fixed(1, "address", 4)

pack_ipv6_address_value ==
  Fixed(1, "address", 16)

unpack_ipv6_address_value ==
  Fixed(1, "address", 16)

pack_rf_bands_value ==
  U16(<<"number_rf_bands">>) \o Arr(2, "rf_band", N("number_rf_bands"), 16)

unpack_rf_bands_value ==
  U16(<<"number_rf_bands">>) \o Arr(2, "rf_band", N("number_rf_bands"), 16)

pack_nmm_frequency_bands_value ==
  U16(<<"number_of_rf_bands">>) \o Arr(2, "bands", N("number_of_rf_bands"), 32)

unpack_nmm_frequency_bands_value ==
  U16(<<"number_of_rf_bands">>) \o Arr(2, "bands", N("number_of_rf_bands"), 32)

pack_embms_mbsfn_config_value ==
  U16(<<"num_mbsfn_config">>) \o
  Arr(2, "radioframe_allocation_period", N("num_mbsfn_config"), 8) \o
  Arr(2, "radioframe_allocation_offset", N("num_mbsfn_config"), 8) \o
  Arr(1, "fourframes_flag", N("num_mbsfn_config"), 8) \o
  Arr(4, "mbsfn_subframeconfig", N("num_mbsfn_config"), 8)

pack_param_response ==
  U8(<<"error_code", "num_tlv">>) \o Tlv(\h00FA, "phy_state", pack_uint16_tlv_value) \o
  Tlv(\h00C8, "dl_bandwidth_support", pack_uint16_tlv_value) \o
  Tlv(\h00C9, "ul_bandwidth_support", pack_uint16_tlv_value) \o
  Tlv(\h00CA, "dl_modulation_support", pack_uint16_tlv_value) \o
  Tlv(\h00CB, "ul_modulation_support", pack_uint16_tlv_value) \o
  Tlv(\h00CC, "phy_antenna_capability", pack_uint16_tlv_value) \o
  Tlv(\h00CD, "release_capability", pack_uint16_tlv_value) \o
  Tlv(\h00CE, "mbsfn_capability", pack_uint16_tlv_value) \o
  Tlv(\h0001, "duplex_mode", pack_uint16_tlv_value) \o
  Tlv(\h0002, "pcfich_power_offset", pack_uint16_tlv_value) \o
  Tlv(\h0003, "pb", pack_uint16_tlv_value) \o
  Tlv(\h0004, "dl_cyclic_prefix_type", pack_uint16_tlv_value) \o
  Tlv(\h0005, "ul_cyclic_prefix_type", pack_uint16_tlv_value) \o
  Tlv(\h000A, "dl_channel_bandwidth", pack_uint16_tlv_value) \o
  Tlv(\h000B, "ul_channel_bandwidth", pack_uint16_tlv_value) \o
  Tlv(\h000C, "reference_signal_power", pack_uint16_tlv_value) \o
  Tlv(\h000D, "tx_antenna_ports", pack_uint16_tlv_value) \o
  Tlv(\h000E, "rx_antenna_ports", pack_uint16_tlv_value) \o
  Tlv(\h0014, "phich_resource", pack_uint16_tlv_value) \o
  Tlv(\h0015, "phich_duration", pack_uint16_tlv_value) \o
  Tlv(\h0016, "phich_power_offset", pack_uint16_tlv_value) \o
  Tlv(\h001E, "primary_synchronization_signal_epre_eprers", pack_uint16_tlv_value) \o
  Tlv(\h001F, "secondary_synchronization_signal_epre_eprers", pack_uint16_tlv_value) \o
  Tlv(\h0020, "physical_cell_id", pack_uint16_tlv_value) \o
  Tlv(\h0028, "configuration_index", pack_uint16_tlv_value) \o
  Tlv(\h0029, "root_sequence_index", pack_uint16_tlv_value) \o
  Tlv(\h002A, "zero_correlation_zone_configuration", pack_uint16_tlv_value) \o
  Tlv(\h002B, "high_speed_flag", pack_uint16_tlv_value) \o
  Tlv(\h002C, "frequency_offset", pack_uint16_tlv_value) \o
  Tlv(\h0032, "hopping_mode", pack_uint16_tlv_value) \o
  Tlv(\h0033, "hopping_offset", pack_uint16_tlv_value) \o
  Tlv(\h0034, "number_of_subbands", pack_uint16_tlv_value) \o
  Tlv(\h003C, "delta_pucch_shift", pack_uint16_tlv_value) \o
  Tlv(\h003D, "n_cqi_rb", pack_uint16_tlv_value) \o
  Tlv(\h003E, "n_an_cs", pack_uint16_tlv_value) \o
  Tlv(\h003F, "n1_pucch_an", pack_uint16_tlv_value) \o
  Tlv(\h0039, "mbsfn_area_idx", pack_uint8_tlv_value) \o
  Tlv(\h0040, "mbsfn_area_id_r9", pack_uint16_tlv_value) \o
  Tlv(\h0041, "embms_mbsfn_config", pack_embms_mbsfn_config_value) \o
  Tlv(\h0042, "radioframe_allocation_period", pack_uint8_tlv_value) \o
  Tlv(\h0043, "radioframe_allocation_offset", pack_uint8_tlv_value) \o
  Tlv(\h0044, "non_mbsfn_config_flag", pack_uint8_tlv_value) \o
  Tlv(\h0045, "non_mbsfn_subframeconfig", pack_uint16_tlv_value) \o
  Tlv(\h0046, "bandwidth_configuration", pack_uint16_tlv_value) \o
  Tlv(\h0047, "max_up_pts", pack_uint16_tlv_value) \o
  Tlv(\h0048, "srs_subframe_configuration", pack_uint16_tlv_value) \o
  Tlv(\h0049, "srs_acknack_srs_simultaneous_transmission", pack_uint16_tlv_value) \o
  Tlv(\h0050, "uplink_rs_hopping", pack_uint16_tlv_value) \o
  Tlv(\h0051, "group_assignment", pack_uint16_tlv_value) \o
  Tlv(\h0052, "cyclic_shift_1_for_drms", pack_uint16_tlv_value) \o
  Tlv(\h005A, "subframe_assignment", pack_uint16_tlv_value) \o
  Tlv(\h005B, "special_subframe_patterns", pack_uint16_tlv_value) \o
  Tlv(\h00F0, "data_report_mode", pack_uint16_tlv_value) \o
  Tlv(\h00F1, "sfnsf", pack_uint16_tlv_value) \o
  Tlv(\h0100, "p7_vnf_address_ipv4", pack_ipv4_address_value) \o
  Tlv(\h0101, "p7_vnf_address_ipv6", pack_ipv6_address_value) \o
  Tlv(\h0102, "p7_vnf_port", pack_uint16_tlv_value) \o
  Tlv(\h0103, "p7_pnf_address_ipv4", pack_ipv4_address_value) \o
  Tlv(\h0104, "p7_pnf_address_ipv6", pack_ipv6_address_value) \o
  Tlv(\h0105, "p7_pnf_port", pack_uint16_tlv_value) \o
  Tlv(\h010A, "dl_ue_per_sf", pack_uint8_tlv_value) \o
  Tlv(\h010B, "ul_ue_per_sf", pack_uint8_tlv_value) \o
  Tlv(\h0114, "rf_bands", pack_rf_bands_value) \o
  Tlv(\h011E, "timing_window", pack_uint8_tlv_value) \o
  Tlv(\h011F, "timing_info_mode", pack_uint8_tlv_value) \o
  Tlv(\h0120, "timing_info_period", pack_uint8_tlv_value) \o
  Tlv(\h0128, "max_transmit_power", pack_uint16_tlv_value) \o
  Tlv(\h0129, "earfcn", pack_uint32_tlv_value) \o
  Tlv(\h0130, "nmm_gsm_frequency_bands", pack_nmm_frequency_bands_value) \o
  Tlv(\h0131, "nmm_umts_frequency_bands", pack_nmm_frequency_bands_value) \o
  Tlv(\h0132, "nmm_lte_frequency_bands", pack_nmm_frequency_bands_value) \o
  Tlv(\h0133, "nmm_uplink_rssi_supported", pack_uint8_tlv_value)

pack_nr_param_response ==
  U8(<<"error_code", "num_tlv">>) \o NrTlv(\h0001, "release_capability", pack_uint16_tlv_value) \o
  NrTlv(\h0002, "phy_state", pack_uint16_tlv_value) \o
  NrTlv(\h0003, "skip_blank_dl_config", pack_uint8_tlv_value) \o
  NrTlv(\h0004, "skip_blank_ul_config", pack_uint8_tlv_value) \o
  NrTlv(\h0005, "num_config_tlvs_to_report", pack_uint16_tlv_value) \o
  NrTlv(\h0006, "cyclic_prefix", pack_uint8_tlv_value) \o
  NrTlv(\h0007, "supported_subcarrier_spacings_dl", pack_uint16_tlv_value) \o
  NrTlv(\h0008, "supported_bandwidth_dl", pack_uint16_tlv_value) \o
  NrTlv(\h0009, "supported_subcarrier_spacings_ul", pack_uint8_tlv_value) \o
  NrTlv(\h000A, "supported_bandwidth_ul", pack_uint16_tlv_value) \o
  NrTlv(\h000B, "cce_mapping_type", pack_uint8_tlv_value) \o
  NrTlv(\h000C, "coreset_outside_first_3_of_ofdm_syms_of_slot", pack_uint8_tlv_value) \o
  NrTlv(\h000D, "coreset_precoder_granularity_coreset", pack_uint8_tlv_value) \o
  NrTlv(\h000E, "pdcch_mu_mimo", pack_uint8_tlv_value) \o
  NrTlv(\h000F, "pdcch_precoder_cycling", pack_uint8_tlv_value) \o
  NrTlv(\h0010, "max_pdcch_per_slot", pack_uint8_tlv_value) \o
  NrTlv(\h0011, "pucch_formats", pack_uint8_tlv_value) \o
  NrTlv(\h0012, "max_pucchs_per_slot", pack_uint8_tlv_value) \o
  NrTlv(\h0013, "pdsch_mapping_type", pack_uint8_tlv_value) \o
  NrTlv(\h0014, "pdsch_allocation_types", pack_uint8_tlv_value) \o
  NrTlv(\h0015, "pdsch_vrb_to_prb_mapping", pack_uint8_tlv_value) \o
  NrTlv(\h0016, "pdsch_cbg", pack_uint8_tlv_value) \o
  NrTlv(\h0017, "pdsch_dmrs_config_types", pack_uint8_tlv_value) \o
  NrTlv(\h0018, "pdsch_dmrs_max_length", pack_uint8_tlv_value) \o
  NrTlv(\h0019, "pdsch_dmrs_additional_pos", pack_uint8_tlv_value) \o
  NrTlv(\h001A, "max_pdsch_tbs_per_slot", pack_uint8_tlv_value) \o
  NrTlv(\h001B, "max_number_mimo_layers_pdsch", pack_uint8_tlv_value) \o
  NrTlv(\h001D, "max_mu_mimo_users_dl", pack_uint8_tlv_value) \o
  NrTlv(\h001E, "pdsch_data_in_dmrs_symbols", pack_uint8_tlv_value) \o
  NrTlv(\h001F, "premption_support", pack_uint8_tlv_value) \o
  NrTlv(\h0020, "pdsch_non_slot_support", pack_uint8_tlv_value) \o
  NrTlv(\h0021, "uci_mux_ulsch_in_pusch", pack_uint8_tlv_value) \o
  NrTlv(\h0022, "uci_only_pusch", pack_uint8_tlv_value) \o
  NrTlv(\h0023, "pusch_frequency_hopping", pack_uint8_tlv_value) \o
  NrTlv(\h0024, "pusch_dmrs_config_types", pack_uint8_tlv_value) \o
  NrTlv(\h0025, "pusch_dmrs_max_len", pack_uint8_tlv_value) \o
  NrTlv(\h0026, "pusch_dmrs_additional_pos", pack_uint8_tlv_value) \o
  NrTlv(\h0027, "pusch_cbg", pack_uint8_tlv_value) \o
  NrTlv(\h0028, "pusch_mapping_type", pack_uint8_tlv_value) \o
  NrTlv(\h0029, "pusch_allocation_types", pack_uint8_tlv_value) \o
  NrTlv(\h002A, "pusch_vrb_to_prb_mapping", pack_uint8_tlv_value) \o
  NrTlv(\h002B, "pusch_max_ptrs_ports", pack_uint8_tlv_value) \o
  NrTlv(\h002C, "max_pduschs_tbs_per_slot", pack_uint8_tlv_value) \o
  NrTlv(\h002D, "max_number_mimo_layers_non_cb_pusch", pack_uint8_tlv_value) \o
  NrTlv(\h002E, "supported_modulation_order_ul", pack_uint8_tlv_value) \o
  NrTlv(\h002F, "max_mu_mimo_users_ul", pack_uint8_tlv_value) \o
  NrTlv(\h0030, "dfts_ofdm_support", pack_uint8_tlv_value) \o
  NrTlv(\h0031, "pusch_aggregation_factor", pack_uint8_tlv_value) \o
  NrTlv(\h0032, "prach_long_formats", pack_uint8_tlv_value) \o
  NrTlv(\h0033, "prach_short_formats", pack_uint8_tlv_value) \o
  NrTlv(\h0034, "prach_restricted_sets", pack_uint8_tlv_value) \o
  NrTlv(\h0035, "max_prach_fd_occasions_in_a_slot", pack_uint8_tlv_value) \o
  NrTlv(\h0036, "rssi_measurement_support", pack_uint8_tlv_value) \o
  NrTlv(\h0100, "p7_vnf_address_ipv4", pack_ipv4_address_value) \o
  NrTlv(\h0101, "p7_vnf_address_ipv6", pack_ipv6_address_value) \o
  NrTlv(\h0102, "p7_vnf_port", pack_uint16_tlv_value) \o
  NrTlv(\h0103, "p7_pnf_address_ipv4", pack_ipv4_address_value) \o
  NrTlv(\h0104, "p7_pnf_address_ipv6", pack_ipv6_address_value) \o
  NrTlv(\h0105, "p7_pnf_port", pack_uint16_tlv_value) \o
  NrTlv(\h011E, "timing_window", pack_uint8_tlv_value) \o
  NrTlv(\h011F, "timing_info_mode", pack_uint8_tlv_value) \o
  NrTlv(\h0120, "timing_info_period", pack_uint8_tlv_value)

pack_config_request ==
  U8(<<"num_tlv">>) \o Tlv(\h0001, "duplex_mode", pack_uint16_tlv_value) \o
  Tlv(\h0002, "pcfich_power_offset", pack_uint16_tlv_value) \o
  Tlv(\h0003, "pb", pack_uint16_tlv_value) \o
  Tlv(\h0004, "dl_cyclic_prefix_type", pack_uint16_tlv_value) \o
  Tlv(\h0005, "ul_cyclic_prefix_type", pack_uint16_tlv_value) \o
  Tlv(\h000A, "dl_channel_bandwidth", pack_uint16_tlv_value) \o
  Tlv(\h000B, "ul_channel_bandwidth", pack_uint16_tlv_value) \o
  Tlv(\h000C, "reference_signal_power", pack_uint16_tlv_value) \o
  Tlv(\h000D, "tx_antenna_ports", pack_uint16_tlv_value) \o
  Tlv(\h000E, "rx_antenna_ports", pack_uint16_tlv_value) \o
  Tlv(\h0014, "phich_resource", pack_uint16_tlv_value) \o
  Tlv(\h0015, "phich_duration", pack_uint16_tlv_value) \o
  Tlv(\h0016, "phich_power_offset", pack_uint16_tlv_value) \o
  Tlv(\h001E, "primary_synchronization_signal_epre_eprers", pack_uint16_tlv_value) \o
  Tlv(\h001F, "secondary_synchronization_signal_epre_eprers", pack_uint16_tlv_value) \o
  Tlv(\h0020, "physical_cell_id", pack_uint16_tlv_value) \o
  Tlv(\h0028, "configuration_index", pack_uint16_tlv_value) \o
  Tlv(\h0029, "root_sequence_index", pack_uint16_tlv_value) \o
  Tlv(\h002A, "zero_correlation_zone_configuration", pack_uint16_tlv_value) \o
  Tlv(\h002B, "high_speed_flag", pack_uint16_tlv_value) \o
  Tlv(\h002C, "frequency_offset", pack_uint16_tlv_value) \o
  Tlv(\h0032, "hopping_mode", pack_uint16_tlv_value) \o
  Tlv(\h0033, "hopping_offset", pack_uint16_tlv_value) \o
  Tlv(\h0034, "number_of_subbands", pack_uint16_tlv_value) \o
  Tlv(\h003C, "delta_pucch_shift", pack_uint16_tlv_value) \o
  Tlv(\h003D, "n_cqi_rb", pack_uint16_tlv_value) \o
  Tlv(\h003E, "n_an_cs", pack_uint16_tlv_value) \o
  Tlv(\h003F, "n1_pucch_an", pack_uint16_tlv_value) \o
  Tlv(\h0046, "bandwidth_configuration", pack_uint16_tlv_value) \o
  Tlv(\h0047, "max_up_pts", pack_uint16_tlv_value) \o
  Tlv(\h0048, "srs_subframe_configuration", pack_uint16_tlv_value) \o
  Tlv(\h0049, "srs_acknack_srs_simultaneous_transmission", pack_uint16_tlv_value) \o
  Tlv(\h0050, "uplink_rs_hopping", pack_uint16_tlv_value) \o
  Tlv(\h0051, "group_assignment", pack_uint16_tlv_value) \o
  Tlv(\h0052, "cyclic_shift_1_for_drms", pack_uint16_tlv_value) \o
  Tlv(\h0064, "ed_threshold_lbt_pdsch", pack_uint16_tlv_value) \o
  Tlv(\h0065, "ed_threshold_lbt_drs", pack_uint16_tlv_value) \o
  Tlv(\h0066, "pd_threshold", pack_uint16_tlv_value) \o
  Tlv(\h0067, "multi_carrier_type", pack_uint16_tlv_value) \o
  Tlv(\h0068, "multi_carrier_tx", pack_uint16_tlv_value) \o
  Tlv(\h0069, "multi_carrier_freeze", pack_uint16_tlv_value) \o
  Tlv(\h006A, "tx_antenna_ports_drs", pack_uint16_tlv_value) \o
  Tlv(\h006B, "tx_power_drs", pack_uint16_tlv_value) \o
  Tlv(\h0078, "pbch_repetitions_enable_r13", pack_uint16_tlv_value) \o
  Tlv(\h0079, "prach_catm_root_sequence_index", pack_uint16_tlv_value) \o
  Tlv(\h007A, "prach_catm_zero_correlation_zone_configuration", pack_uint16_tlv_value) \o
  Tlv(\h007B, "prach_catm_high_speed_flag", pack_uint16_tlv_value) \o
  Tlv(\h007C, "prach_ce_level_0_enable", pack_uint16_tlv_value) \o
  Tlv(\h007D, "prach_ce_level_0_configuration_index", pack_uint16_tlv_value) \o
  Tlv(\h007E, "prach_ce_level_0_frequency_offset", pack_uint16_tlv_value) \o
  Tlv(\h007F, "prach_ce_level_0_number_of_repetitions_per_attempt", pack_uint16_tlv_value) \o
  Tlv(\h0080, "prach_ce_level_0_starting_subframe_periodicity", pack_uint16_tlv_value) \o
  Tlv(\h0081, "prach_ce_level_0_hopping_enable", pack_uint16_tlv_value) \o
  Tlv(\h0082, "prach_ce_level_0_hopping_offset", pack_uint16_tlv_value) \o
  Tlv(\h0083, "prach_ce_level_1_enable", pack_uint16_tlv_value) \o
  Tlv(\h0084, "prach_ce_level_1_configuration_index", pack_uint16_tlv_value) \o
  Tlv(\h0085, "prach_ce_level_1_frequency_offset", pack_uint16_tlv_value) \o
  Tlv(\h0086, "prach_ce_level_1_number_of_repetitions_per_attempt", pack_uint16_tlv_value) \o
  Tlv(\h0087, "prach_ce_level_1_starting_subframe_periodicity", pack_uint16_tlv_value) \o
  Tlv(\h0088, "prach_ce_level_1_hopping_enable", pack_uint16_tlv_value) \o
  Tlv(\h0089, "prach_ce_level_1_hopping_offset", pack_uint16_tlv_value) \o
  Tlv(\h008A, "prach_ce_level_2_enable", pack_uint16_tlv_value) \o
  Tlv(\h008B, "prach_ce_level_2_configuration_index", pack_uint16_tlv_value) \o
  Tlv(\h008C, "prach_ce_level_2_frequency_offset", pack_uint16_tlv_value) \o
  Tlv(\h008D, "prach_ce_level_2_number_of_repetitions_per_attempt", pack_uint16_tlv_value) \o
  Tlv(\h008E, "prach_ce_level_2_starting_subframe_periodicity", pack_uint16_tlv_value) \o
  Tlv(\h008F, "prach_ce_level_2_hopping_enable", pack_uint16_tlv_value) \o
  Tlv(\h0090, "prach_ce_level_2_hopping_offset", pack_uint16_tlv_value) \o
  Tlv(\h0091, "prach_ce_level_3_enable", pack_uint16_tlv_value) \o
  Tlv(\h0092, "prach_ce_level_3_configuration_index", pack_uint16_tlv_value) \o
  Tlv(\h0093, "prach_ce_level_3_frequency_offset", pack_uint16_tlv_value) \o
  Tlv(\h0094, "prach_ce_level_3_number_of_repetitions_per_attempt", pack_uint16_tlv_value) \o
  Tlv(\h0095, "prach_ce_level_3_starting_subframe_periodicity", pack_uint16_tlv_value) \o
  Tlv(\h0096, "prach_ce_level_3_hopping_enable", pack_uint16_tlv_value) \o
  Tlv(\h0097, "prach_ce_level_3_hopping_offset", pack_uint16_tlv_value) \o
  Tlv(\h0098, "pucch_interval_ulhoppingconfigcommonmodea", pack_uint16_tlv_value) \o
  Tlv(\h0099, "pucch_interval_ulhoppingconfigcommonmodeb", pack_uint16_tlv_value) \o
  Tlv(\h005A, "subframe_assignment", pack_uint16_tlv_value) \o
  Tlv(\h005B, "special_subframe_patterns", pack_uint16_tlv_value) \o
  Tlv(\h00F0, "data_report_mode", pack_uint16_tlv_value) \o
  Tlv(\h00F1, "sfnsf", pack_uint16_tlv_value) \o
  Tlv(\h0100, "p7_vnf_address_ipv4", pack_ipv4_address_value) \o
  Tlv(\h0101, "p7_vnf_address_ipv6", pack_ipv6_address_value) \o
  Tlv(\h0102, "p7_vnf_port", pack_uint16_tlv_value) \o
  Tlv(\h0103, "p7_pnf_address_ipv4", pack_ipv4_address_value) \o
  Tlv(\h0104, "p7_pnf_address_ipv6", pack_ipv6_address_value) \o
  Tlv(\h0105, "p7_pnf_port", pack_uint16_tlv_value) \o
  Tlv(\h010A, "dl_ue_per_sf", pack_uint8_tlv_value) \o
  Tlv(\h010B, "ul_ue_per_sf", pack_uint8_tlv_value) \o
  Tlv(\h0114, "rf_bands", pack_rf_bands_value) \o
  Tlv(\h011E, "timing_window", pack_uint8_tlv_value) \o
  Tlv(\h011F, "timing_info_mode", pack_uint8_tlv_value) \o
  Tlv(\h0120, "timing_info_period", pack_uint8_tlv_value) \o
  Tlv(\h0128, "max_transmit_power", pack_uint16_tlv_value) \o
  Tlv(\h0129, "earfcn", pack_uint32_tlv_value) \o
  Tlv(\h0130, "nmm_gsm_frequency_bands", pack_nmm_frequency_bands_value) \o
  Tlv(\h0131, "nmm_umts_frequency_bands", pack_nmm_frequency_bands_value) \o
  Tlv(\h0132, "nmm_lte_frequency_bands", pack_nmm_frequency_bands_value) \o
  Tlv(\h0133, "nmm_uplink_rssi_supported", pack_uint8_tlv_value)

FiveValues ==
  List("value", K(5), NoMax, U16(<<"value">>))

pack_nr_config_request ==
  Tally("num_tlv", 97, 5, FirstOf(<<"num_prach_fd_occasions">>, "value"),
        Call(NrTlv(\h1001, "dl_bandwidth", pack_uint16_tlv_value)) \o
        Call(NrTlv(\h1002, "dl_frequency", pack_uint32_tlv_value)) \o
        Lax(Lit(2, \h1003) \o Lit(2, 10) \o Sub("dl_k0", FiveValues) \o Lit(2, 0)) \o
        Lax(Lit(2, \h1004) \o Lit(2, 10) \o Sub("dl_grid_size", FiveValues) \o Lit(2, 0)) \o
        Call(NrTlv(\h1005, "num_tx_ant", pack_uint16_tlv_value)) \o
        Call(NrTlv(\h1006, "uplink_bandwidth", pack_uint16_tlv_value)) \o
        Call(NrTlv(\h1007, "uplink_frequency", pack_uint32_tlv_value)) \o
        Lax(Lit(2, \h1008) \o Lit(2, 10) \o Sub("ul_k0", FiveValues) \o Lit(2, 0)) \o
        Lax(Lit(2, \h1009) \o Lit(2, 10) \o Sub("ul_grid_size", FiveValues) \o Lit(2, 0)) \o
        Call(NrTlv(\h100A, "num_rx_ant", pack_uint16_tlv_value)) \o
        Call(NrTlv(\h100C, "phy_cell_id", pack_uint16_tlv_value)) \o
        Call(NrTlv(\h100D, "frame_duplex_type", pack_uint8_tlv_value)) \o
        Call(NrTlv(\h100E, "ss_pbch_power", pack_uint32_tlv_value)) \o
        Call(NrTlv(\h100F, "bch_payload", pack_uint8_tlv_value)) \o
        Call(NrTlv(\h1010, "scs_common", pack_uint8_tlv_value)) \o
        Call(NrTlv(\h1011, "prach_sequence_length", pack_uint8_tlv_value)) \o
        Call(NrTlv(\h1012, "prach_sub_c_spacing", pack_uint8_tlv_value)) \o
        Call(NrTlv(\h1013, "restricted_set_config", pack_uint8_tlv_value)) \o
        Call(NrTlv(\h1014, "num_prach_fd_occasions", pack_uint8_tlv_value)) \o
        Call(NrTlv(\h1029, "prach_ConfigurationIndex", pack_uint8_tlv_value)) \o
        List("num_prach_fd_occasions_list", FirstOf(<<"num_prach_fd_occasions">>, "value"), NoMax,
             Call(NrTlv(\h1015, "prach_root_sequence_index", pack_uint16_tlv_value)) \o
             Call(NrTlv(\h1016, "num_root_sequences", pack_uint8_tlv_value)) \o
             Call(NrTlv(\h1017, "k1", pack_uint16_tlv_value)) \o
             Call(NrTlv(\h1018, "prach_zero_corr_conf", pack_uint8_tlv_value)) \o
             Call(NrTlv(\h1019, "num_unused_root_sequences", pack_uint16_tlv_value))) \o
        Call(NrTlv(\h101B, "ssb_per_rach", pack_uint8_tlv_value)) \o
        Call(NrTlv(\h101D, "ssb_offset_point_a", pack_uint16_tlv_value)) \o
        Call(NrTlv(\h101F, "ssb_period", pack_uint8_tlv_value)) \o
        Call(NrTlv(\h1020, "ssb_subcarrier_offset", pack_uint8_tlv_value)) \o
        List("ssb_mask_list", K(2), NoMax,
             Call(NrTlv(\h1022, "ssb_mask", pack_uint32_tlv_value))) \o
        List("ssb_beam_id_list", K(64), NoMax,
             Call(NrTlv(\h1023, "beam_id", pack_uint8_tlv_value))) \o
        Call(NrTlv(\h1026, "tdd_period", pack_uint8_tlv_value)) \o
        Call(NrTlv(\h0100, "p7_vnf_address_ipv4", pack_ipv4_address_value)) \o
        Call(NrTlv(\h0101, "p7_vnf_address_ipv6", pack_ipv6_address_value)) \o
        Call(NrTlv(\h0102, "p7_vnf_port", pack_uint16_tlv_value)) \o
        Call(NrTlv(\h011E, "timing_window", pack_uint8_tlv_value)) \o
        Call(NrTlv(\h011F, "timing_info_mode", pack_uint8_tlv_value)) \o
        Call(NrTlv(\h0120, "timing_info_period", pack_uint8_tlv_value)))

pack_nr_config_response ==
  U8(<<"error_code", "num_invalid_tlvs", "num_invalid_tlvs_configured_in_idle",
       "num_invalid_tlvs_configured_in_running", "num_missing_tlvs">>)

pack_config_response ==
  U32(<<"error_code">>)

pack_nr_start_request ==
  <<>>

pack_start_request ==
  <<>>

pack_nr_start_response ==
  U32(<<"error_code">>)

pack_start_response ==
  U32(<<"error_code">>)

pack_stop_request ==
  <<>>

pack_stop_response ==
  U32(<<"error_code">>)

pack_measurement_request ==
  Tlv(\h1004, "dl_rs_tx_power", pack_uint16_tlv_value) \o
  Tlv(\h1005, "received_interference_power", pack_uint16_tlv_value) \o
  Tlv(\h1006, "thermal_noise_power", pack_uint16_tlv_value)

pack_recevied_interference_power_measurement_value ==
  U16(<<"number_of_resource_blocks">>) \o
  Arr(2, "received_interference_power", N("number_of_resource_blocks"), 100)

pack_measurement_response ==
  U32(<<"error_code">>) \o Tlv(\h1007, "dl_rs_tx_power_measurement", pack_int16_tlv_value) \o
  Tlv(\h1008, "received_interference_power_measurement",
      pack_recevied_interference_power_measurement_value) \o
  Tlv(\h1009, "thermal_noise_power_measurement", pack_uint16_tlv_value)

unpack_nr_pnf_param_request ==
  NrTlvs(<<>>)

unpack_pnf_param_request ==
  Tlvs(<<>>)

unpack_pnf_param_general_value ==
  U8(<<"nfapi_sync_mode", "location_mode">>) \o U16(<<"location_coordinates_length">>) \o
  Arr(1, "location_coordinates", N("location_coordinates_length"), 16) \o
  U32(<<"dl_config_timing", "tx_timing", "ul_config_timing", "hi_dci0_timing">>) \o
  U16(<<"maximum_number_phys", "maximum_total_bandwidth">>) \o
  U8(<<"maximum_total_number_dl_layers", "maximum_total_number_ul_layers", "shared_bands",
       "shared_pa">>) \o U16(<<"maximum_total_power">>) \o Fixed(1, "oui", 3)

unpack_rf_config_info ==
  U16(<<"rf_config_index">>)

unpack_pnf_phy_info ==
  U16(<<"phy_config_index", "number_of_rfs">>) \o
  List("rf_config", N("number_of_rfs"), 5, unpack_rf_config_info) \o
  U16(<<"number_of_rf_exclusions">>) \o
  List("excluded_rf_config", N("number_of_rf_exclusions"), 5, unpack_rf_config_info) \o
  U16(<<"downlink_channel_bandwidth_supported", "uplink_channel_bandwidth_supported">>) \o
  U8(<<"number_of_dl_layers_supported", "number_of_ul_layers_supported">>) \o
  U16(<<"maximum_3gpp_release_supported">>) \o U8(<<"nmm_modes_supported">>)

unpack_pnf_phy_value ==
  U16(<<"number_of_phys">>) \o List("phy", N("number_of_phys"), 5, unpack_pnf_phy_info)

unpack_pnf_rf_info ==
  U16(<<"rf_config_index", "band", "maximum_transmit_power", "minimum_transmit_power">>) \o
  U8(<<"number_of_antennas_suppported">>) \o
  U32(<<"minimum_downlink_frequency", "maximum_downlink_frequency", "minimum_uplink_frequency",
        "maximum_uplink_frequency">>)

unpack_pnf_rf_value ==
  U16(<<"number_of_rfs">>) \o List("rf", N("number_of_rfs"), 5, unpack_pnf_rf_info)

unpack_pnf_phy_rel10_info ==
  U16(<<"phy_config_index", "transmission_mode_7_supported", "transmission_mode_8_supported",
        "two_antenna_ports_for_pucch", "transmission_mode_9_supported",
        "simultaneous_pucch_pusch", "four_layer_tx_with_tm3_and_tm4">>)

unpack_pnf_phy_rel10_value ==
  U16(<<"number_of_phys">>) \o List("phy", N("number_of_phys"), 5, unpack_pnf_phy_rel10_info)

unpack_pnf_phy_rel11_info ==
  U16(<<"phy_config_index", "edpcch_supported", "multi_ack_csi_reporting", "pucch_tx_diversity",
        "ul_comp_supported", "transmission_mode_5_supported">>)

unpack_pnf_phy_rel11_value ==
  U16(<<"number_of_phys">>) \o List("phy", N("number_of_phys"), 5, unpack_pnf_phy_rel11_info)

unpack_phy_phy_rel12_info ==
  U16(<<"phy_config_index", "csi_subframe_set", "enhanced_4tx_codebook", "drs_supported",
        "ul_64qam_supported", "transmission_mode_10_supported", "alternative_bts_indices">>)

\* the stride is sizeof(nfapi_pnf_phy_rel12_t), the TLV of five PHYs: the second PHY
\* and the others are written over the TLVs that are read after this one
unpack_pnf_phy_rel12_value ==
  U16(<<"number_of_phys">>) \o Astray("phy", N("number_of_phys"), 5, unpack_phy_phy_rel12_info)

unpack_pnf_phy_rel13_info ==
  U16(<<"phy_config_index", "pucch_format4_supported", "pucch_format5_supported",
        "more_than_5_ca_support", "laa_supported", "laa_ending_in_dwpts_supported",
        "laa_starting_in_second_slot_supported", "beamforming_supported",
        "csi_rs_enhancement_supported", "drms_enhancement_supported",
        "srs_enhancement_supported">>)

unpack_pnf_phy_rel13_value ==
  U16(<<"number_of_phys">>) \o List("phy", N("number_of_phys"), 5, unpack_pnf_phy_rel13_info)

unpack_pnf_phy_rel13_nb_info_info ==
  U16(<<"phy_config_index", "number_of_rfs">>) \o
  List("rf_config", N("number_of_rfs"), 5, unpack_rf_config_info) \o
  U16(<<"number_of_rf_exclusions">>) \o
  List("excluded_rf_config", N("number_of_rf_exclusions"), 5, unpack_rf_config_info) \o
  U8(<<"number_of_dl_layers_supported", "number_of_ul_layers_supported">>) \o
  U16(<<"maximum_3gpp_release_supported">>) \o U8(<<"nmm_modes_supported">>)

unpack_pnf_phy_rel13_nb_iot_value ==
  U16(<<"number_of_phys">>) \o
  List("phy", N("number_of_phys"), 5, unpack_pnf_phy_rel13_nb_info_info)

unpack_nr_pnf_param_response ==
  U8(<<"error_code", "num_tlvs">>) \o
  NrTlvs(<<<<\h1000, "pnf_param_general", unpack_pnf_param_general_value>>,
           <<\h1001, "pnf_phy", unpack_pnf_phy_value>>>>)

unpack_pnf_param_response ==
  U32(<<"error_code">>) \o
  Tlvs(<<<<\h1000, "pnf_param_general", unpack_pnf_param_general_value>>,
         <<\h1001, "pnf_phy", unpack_pnf_phy_value>>,
         <<\h1002, "pnf_rf", unpack_pnf_rf_value>>,
         <<\h100A, "pnf_phy_rel10", unpack_pnf_phy_rel10_value>>,
         <<\h100B, "pnf_phy_rel11", unpack_pnf_phy_rel11_value>>,
         <<\h100C, "pnf_phy_rel12", unpack_pnf_phy_rel12_value>>,
         <<\h100D, "pnf_phy_rel13", unpack_pnf_phy_rel13_value>>,
         <<\h100E, "pnf_phy_rel13_nb_iot", unpack_pnf_phy_rel13_nb_iot_value>>>>)

unpack_phy_rf_config_info ==
  U16(<<"phy_id", "phy_config_index", "rf_config_index">>)

unpack_pnf_phy_rf_config_value ==
  U16(<<"number_phy_rf_config_info">>) \o
  List("phy_rf_config", N("number_phy_rf_config_info"), 2, unpack_phy_rf_config_info)

unpack_nr_pnf_config_request ==
  Lax(U8(<<"num_tlvs">>)) \o
  NrTlvs(<<<<\h1003, "pnf_phy_rf_config", unpack_pnf_phy_rf_config_value>>>>)

unpack_pnf_config_request ==
  U8(<<"num_tlvs">>) \o Tlvs(<<<<\h1003, "pnf_phy_rf_config", unpack_pnf_phy_rf_config_value>>>>)

unpack_nr_pnf_config_response ==
  U8(<<"error_code">>) \o NrTlvs(<<>>)

unpack_pnf_config_response ==
  U32(<<"error_code">>) \o Tlvs(<<>>)

unpack_nr_pnf_start_request ==
  NrTlvs(<<>>)

unpack_pnf_start_request ==
  Tlvs(<<>>)

unpack_pnf_start_response ==
  U32(<<"error_code">>) \o Tlvs(<<>>)

unpack_nr_pnf_start_response ==
  U32(<<"error_code">>) \o NrTlvs(<<>>)

unpack_pnf_stop_request ==
  Tlvs(<<>>)

unpack_pnf_stop_response ==
  U32(<<"error_code">>) \o Tlvs(<<>>)

unpack_param_request ==
  Tlvs(<<>>)

unpack_nr_param_request ==
  NrTlvs(<<>>)

unpack_param_response ==
  U8(<<"error_code", "num_tlv">>) \o
  Tlvs(<<<<\h00FA, "phy_state", unpack_uint16_tlv_value>>,
         <<\h00C8, "dl_bandwidth_support", unpack_uint16_tlv_value>>,
         <<\h00C9, "ul_bandwidth_support", unpack_uint16_tlv_value>>,
         <<\h00CA, "dl_modulation_support", unpack_uint16_tlv_value>>,
         <<\h00CB, "ul_modulation_support", unpack_uint16_tlv_value>>,
         <<\h00CC, "phy_antenna_capability", unpack_uint16_tlv_value>>,
         <<\h00CD, "release_capability", unpack_uint16_tlv_value>>,
         <<\h00CE, "mbsfn_capability", unpack_uint16_tlv_value>>,
         <<\h00D1, "laa_support", unpack_uint16_tlv_value>>,
         <<\h00D2, "pd_sensing_lbt_support", unpack_uint16_tlv_value>>,
         <<\h00D3, "multi_carrier_lbt_support", unpack_uint16_tlv_value>>,
         <<\h00D4, "partial_sf_support", unpack_uint16_tlv_value>>,
         <<\h0001, "duplex_mode", unpack_uint16_tlv_value>>,
         <<\h0002, "pcfich_power_offset", unpack_uint16_tlv_value>>,
         <<\h0003, "pb", unpack_uint16_tlv_value>>,
         <<\h0004, "dl_cyclic_prefix_type", unpack_uint16_tlv_value>>,
         <<\h0005, "ul_cyclic_prefix_type", unpack_uint16_tlv_value>>,
         <<\h000A, "dl_channel_bandwidth", unpack_uint16_tlv_value>>,
         <<\h000B, "ul_channel_bandwidth", unpack_uint16_tlv_value>>,
         <<\h000C, "reference_signal_power", unpack_uint16_tlv_value>>,
         <<\h000D, "tx_antenna_ports", unpack_uint16_tlv_value>>,
         <<\h000E, "rx_antenna_ports", unpack_uint16_tlv_value>>,
         <<\h0014, "phich_resource", unpack_uint16_tlv_value>>,
         <<\h0015, "phich_duration", unpack_uint16_tlv_value>>,
         <<\h0016, "phich_power_offset", unpack_uint16_tlv_value>>,
         <<\h001E, "primary_synchronization_signal_epre_eprers", unpack_uint16_tlv_value>>,
         <<\h001F, "secondary_synchronization_signal_epre_eprers", unpack_uint16_tlv_value>>,
         <<\h0020, "physical_cell_id", unpack_uint16_tlv_value>>,
         <<\h0028, "configuration_index", unpack_uint16_tlv_value>>,
         <<\h0029, "root_sequence_index", unpack_uint16_tlv_value>>,
         <<\h002A, "zero_correlation_zone_configuration", unpack_uint16_tlv_value>>,
         <<\h002B, "high_speed_flag", unpack_uint16_tlv_value>>,
         <<\h002C, "frequency_offset", unpack_uint16_tlv_value>>,
         <<\h0032, "hopping_mode", unpack_uint16_tlv_value>>,
         <<\h0033, "hopping_offset", unpack_uint16_tlv_value>>,
         <<\h0034, "number_of_subbands", unpack_uint16_tlv_value>>,
         <<\h003C, "delta_pucch_shift", unpack_uint16_tlv_value>>,
         <<\h003D, "n_cqi_rb", unpack_uint16_tlv_value>>,
         <<\h003E, "n_an_cs", unpack_uint16_tlv_value>>,
         <<\h003F, "n1_pucch_an", unpack_uint16_tlv_value>>,
         <<\h0046, "bandwidth_configuration", unpack_uint16_tlv_value>>,
         <<\h0047, "max_up_pts", unpack_uint16_tlv_value>>,
         <<\h0048, "srs_subframe_configuration", unpack_uint16_tlv_value>>,
         <<\h0049, "srs_acknack_srs_simultaneous_transmission", unpack_uint16_tlv_value>>,
         <<\h0050, "uplink_rs_hopping", unpack_uint16_tlv_value>>,
         <<\h0051, "group_assignment", unpack_uint16_tlv_value>>,
         <<\h0052, "cyclic_shift_1_for_drms", unpack_uint16_tlv_value>>,
         <<\h005A, "subframe_assignment", unpack_uint16_tlv_value>>,
         <<\h005B, "special_subframe_patterns", unpack_uint16_tlv_value>>,
         <<\h00F0, "data_report_mode", unpack_uint16_tlv_value>>,
         <<\h00F1, "sfnsf", unpack_uint16_tlv_value>>,
         <<\h0100, "p7_vnf_address_ipv4", unpack_ipv4_address_value>>,
         <<\h0101, "p7_vnf_address_ipv6", unpack_ipv6_address_value>>,
         <<\h0102, "p7_vnf_port", unpack_uint16_tlv_value>>,
         <<\h0103, "p7_pnf_address_ipv4", unpack_ipv4_address_value>>,
         <<\h0104, "p7_pnf_address_ipv6", unpack_ipv6_address_value>>,
         <<\h0105, "p7_pnf_port", unpack_uint16_tlv_value>>,
         <<\h010A, "dl_ue_per_sf", unpack_uint8_tlv_value>>,
         <<\h010B, "ul_ue_per_sf", unpack_uint8_tlv_value>>,
         <<\h0114, "rf_bands", unpack_rf_bands_value>>,
         <<\h011E, "timing_window", unpack_uint8_tlv_value>>,
         <<\h011F, "timing_info_mode", unpack_uint8_tlv_value>>,
         <<\h0120, "timing_info_period", unpack_uint8_tlv_value>>,
         <<\h0128, "max_transmit_power", unpack_uint16_tlv_value>>,
         <<\h0129, "earfcn", unpack_uint32_tlv_value>>,
         <<\h0130, "nmm_gsm_frequency_bands", unpack_nmm_frequency_bands_value>>,
         <<\h0131, "nmm_umts_frequency_bands", unpack_nmm_frequency_bands_value>>,
         <<\h0132, "nmm_lte_frequency_bands", unpack_nmm_frequency_bands_value>>,
         <<\h0133, "nmm_uplink_rssi_supported", unpack_uint8_tlv_value>>>>)

unpack_nr_param_response ==
  U8(<<"error_code", "num_tlv">>) \o
  NrTlvs(<<<<\h0001, "release_capability", unpack_uint16_tlv_value>>,
           <<\h0002, "phy_state", unpack_uint16_tlv_value>>,
           <<\h0003, "skip_blank_dl_config", unpack_uint8_tlv_value>>,
           <<\h0004, "skip_blank_ul_config", unpack_uint8_tlv_value>>,
           <<\h0005, "num_config_tlvs_to_report", unpack_uint16_tlv_value>>,
           <<\h0006, "cyclic_prefix", unpack_uint8_tlv_value>>,
           <<\h0007, "supported_subcarrier_spacings_dl", unpack_uint16_tlv_value>>,
           <<\h0008, "supported_bandwidth_dl", unpack_uint16_tlv_value>>,
           <<\h0009, "supported_subcarrier_spacings_ul", unpack_uint8_tlv_value>>,
           <<\h000A, "supported_bandwidth_ul", unpack_uint16_tlv_value>>,
           <<\h000B, "cce_mapping_type", unpack_uint8_tlv_value>>,
           <<\h000C, "coreset_outside_first_3_of_ofdm_syms_of_slot", unpack_uint8_tlv_value>>,
           <<\h000D, "coreset_precoder_granularity_coreset", unpack_uint8_tlv_value>>,
           <<\h000E, "pdcch_mu_mimo", unpack_uint8_tlv_value>>,
           <<\h000F, "pdcch_precoder_cycling", unpack_uint8_tlv_value>>,
           <<\h0010, "max_pdcch_per_slot", unpack_uint8_tlv_value>>,
           <<\h0011, "pucch_formats", unpack_uint8_tlv_value>>,
           <<\h0012, "max_pucchs_per_slot", unpack_uint8_tlv_value>>,
           <<\h0013, "pdsch_mapping_type", unpack_uint8_tlv_value>>,
           <<\h0014, "pdsch_allocation_types", unpack_uint8_tlv_value>>,
           <<\h0015, "pdsch_vrb_to_prb_mapping", unpack_uint8_tlv_value>>,
           <<\h0016, "pdsch_cbg", unpack_uint8_tlv_value>>,
           <<\h0017, "pdsch_dmrs_config_types", unpack_uint8_tlv_value>>,
           <<\h0018, "pdsch_dmrs_max_length", unpack_uint8_tlv_value>>,
           <<\h0019, "pdsch_dmrs_additional_pos", unpack_uint8_tlv_value>>,
           <<\h001A, "max_pdsch_tbs_per_slot", unpack_uint8_tlv_value>>,
           <<\h001B, "max_number_mimo_layers_pdsch", unpack_uint8_tlv_value>>,
           <<\h001D, "max_mu_mimo_users_dl", unpack_uint8_tlv_value>>,
           <<\h001E, "pdsch_data_in_dmrs_symbols", unpack_uint8_tlv_value>>,
           <<\h001F, "premption_support", unpack_uint8_tlv_value>>,
           <<\h0020, "pdsch_non_slot_support", unpack_uint8_tlv_value>>,
           <<\h0021, "uci_mux_ulsch_in_pusch", unpack_uint8_tlv_value>>,
           <<\h0022, "uci_only_pusch", unpack_uint8_tlv_value>>,
           <<\h0023, "pusch_frequency_hopping", unpack_uint8_tlv_value>>,
           <<\h0024, "pusch_dmrs_config_types", unpack_uint8_tlv_value>>,
           <<\h0025, "pusch_dmrs_max_len", unpack_uint8_tlv_value>>,
           <<\h0026, "pusch_dmrs_additional_pos", unpack_uint8_tlv_value>>,
           <<\h0027, "pusch_cbg", unpack_uint8_tlv_value>>,
           <<\h0028, "pusch_mapping_type", unpack_uint8_tlv_value>>,
           <<\h0029, "pusch_allocation_types", unpack_uint8_tlv_value>>,
           <<\h002A, "pusch_vrb_to_prb_mapping", unpack_uint8_tlv_value>>,
           <<\h002B, "pusch_max_ptrs_ports", unpack_uint8_tlv_value>>,
           <<\h002C, "max_pduschs_tbs_per_slot", unpack_uint8_tlv_value>>,
           <<\h002D, "max_number_mimo_layers_non_cb_pusch", unpack_uint8_tlv_value>>,
           <<\h002E, "supported_modulation_order_ul", unpack_uint8_tlv_value>>,
           <<\h002F, "max_mu_mimo_users_ul", unpack_uint8_tlv_value>>,
           <<\h0030, "dfts_ofdm_support", unpack_uint8_tlv_value>>,
           <<\h0031, "pusch_aggregation_factor", unpack_uint8_tlv_value>>,
           <<\h0032, "prach_long_formats", unpack_uint8_tlv_value>>,
           <<\h0033, "prach_short_formats", unpack_uint8_tlv_value>>,
           <<\h0034, "prach_restricted_sets", unpack_uint8_tlv_value>>,
           <<\h0035, "max_prach_fd_occasions_in_a_slot", unpack_uint8_tlv_value>>,
           <<\h0036, "rssi_measurement_support", unpack_uint8_tlv_value>>,
           <<\h0100, "p7_vnf_address_ipv4", unpack_ipv4_address_value>>,
           <<\h0101, "p7_vnf_address_ipv6", unpack_ipv6_address_value>>,
           <<\h0102, "p7_vnf_port", unpack_uint16_tlv_value>>,
           <<\h0103, "p7_pnf_address_ipv4", unpack_ipv4_address_value>>,
           <<\h0104, "p7_pnf_address_ipv6", unpack_ipv6_address_value>>,
           <<\h0105, "p7_pnf_port", unpack_uint16_tlv_value>>,
           <<\h011E, "timing_window", unpack_uint8_tlv_value>>,
           <<\h011F, "timing_info_mode", unpack_uint8_tlv_value>>,
           <<\h0120, "timing_info_period", unpack_uint8_tlv_value>>>>)

unpack_config_request ==
  U8(<<"num_tlv">>) \o
  Tlvs(<<<<\h0001, "duplex_mode", unpack_uint16_tlv_value>>,
         <<\h0002, "pcfich_power_offset", unpack_uint16_tlv_value>>,
         <<\h0003, "pb", unpack_uint16_tlv_value>>,
         <<\h0004, "dl_cyclic_prefix_type", unpack_uint16_tlv_value>>,
         <<\h0005, "ul_cyclic_prefix_type", unpack_uint16_tlv_value>>,
         <<\h000A, "dl_channel_bandwidth", unpack_uint16_tlv_value>>,
         <<\h000B, "ul_channel_bandwidth", unpack_uint16_tlv_value>>,
         <<\h000C, "reference_signal_power", unpack_uint16_tlv_value>>,
         <<\h000D, "tx_antenna_ports", unpack_uint16_tlv_value>>,
         <<\h000E, "rx_antenna_ports", unpack_uint16_tlv_value>>,
         <<\h0014, "phich_resource", unpack_uint16_tlv_value>>,
         <<\h0015, "phich_duration", unpack_uint16_tlv_value>>,
         <<\h0016, "phich_power_offset", unpack_uint16_tlv_value>>,
         <<\h001E, "primary_synchronization_signal_epre_eprers", unpack_uint16_tlv_value>>,
         <<\h001F, "secondary_synchronization_signal_epre_eprers", unpack_uint16_tlv_value>>,
         <<\h0020, "physical_cell_id", unpack_uint16_tlv_value>>,
         <<\h0028, "configuration_index", unpack_uint16_tlv_value>>,
         <<\h0029, "root_sequence_index", unpack_uint16_tlv_value>>,
         <<\h002A, "zero_correlation_zone_configuration", unpack_uint16_tlv_value>>,
         <<\h002B, "high_speed_flag", unpack_uint16_tlv_value>>,
         <<\h002C, "frequency_offset", unpack_uint16_tlv_value>>,
         <<\h0032, "hopping_mode", unpack_uint16_tlv_value>>,
         <<\h0033, "hopping_offset", unpack_uint16_tlv_value>>,
         <<\h0034, "number_of_subbands", unpack_uint16_tlv_value>>,
         <<\h003C, "delta_pucch_shift", unpack_uint16_tlv_value>>,
         <<\h003D, "n_cqi_rb", unpack_uint16_tlv_value>>,
         <<\h003E, "n_an_cs", unpack_uint16_tlv_value>>,
         <<\h003F, "n1_pucch_an", unpack_uint16_tlv_value>>,
         <<\h0046, "bandwidth_configuration", unpack_uint16_tlv_value>>,
         <<\h0047, "max_up_pts", unpack_uint16_tlv_value>>,
         <<\h0048, "srs_subframe_configuration", unpack_uint16_tlv_value>>,
         <<\h0049, "srs_acknack_srs_simultaneous_transmission", unpack_uint16_tlv_value>>,
         <<\h0050, "uplink_rs_hopping", unpack_uint16_tlv_value>>,
         <<\h0051, "group_assignment", unpack_uint16_tlv_value>>,
         <<\h0052, "cyclic_shift_1_for_drms", unpack_uint16_tlv_value>>,
         <<\h0064, "ed_threshold_lbt_pdsch", unpack_uint16_tlv_value>>,
         <<\h0065, "ed_threshold_lbt_drs", unpack_uint16_tlv_value>>,
         <<\h0066, "pd_threshold", unpack_uint16_tlv_value>>,
         <<\h0067, "multi_carrier_type", unpack_uint16_tlv_value>>,
         <<\h0068, "multi_carrier_tx", unpack_uint16_tlv_value>>,
         <<\h0069, "multi_carrier_freeze", unpack_uint16_tlv_value>>,
         <<\h006A, "tx_antenna_ports_drs", unpack_uint16_tlv_value>>,
         <<\h006B, "tx_power_drs", unpack_uint16_tlv_value>>,
         <<\h0078, "pbch_repetitions_enable_r13", unpack_uint16_tlv_value>>,
         <<\h0079, "prach_catm_root_sequence_index", unpack_uint16_tlv_value>>,
         <<\h007A, "prach_catm_zero_correlation_zone_configuration", unpack_uint16_tlv_value>>,
         <<\h007B, "prach_catm_high_speed_flag", unpack_uint16_tlv_value>>,
         <<\h007C, "prach_ce_level_0_enable", unpack_uint16_tlv_value>>,
         <<\h007D, "prach_ce_level_0_configuration_index", unpack_uint16_tlv_value>>,
         <<\h007E, "prach_ce_level_0_frequency_offset", unpack_uint16_tlv_value>>,
         <<\h007F, "prach_ce_level_0_number_of_repetitions_per_attempt",
           unpack_uint16_tlv_value>>,
         <<\h0080, "prach_ce_level_0_starting_subframe_periodicity", unpack_uint16_tlv_value>>,
         <<\h0081, "prach_ce_level_0_hopping_enable", unpack_uint16_tlv_value>>,
         <<\h0082, "prach_ce_level_0_hopping_offset", unpack_uint16_tlv_value>>,
         <<\h0083, "prach_ce_level_1_enable", unpack_uint16_tlv_value>>,
         <<\h0084, "prach_ce_level_1_configuration_index", unpack_uint16_tlv_value>>,
         <<\h0085, "prach_ce_level_1_frequency_offset", unpack_uint16_tlv_value>>,
         <<\h0086, "prach_ce_level_1_number_of_repetitions_per_attempt",
           unpack_uint16_tlv_value>>,
         <<\h0087, "prach_ce_level_1_starting_subframe_periodicity", unpack_uint16_tlv_value>>,
         <<\h0088, "prach_ce_level_1_hopping_enable", unpack_uint16_tlv_value>>,
         <<\h0089, "prach_ce_level_1_hopping_offset", unpack_uint16_tlv_value>>,
         <<\h008A, "prach_ce_level_2_enable", unpack_uint16_tlv_value>>,
         <<\h008B, "prach_ce_level_2_configuration_index", unpack_uint16_tlv_value>>,
         <<\h008C, "prach_ce_level_2_frequency_offset", unpack_uint16_tlv_value>>,
         <<\h008D, "prach_ce_level_2_number_of_repetitions_per_attempt",
           unpack_uint16_tlv_value>>,
         <<\h008E, "prach_ce_level_2_starting_subframe_periodicity", unpack_uint16_tlv_value>>,
         <<\h008F, "prach_ce_level_2_hopping_enable", unpack_uint16_tlv_value>>,
         <<\h0090, "prach_ce_level_2_hopping_offset", unpack_uint16_tlv_value>>,
         <<\h0091, "prach_ce_level_3_enable", unpack_uint16_tlv_value>>,
         <<\h0092, "prach_ce_level_3_configuration_index", unpack_uint16_tlv_value>>,
         <<\h0093, "prach_ce_level_3_frequency_offset", unpack_uint16_tlv_value>>,
         <<\h0094, "prach_ce_level_3_number_of_repetitions_per_attempt",
           unpack_uint16_tlv_value>>,
         <<\h0095, "prach_ce_level_3_starting_subframe_periodicity", unpack_uint16_tlv_value>>,
         <<\h0096, "prach_ce_level_3_hopping_enable", unpack_uint16_tlv_value>>,
         <<\h0097, "prach_ce_level_3_hopping_offset", unpack_uint16_tlv_value>>,
         <<\h0098, "pucch_interval_ulhoppingconfigcommonmodea", unpack_uint16_tlv_value>>,
         <<\h0099, "pucch_interval_ulhoppingconfigcommonmodeb", unpack_uint16_tlv_value>>,
         <<\h005A, "subframe_assignment", unpack_uint16_tlv_value>>,
         <<\h005B, "special_subframe_patterns", unpack_uint16_tlv_value>>,
         <<\h00F0, "data_report_mode", unpack_uint16_tlv_value>>,
         <<\h00F1, "sfnsf", unpack_uint16_tlv_value>>,
         <<\h0100, "p7_vnf_address_ipv4", unpack_ipv4_address_value>>,
         <<\h0101, "p7_vnf_address_ipv6", unpack_ipv6_address_value>>,
         <<\h0102, "p7_vnf_port", unpack_uint16_tlv_value>>,
         <<\h0103, "p7_pnf_address_ipv4", unpack_ipv4_address_value>>,
         <<\h0104, "p7_pnf_address_ipv6", unpack_ipv6_address_value>>,
         <<\h0105, "p7_pnf_port", unpack_uint16_tlv_value>>,
         <<\h010A, "dl_ue_per_sf", unpack_uint8_tlv_value>>,
         <<\h010B, "ul_ue_per_sf", unpack_uint8_tlv_value>>,
         <<\h0114, "rf_bands", unpack_rf_bands_value>>,
         <<\h011E, "timing_window", unpack_uint8_tlv_value>>,
         <<\h011F, "timing_info_mode", unpack_uint8_tlv_value>>,
         <<\h0120, "timing_info_period", unpack_uint8_tlv_value>>,
         <<\h0128, "max_transmit_power", unpack_uint16_tlv_value>>,
         <<\h0129, "earfcn", unpack_uint32_tlv_value>>,
         <<\h0130, "nmm_gsm_frequency_bands", unpack_nmm_frequency_bands_value>>,
         <<\h0131, "nmm_umts_frequency_bands", unpack_nmm_frequency_bands_value>>,
         <<\h0132, "nmm_lte_frequency_bands", unpack_nmm_frequency_bands_value>>,
         <<\h0133, "nmm_uplink_rssi_supported", unpack_uint8_tlv_value>>>>)

unpack_nr_config_request ==
  Lax(U8(<<"num_tlv">>)) \o
  NrTlvs(<<<<\h1001, "dl_bandwidth", unpack_uint16_tlv_value>>,
           <<\h1002, "dl_frequency", unpack_uint32_tlv_value>>,
           <<\h1004, "dl_grid_size", FiveValues>>, <<\h1003, "dl_k0", FiveValues>>,
           <<\h1005, "num_tx_ant", unpack_uint16_tlv_value>>,
           <<\h1006, "uplink_bandwidth", unpack_uint16_tlv_value>>,
           <<\h1007, "uplink_frequency", unpack_uint32_tlv_value>>,
           <<\h1009, "ul_grid_size", FiveValues>>, <<\h1008, "ul_k0", FiveValues>>,
           <<\h100A, "num_rx_ant", unpack_uint16_tlv_value>>,
           <<\h100B, "frequency_shift_7p5khz", unpack_uint8_tlv_value>>,
           <<\h100C, "phy_cell_id", unpack_uint16_tlv_value>>,
           <<\h100D, "frame_duplex_type", unpack_uint8_tlv_value>>,
           <<\h100E, "ss_pbch_power", unpack_uint32_tlv_value>>,
           <<\h100F, "bch_payload", unpack_uint8_tlv_value>>,
           <<\h1010, "scs_common", unpack_uint8_tlv_value>>,
           <<\h1011, "prach_sequence_length", unpack_uint8_tlv_value>>,
           <<\h1012, "prach_sub_c_spacing", unpack_uint8_tlv_value>>,
           <<\h1013, "restricted_set_config", unpack_uint8_tlv_value>>,
           <<\h1014, "num_prach_fd_occasions", unpack_uint8_tlv_value>>,
           <<\h1029, "prach_ConfigurationIndex", unpack_uint8_tlv_value>>,
           <<\h1015, "prach_root_sequence_index", unpack_uint16_tlv_value,
             At("num_prach_fd_occasions_list", "prach_root_seq_idx", TRUE)>>,
           <<\h1016, "num_root_sequences", unpack_uint8_tlv_value,
             At("num_prach_fd_occasions_list", "prach_root_seq_idx", FALSE)>>,
           <<\h1017, "k1", unpack_uint16_tlv_value,
             At("num_prach_fd_occasions_list", "prach_root_seq_idx", FALSE)>>,
           <<\h1018, "prach_zero_corr_conf", unpack_uint8_tlv_value,
             At("num_prach_fd_occasions_list", "prach_root_seq_idx", FALSE)>>,
           <<\h1019, "num_unused_root_sequences", unpack_uint16_tlv_value,
             At("num_prach_fd_occasions_list", "prach_root_seq_idx", FALSE)>>,
           <<\h101A, "unused_root_sequences_list", unpack_uint16_tlv_value,
             At("unused_root_sequences_list", "unused_root_seq_idx", TRUE)>>,
           <<\h101B, "ssb_per_rach", unpack_uint8_tlv_value>>,
           <<\h101C, "prach_multiple_carriers_in_a_band", unpack_uint8_tlv_value>>,
           <<\h101D, "ssb_offset_point_a", unpack_uint16_tlv_value>>,
           <<\h101E, "beta_pss", unpack_uint8_tlv_value>>,
           <<\h101F, "ssb_period", unpack_uint8_tlv_value>>,
           <<\h1020, "ssb_subcarrier_offset", unpack_uint8_tlv_value>>,
           <<\h1021, "MIB", unpack_uint32_tlv_value>>,
           <<\h1022, "ssb_mask", unpack_uint32_tlv_value,
             At("ssb_mask_list", "ssb_mask_idx", TRUE)>>,
           <<\h1023, "beam_id", unpack_uint8_tlv_value,
             At("ssb_beam_id_list", "config_beam_idx", TRUE)>>,
           <<\h1024, "ss_pbch_multiple_carriers_in_a_band", unpack_uint8_tlv_value>>,
           <<\h1025, "multiple_cells_ss_pbch_in_a_carrier", unpack_uint8_tlv_value>>,
           <<\h1026, "tdd_period", unpack_uint8_tlv_value>>,
           <<\h1027, "slot_config", unpack_uint8_tlv_value,
             At("slot_config_list", "symbol_per_slot_idx", TRUE)>>,
           <<\h1028, "rssi_measurement", unpack_uint8_tlv_value>>,
           <<\h0100, "p7_vnf_address_ipv4", unpack_ipv4_address_value>>,
           <<\h0101, "p7_vnf_address_ipv6", unpack_ipv6_address_value>>,
           <<\h0102, "p7_vnf_port", unpack_uint16_tlv_value>>,
           <<\h011E, "timing_window", unpack_uint8_tlv_value>>,
           <<\h011F, "timing_info_mode", unpack_uint8_tlv_value>>,
           <<\h0120, "timing_info_period", unpack_uint8_tlv_value>>,
           <<\h0104, "p7_pnf_address_ipv6", unpack_ipv6_address_value>>,
           <<\h0105, "p7_pnf_port", unpack_uint16_tlv_value>>>>)

unpack_config_response ==
  U32(<<"error_code">>) \o Tlvs(<<>>)

unpack_nr_config_response ==
  U8(<<"error_code">>) \o Skip(1) \o Skip(1) \o Skip(1) \o Skip(1) \o NrTlvs(<<>>)

unpack_nr_start_request ==
  NrTlvs(<<>>)

unpack_start_request ==
  Tlvs(<<>>)

unpack_start_response ==
  U32(<<"error_code">>) \o Tlvs(<<>>)

unpack_nr_start_response ==
  U32(<<"error_code">>) \o NrTlvs(<<>>)

unpack_stop_request ==
  Tlvs(<<>>)

unpack_stop_response ==
  U32(<<"error_code">>) \o Tlvs(<<>>)

unpack_measurement_request ==
  Tlvs(<<<<\h1004, "dl_rs_tx_power", unpack_uint16_tlv_value>>,
         <<\h1005, "received_interference_power", unpack_uint16_tlv_value>>,
         <<\h1006, "thermal_noise_power", unpack_uint16_tlv_value>>>>)

unpack_received_interference_power_measurement_value ==
  U16(<<"number_of_resource_blocks">>) \o
  Arr(2, "received_interference_power", N("number_of_resource_blocks"), 100)

unpack_measurement_response ==
  U32(<<"error_code">>) \o
  Tlvs(<<<<\h1007, "dl_rs_tx_power_measurement", unpack_int16_tlv_value>>,
         <<\h1008, "received_interference_power_measurement",
           unpack_received_interference_power_measurement_value>>,
         <<\h1009, "thermal_noise_power_measurement", unpack_int16_tlv_value>>>>)

check_nr_unpack_length ==
  {0, 1, 2, 3, 4, 5, 256, 257, 258, 259, 260, 261, 262, 263, 269, 271}

check_unpack_length ==
  {256, 257, 258, 259, 260, 261, 262, 263, 264, 265, 266, 267, 268, 269, 270, 271, 272, 273}

nfapi_p5_header ==
  U16(<<"phy_id", "message_id">>) \o Lit(2, 0) \o U16(<<"spare">>)

nfapi_p5_message_header_unpack ==
  U16(<<"phy_id", "message_id", "message_length", "spare">>)

pack_nr_p5_message_body ==
  <<<<256, pack_nr_pnf_param_request>>, <<257, pack_nr_pnf_param_response>>,
    <<258, pack_nr_pnf_config_request>>, <<259, pack_nr_pnf_config_response>>,
    <<260, pack_nr_pnf_start_request>>, <<261, pack_nr_pnf_start_response>>,
    <<262, pack_nr_pnf_stop_request>>, <<263, pack_nr_pnf_stop_response>>,
    <<0, pack_nr_param_request>>, <<1, pack_nr_param_response>>, <<2, pack_nr_config_request>>,
    <<3, pack_nr_config_response>>, <<4, pack_nr_start_request>>,
    <<269, pack_nr_start_response>>, <<5, pack_stop_request>>, <<271, pack_stop_response>>>>

pack_p5_message_body ==
  <<<<256, pack_pnf_param_request>>, <<257, pack_pnf_param_response>>,
    <<258, pack_pnf_config_request>>, <<259, pack_pnf_config_response>>,
    <<260, pack_pnf_start_request>>, <<261, pack_pnf_start_response>>,
    <<262, pack_pnf_stop_request>>, <<263, pack_pnf_stop_response>>,
    <<264, pack_param_request>>, <<265, pack_param_response>>, <<266, pack_config_request>>,
    <<267, pack_config_response>>, <<268, pack_start_request>>, <<269, pack_start_response>>,
    <<270, pack_stop_request>>, <<271, pack_stop_response>>, <<272, pack_measurement_request>>,
    <<273, pack_measurement_response>>>>

nfapi_nr_p5_message_pack ==
  Length(8,
         nfapi_p5_header \o
         Switch("message_id", pack_nr_p5_message_body \o <<<<Default, Fail>>>>))

nfapi_p5_message_pack ==
  Length(0,
         nfapi_p5_header \o Switch("message_id", pack_p5_message_body \o <<<<Default, Fail>>>>))

nfapi_nr_p5_message_unpack ==
  nfapi_p5_message_header_unpack \o
  Switch("message_id",
         Checked(check_nr_unpack_length,
                 <<<<256, unpack_nr_pnf_param_request>>, <<257, unpack_nr_pnf_param_response>>,
                   <<258, unpack_nr_pnf_config_request>>,
                   <<259, unpack_nr_pnf_config_response>>,
                   <<260, unpack_nr_pnf_start_request>>,
                   <<261, unpack_nr_pnf_start_response>>,
                   <<262, unpack_pnf_stop_request>>,
                   <<263, unpack_pnf_stop_response>>,
                   <<0, unpack_nr_param_request>>,
                   <<1, unpack_nr_param_response>>,
                   <<2, unpack_nr_config_request>>,
                   <<3, unpack_nr_config_response>>,
                   <<4, unpack_nr_start_request>>,
                   <<269, unpack_nr_start_response>>, <<5, unpack_stop_request>>,
                   <<271, unpack_stop_response>>,
                   <<272, unpack_measurement_request>>,
                   <<273, unpack_measurement_response>>>>))

nfapi_p5_message_unpack ==
  nfapi_p5_message_header_unpack \o
  Switch("message_id",
         Checked(check_unpack_length,
                 <<<<256, unpack_pnf_param_request>>, <<257, unpack_pnf_param_response>>,
                   <<258, unpack_pnf_config_request>>,
                   <<259, unpack_pnf_config_response>>,
                   <<260, unpack_pnf_start_request>>,
                   <<261, unpack_pnf_start_response>>,
                   <<262, unpack_pnf_stop_request>>,
                   <<263, unpack_pnf_stop_response>>,
                   <<264, unpack_param_request>>, <<265, unpack_param_response>>,
                   <<266, unpack_config_request>>,
                   <<267, unpack_config_response>>,
                   <<268, unpack_start_request>>, <<269, unpack_start_response>>,
                   <<270, unpack_stop_request>>, <<271, unpack_stop_response>>,
                   <<272, unpack_measurement_request>>,
                   <<273, unpack_measurement_response>>>>))

==============================================================================
