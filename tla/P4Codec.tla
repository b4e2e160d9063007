------------------------------- MODULE P4Codec -------------------------------
(* The P4 (network monitor mode) codec: what each pack_ and unpack_ function of
   nfapi_p4.c writes and reads, one layout per C function. *)
EXTENDS Layout

pack_opaque_data_value ==
  Arr(1, "value", N("length"), 64)

unpack_opaque_data_value ==
  AtMost("tl.length", 64) \o Measured("length") \o Arr(1, "value", N("length"), 64)

pack_lte_rssi_request_value ==
  U8(<<"frequency_band_indicator">>) \o U16(<<"measurement_period">>) \o U8(<<"bandwidth">>) \o
  U32(<<"timeout">>) \o U8(<<"number_of_earfcns">>) \o
  Arr(2, "earfcn", N("number_of_earfcns"), 32)

pack_utran_rssi_request_value ==
  U8(<<"frequency_band_indicator">>) \o U16(<<"measurement_period">>) \o U32(<<"timeout">>) \o
  U8(<<"number_of_uarfcns">>) \o Arr(2, "uarfcn", N("number_of_uarfcns"), 32)

pack_geran_rssi_request_value ==
  U8(<<"frequency_band_indicator">>) \o U16(<<"measurement_period">>) \o U32(<<"timeout">>) \o
  U8(<<"number_of_arfcns">>) \o
  List("arfcn", N("number_of_arfcns"), NoMax, U16(<<"arfcn">>) \o U8(<<"direction">>))

pack_nb_iot_rssi_request_value ==
  U8(<<"frequency_band_indicator">>) \o U16(<<"measurement_period">>) \o U32(<<"timeout">>) \o
  U8(<<"number_of_earfcns">>) \o
  List("earfcn", N("number_of_earfcns"), NoMax,
       U16(<<"earfcn">>) \o U8(<<"number_of_ro_dl">>) \o
       List("ro_dl", N("number_of_ro_dl"), NoMax, U8(<<"ro_dl">>)))

pack_rssi_request ==
  U8(<<"rat_type">>) \o
  Switch("rat_type",
         <<<<0, Tlv(\h3000, "lte_rssi_request", pack_lte_rssi_request_value)>>,
           <<1, Tlv(\h3001, "utran_rssi_request", pack_utran_rssi_request_value)>>,
           <<2, Tlv(\h3002, "geran_rssi_request", pack_geran_rssi_request_value)>>,
           <<3, Tlv(\h3020, "nb_iot_rssi_request", pack_nb_iot_rssi_request_value)>>>>)

pack_rssi_response ==
  U32(<<"error_code">>)

pack_rssi_indication_body_value ==
  U16(<<"number_of_rssi">>) \o Arr(2, "rssi", N("number_of_rssi"), 8)

pack_rssi_indication ==
  U32(<<"error_code">>) \o Tlv(\h3003, "rssi_indication_body", pack_rssi_indication_body_value)

pack_lte_cell_search_request_value ==
  U16(<<"earfcn">>) \o U8(<<"measurement_bandwidth", "exhaustive_search">>) \o
  U32(<<"timeout">>) \o U8(<<"number_of_pci">>) \o Arr(2, "pci", N("number_of_pci"), 32)

pack_utran_cell_search_request_value ==
  U16(<<"uarfcn">>) \o U8(<<"exhaustive_search">>) \o U32(<<"timeout">>) \o
  U8(<<"number_of_psc">>) \o Arr(2, "psc", N("number_of_psc"), 32)

pack_geran_cell_search_request_value ==
  U32(<<"timeout">>) \o U8(<<"number_of_arfcn">>) \o Arr(2, "arfcn", N("number_of_arfcn"), 128)

pack_nb_iot_cell_search_request_value ==
  U16(<<"earfcn">>) \o U8(<<"ro_dl", "exhaustive_search">>) \o U32(<<"timeout">>) \o
  U8(<<"number_of_pci">>) \o Arr(2, "pci", N("number_of_pci"), 32)

pack_cell_search_request ==
  U8(<<"rat_type">>) \o
  Switch("rat_type",
         <<<<0, Tlv(\h3004, "lte_cell_search_request", pack_lte_cell_search_request_value)>>,
           <<1, Tlv(\h3005, "utran_cell_search_request", pack_utran_cell_search_request_value)>>,
           <<2, Tlv(\h3006, "geran_cell_search_request", pack_geran_cell_search_request_value)>>,
           <<3,
             Tlv(\h3021, "nb_iot_cell_search_request", pack_nb_iot_cell_search_request_value)>>>>)

pack_cell_search_response ==
  U32(<<"error_code">>)

pack_lte_cell_search_indication_value ==
  U16(<<"number_of_lte_cells_found">>) \o
  List("lte_found_cells", N("number_of_lte_cells_found"), NoMax,
       U16(<<"pci">>) \o U8(<<"rsrp", "rsrq">>) \o U16(<<"frequency_offset">>))

pack_utran_cell_search_indication_value ==
  U16(<<"number_of_utran_cells_found">>) \o
  List("utran_found_cells", N("number_of_utran_cells_found"), NoMax,
       U16(<<"psc">>) \o U8(<<"rscp", "ecno">>) \o U16(<<"frequency_offset">>))

pack_geran_cell_search_indication_value ==
  U16(<<"number_of_gsm_cells_found">>) \o
  List("gsm_found_cells", N("number_of_gsm_cells_found"), NoMax,
       U16(<<"arfcn">>) \o U8(<<"bsic", "rxlev", "rxqual">>) \o U16(<<"frequency_offset">>) \o
       U32(<<"sfn_offset">>))

pack_nb_iot_cell_search_indication_value ==
  U16(<<"number_of_nb_iot_cells_found">>) \o
  List("nb_iot_found_cells", N("number_of_nb_iot_cells_found"), NoMax,
       U16(<<"pci">>) \o U8(<<"rsrp", "rsrq">>) \o U16(<<"frequency_offset">>))

pack_cell_search_indication ==
  U32(<<"error_code">>) \o
  Tlv(\h3007, "lte_cell_search_indication", pack_lte_cell_search_indication_value) \o
  Tlv(\h3008, "utran_cell_search_indication", pack_utran_cell_search_indication_value) \o
  Tlv(\h3009, "geran_cell_search_indication", pack_geran_cell_search_indication_value) \o
  Tlv(\h300A, "pnf_cell_search_state", pack_opaque_data_value) \o
  Tlv(\h3022, "nb_iot_cell_search_indication", pack_nb_iot_cell_search_indication_value)

pack_lte_broadcast_detect_request_value ==
  U16(<<"earfcn", "pci">>) \o U32(<<"timeout">>)

pack_utran_broadcast_detect_request_value ==
  U16(<<"uarfcn", "psc">>) \o U32(<<"timeout">>)

pack_nb_iot_broadcast_detect_request_value ==
  U16(<<"earfcn">>) \o U8(<<"ro_dl">>) \o U16(<<"pci">>) \o U32(<<"timeout">>)

pack_broadcast_detect_request ==
  U8(<<"rat_type">>) \o
  Switch("rat_type",
         <<<<0,
             Tlv(\h300B, "lte_broadcast_detect_request",
                 pack_lte_broadcast_detect_request_value)>>,
           <<1,
             Tlv(\h300C, "utran_broadcast_detect_request",
                 pack_utran_broadcast_detect_request_value)>>,
           <<3,
             Tlv(\h3023, "nb_iot_broadcast_detect_request",
                 pack_nb_iot_broadcast_detect_request_value)>>>>) \o
  Tlv(\h300A, "pnf_cell_search_state", pack_opaque_data_value)

pack_broadcast_detect_response ==
  U32(<<"error_code">>)

pack_lte_broadcast_detect_indication_value ==
  U8(<<"number_of_tx_antenna">>) \o U16(<<"mib_length">>) \o Arr(1, "mib", N("mib_length"), 32) \o
  U32(<<"sfn_offset">>)

pack_utran_broadcast_detect_indication_value ==
  U16(<<"mib_length">>) \o Arr(1, "mib", N("mib_length"), 32) \o U32(<<"sfn_offset">>)

pack_nb_iot_broadcast_detect_indication_value ==
  U8(<<"number_of_tx_antenna">>) \o U16(<<"mib_length">>) \o Arr(1, "mib", N("mib_length"), 32) \o
  U32(<<"sfn_offset">>)

pack_broadcast_detect_indication ==
  U32(<<"error_code">>) \o
  Tlv(\h300E, "lte_broadcast_detect_indication", pack_lte_broadcast_detect_indication_value) \o
  Tlv(\h300F, "utran_broadcast_detect_indication",
      pack_utran_broadcast_detect_indication_value) \o
  Tlv(\h3010, "pnf_cell_broadcast_state", pack_opaque_data_value) \o
  Tlv(\h3024, "nb_iot_broadcast_detect_indication", pack_nb_iot_broadcast_detect_indication_value)

pack_lte_system_information_schedule_request_value ==
  U16(<<"earfcn", "pci", "downlink_channel_bandwidth">>) \o
  U8(<<"phich_configuration", "number_of_tx_antenna", "retry_count">>) \o U32(<<"timeout">>)

pack_nb_iot_system_information_schedule_request_value ==
  U16(<<"earfcn">>) \o U8(<<"ro_dl">>) \o U16(<<"pci">>) \o U8(<<"scheduling_info_sib1_nb">>) \o
  U32(<<"timeout">>)

pack_system_information_schedule_request ==
  U8(<<"rat_type">>) \o
  Switch("rat_type",
         <<<<0,
             Tlv(\h3011, "lte_system_information_schedule_request",
                 pack_lte_system_information_schedule_request_value)>>,
           <<3,
             Tlv(\h3025, "nb_iot_system_information_schedule_request",
                 pack_nb_iot_system_information_schedule_request_value)>>>>) \o
  Tlv(\h3010, "pnf_cell_broadcast_state", pack_opaque_data_value)

pack_system_information_schedule_response ==
  U32(<<"error_code">>)

pack_lte_system_information_indication_value ==
  U8(<<"sib_type">>) \o U16(<<"sib_length">>) \o Arr(1, "sib", N("sib_length"), 256)

pack_nb_iot_system_information_indication_value ==
  U8(<<"sib_type">>) \o U16(<<"sib_length">>) \o Arr(1, "sib", N("sib_length"), 256)

pack_system_information_schedule_indication ==
  U32(<<"error_code">>) \o
  Tlv(\h3018, "lte_system_information_indication",
      pack_lte_system_information_indication_value) \o
  Tlv(\h3026, "nb_iot_system_information_indication",
      pack_nb_iot_system_information_indication_value)

pack_lte_system_information_request_value ==
  U16(<<"earfcn", "pci", "downlink_channel_bandwidth">>) \o
  U8(<<"phich_configuration", "number_of_tx_antenna", "number_of_si_periodicity">>) \o
  List("si_periodicity", N("number_of_si_periodicity"), NoMax,
       U8(<<"si_periodicity", "si_index">>)) \o U8(<<"si_window_length">>) \o U32(<<"timeout">>)

pack_utran_system_information_request_value ==
  U16(<<"uarfcn", "psc">>) \o U32(<<"timeout">>)

pack_geran_system_information_request_value ==
  U16(<<"arfcn">>) \o U8(<<"bsic">>) \o U32(<<"timeout">>)

pack_nb_iot_system_information_request_value ==
  U16(<<"earfcn">>) \o U8(<<"ro_dl">>) \o U16(<<"pci">>) \o U8(<<"number_of_si_periodicity">>) \o
  List("si_periodicity", N("number_of_si_periodicity"), NoMax,
       U8(<<"si_periodicity", "si_repetition_pattern", "si_tb_size", "number_of_si_index">>) \o
       List("si_index", N("number_of_si_index"), NoMax, U8(<<"si_index">>))) \o
  U8(<<"si_window_length">>) \o U32(<<"timeout">>)

pack_system_information_request ==
  U8(<<"rat_type">>) \o
  Switch("rat_type",
         <<<<0,
             Tlv(\h3014, "lte_system_information_request",
                 pack_lte_system_information_request_value)>>,
           <<1,
             Tlv(\h3015, "utran_system_information_request",
                 pack_utran_system_information_request_value)>>,
           <<2,
             Tlv(\h3016, "geran_system_information_request",
                 pack_geran_system_information_request_value)>>,
           <<3,
             Tlv(\h3027, "nb_iot_system_information_request",
                 pack_nb_iot_system_information_request_value)>>>>) \o
  Tlv(\h3010, "pnf_cell_broadcast_state", pack_opaque_data_value)

pack_system_information_response ==
  U32(<<"error_code">>)

pack_utran_system_information_indication_value ==
  U16(<<"sib_length">>) \o Arr(1, "sib", N("sib_length"), 256)

pack_geran_system_information_indication_value ==
  U16(<<"si_length">>) \o Arr(1, "si", N("si_length"), 256)

pack_system_information_indication ==
  U32(<<"error_code">>) \o
  Tlv(\h3018, "lte_system_information_indication",
      pack_lte_system_information_indication_value) \o
  Tlv(\h3019, "utran_system_information_indication",
      pack_utran_system_information_indication_value) \o
  Tlv(\h301A, "geran_system_information_indication",
      pack_geran_system_information_indication_value) \o
  Tlv(\h3026, "nb_iot_system_information_indication",
      pack_nb_iot_system_information_indication_value)

pack_nmm_stop_request ==
  <<>>

pack_nmm_stop_response ==
  U32(<<"error_code">>)

unpack_lte_rssi_request_value ==
  U8(<<"frequency_band_indicator">>) \o U16(<<"measurement_period">>) \o U8(<<"bandwidth">>) \o
  U32(<<"timeout">>) \o U8(<<"number_of_earfcns">>) \o
  When("number_of_earfcns", "<=", 32, Arr(2, "earfcn", N("number_of_earfcns"), 32)) \o
  Unless("number_of_earfcns", "<=", 32, Fail)

unpack_utran_rssi_request_value ==
  U8(<<"frequency_band_indicator">>) \o U16(<<"measurement_period">>) \o U32(<<"timeout">>) \o
  U8(<<"number_of_uarfcns">>) \o
  When("number_of_uarfcns", "<=", 32, Arr(2, "uarfcn", N("number_of_uarfcns"), 32)) \o
  Unless("number_of_uarfcns", "<=", 32, Fail)

unpack_geran_rssi_request_value ==
  U8(<<"frequency_band_indicator">>) \o U16(<<"measurement_period">>) \o U32(<<"timeout">>) \o
  U8(<<"number_of_arfcns">>) \o
  When("number_of_arfcns", "<=", 32,
       List("arfcn", N("number_of_arfcns"), NoMax, U16(<<"arfcn">>) \o U8(<<"direction">>))) \o
  Unless("number_of_arfcns", "<=", 32, Fail)

unpack_nb_iot_rssi_request_value ==
  U8(<<"frequency_band_indicator">>) \o U16(<<"measurement_period">>) \o U32(<<"timeout">>) \o
  U8(<<"number_of_earfcns">>) \o
  When("number_of_earfcns", "<=", 32,
       List("earfcn", N("number_of_earfcns"), NoMax,
            U16(<<"earfcn">>) \o U8(<<"number_of_ro_dl">>) \o
            When("number_of_ro_dl", "<=", 8,
                 List("ro_dl", N("number_of_ro_dl"), NoMax, U8(<<"ro_dl">>))) \o
            Unless("number_of_ro_dl", "<=", 8, Fail))) \o
  Unless("number_of_earfcns", "<=", 32, Fail)

unpack_rssi_request ==
  U8(<<"rat_type">>) \o
  Tlvs(<<<<\h3000, "lte_rssi_request", unpack_lte_rssi_request_value>>,
         <<\h3001, "utran_rssi_request", unpack_utran_rssi_request_value>>,
         <<\h3002, "geran_rssi_request", unpack_geran_rssi_request_value>>,
         <<\h3020, "nb_iot_rssi_request", unpack_nb_iot_rssi_request_value>>>>) \o
  Requires("rat_type",
           <<<<0, "lte_rssi_request">>, <<1, "utran_rssi_request">>, <<2, "geran_rssi_request">>,
             <<3, "nb_iot_rssi_request">>>>)

unpack_rssi_response ==
  U32(<<"error_code">>) \o Tlvs(<<>>)

unpack_rssi_indication_value ==
  U16(<<"number_of_rssi">>) \o
  When("number_of_rssi", "<=", 8, Arr(2, "rssi", N("number_of_rssi"), 8)) \o
  Unless("number_of_rssi", "<=", 8, Fail)

unpack_rssi_indication ==
  U32(<<"error_code">>) \o
  Tlvs(<<<<\h3003, "rssi_indication_body", unpack_rssi_indication_value>>>>)

unpack_lte_cell_search_request_value ==
  U16(<<"earfcn">>) \o U8(<<"measurement_bandwidth", "exhaustive_search">>) \o
  U32(<<"timeout">>) \o U8(<<"number_of_pci">>) \o
  When("number_of_pci", "<=", 32, Arr(2, "pci", N("number_of_pci"), 32)) \o
  Unless("number_of_pci", "<=", 32, Fail)

unpack_utran_cell_search_request_value ==
  U16(<<"uarfcn">>) \o U8(<<"exhaustive_search">>) \o U32(<<"timeout">>) \o
  U8(<<"number_of_psc">>) \o
  When("number_of_psc", "<=", 32, Arr(2, "psc", N("number_of_psc"), 32)) \o
  Unless("number_of_psc", "<=", 32, Fail)

unpack_geran_cell_search_request_value ==
  U32(<<"timeout">>) \o U8(<<"number_of_arfcn">>) \o
  When("number_of_arfcn", "<=", 128, Arr(2, "arfcn", N("number_of_arfcn"), 128)) \o
  Unless("number_of_arfcn", "<=", 128, Fail)

unpack_nb_iot_cell_search_request_value ==
  U16(<<"earfcn">>) \o U8(<<"ro_dl", "exhaustive_search">>) \o U32(<<"timeout">>) \o
  U8(<<"number_of_pci">>) \o
  When("number_of_pci", "<=", 32, Arr(2, "pci", N("number_of_pci"), 32)) \o
  Unless("number_of_pci", "<=", 32, Fail)

unpack_cell_search_request ==
  U8(<<"rat_type">>) \o
  Tlvs(<<<<\h3004, "lte_cell_search_request", unpack_lte_cell_search_request_value>>,
         <<\h3005, "utran_cell_search_request", unpack_utran_cell_search_request_value>>,
         <<\h3006, "geran_cell_search_request", unpack_geran_cell_search_request_value>>,
         <<\h3021, "nb_iot_cell_search_request", unpack_nb_iot_cell_search_request_value>>>>) \o
  Requires("rat_type",
           <<<<0, "lte_cell_search_request">>, <<1, "utran_cell_search_request">>,
             <<2, "geran_cell_search_request">>, <<3, "nb_iot_cell_search_request">>>>)

unpack_cell_search_response ==
  U32(<<"error_code">>) \o Tlvs(<<>>)

unpack_lte_cell_search_indication_value ==
  U16(<<"number_of_lte_cells_found">>) \o
  When("number_of_lte_cells_found", "<=", 8,
       List("lte_found_cells", N("number_of_lte_cells_found"), NoMax,
            U16(<<"pci">>) \o U8(<<"rsrp", "rsrq">>) \o U16(<<"frequency_offset">>))) \o
  Unless("number_of_lte_cells_found", "<=", 8, Fail)

unpack_utran_cell_search_indication_value ==
  U16(<<"number_of_utran_cells_found">>) \o
  When("number_of_utran_cells_found", "<=", 8,
       List("utran_found_cells", N("number_of_utran_cells_found"), NoMax,
            U16(<<"psc">>) \o U8(<<"rscp", "ecno">>) \o U16(<<"frequency_offset">>))) \o
  Unless("number_of_utran_cells_found", "<=", 8, Fail)

unpack_geran_cell_search_indication_value ==
  U16(<<"number_of_gsm_cells_found">>) \o
  When("number_of_gsm_cells_found", "<=", 8,
       List("gsm_found_cells", N("number_of_gsm_cells_found"), NoMax,
            U16(<<"arfcn">>) \o U8(<<"bsic", "rxlev", "rxqual">>) \o
            U16(<<"frequency_offset">>) \o U32(<<"sfn_offset">>))) \o
  Unless("number_of_gsm_cells_found", "<=", 8, Fail)

unpack_nb_iot_cell_search_indication_value ==
  U16(<<"number_of_nb_iot_cells_found">>) \o
  When("number_of_nb_iot_cells_found", "<=", 8,
       List("nb_iot_found_cells", N("number_of_nb_iot_cells_found"), NoMax,
            U16(<<"pci">>) \o U8(<<"rsrp", "rsrq">>) \o U16(<<"frequency_offset">>))) \o
  Unless("number_of_nb_iot_cells_found", "<=", 8, Fail)

unpack_cell_search_indication ==
  U32(<<"error_code">>) \o
  Tlvs(<<<<\h3007, "lte_cell_search_indication", unpack_lte_cell_search_indication_value>>,
         <<\h3008, "utran_cell_search_indication", unpack_utran_cell_search_indication_value>>,
         <<\h3009, "geran_cell_search_indication", unpack_geran_cell_search_indication_value>>,
         <<\h300A, "pnf_cell_search_state", unpack_opaque_data_value>>,
         <<\h3022, "nb_iot_cell_search_indication",
           unpack_nb_iot_cell_search_indication_value>>>>)

unpack_lte_broadcast_detect_request_value ==
  U16(<<"earfcn", "pci">>) \o U32(<<"timeout">>)

unpack_utran_broadcast_detect_request_value ==
  U16(<<"uarfcn", "psc">>) \o U32(<<"timeout">>)

unpack_nb_iot_broadcast_detect_request_value ==
  U16(<<"earfcn">>) \o U8(<<"ro_dl">>) \o U16(<<"pci">>) \o U32(<<"timeout">>)

unpack_broadcast_detect_request ==
  U8(<<"rat_type">>) \o
  Tlvs(<<<<\h300B, "lte_broadcast_detect_request", unpack_lte_broadcast_detect_request_value>>,
         <<\h300C, "utran_broadcast_detect_request",
           unpack_utran_broadcast_detect_request_value>>,
         <<\h300A, "pnf_cell_search_state", unpack_opaque_data_value>>,
         <<\h3023, "nb_iot_broadcast_detect_request",
           unpack_nb_iot_broadcast_detect_request_value>>>>)

unpack_broadcast_detect_response ==
  U32(<<"error_code">>) \o Tlvs(<<>>)

unpack_lte_broadcast_detect_indication_value ==
  U8(<<"number_of_tx_antenna">>) \o U16(<<"mib_length">>) \o AtMost("mib_length", 32) \o
  Arr(1, "mib", N("mib_length"), 32) \o U32(<<"sfn_offset">>)

unpack_utran_broadcast_detect_indication_value ==
  U16(<<"mib_length">>) \o AtMost("mib_length", 32) \o Arr(1, "mib", N("mib_length"), 32) \o
  U32(<<"sfn_offset">>)

unpack_nb_iot_broadcast_detect_indication_value ==
  U8(<<"number_of_tx_antenna">>) \o U16(<<"mib_length">>) \o AtMost("mib_length", 32) \o
  Arr(1, "mib", N("mib_length"), 32) \o U32(<<"sfn_offset">>)

unpack_broadcast_detect_indication ==
  U32(<<"error_code">>) \o
  Tlvs(<<<<\h300E, "lte_broadcast_detect_indication",
           unpack_lte_broadcast_detect_indication_value>>,
         <<\h300F, "utran_broadcast_detect_indication",
           unpack_utran_broadcast_detect_indication_value>>,
         <<\h3024, "nb_iot_broadcast_detect_indication",
           unpack_nb_iot_broadcast_detect_indication_value>>,
         <<\h3010, "pnf_cell_broadcast_state", unpack_opaque_data_value>>>>)

unpack_lte_system_information_schedule_request_value ==
  U16(<<"earfcn", "pci", "downlink_channel_bandwidth">>) \o
  U8(<<"phich_configuration", "number_of_tx_antenna", "retry_count">>) \o U32(<<"timeout">>)

unpack_nb_iot_system_information_schedule_request_value ==
  U16(<<"earfcn">>) \o U8(<<"ro_dl">>) \o U16(<<"pci">>) \o U8(<<"scheduling_info_sib1_nb">>) \o
  U32(<<"timeout">>)

unpack_system_information_schedule_request ==
  U8(<<"rat_type">>) \o
  Tlvs(<<<<\h3011, "lte_system_information_schedule_request",
           unpack_lte_system_information_schedule_request_value>>,
         <<\h3025, "nb_iot_system_information_schedule_request",
           unpack_nb_iot_system_information_schedule_request_value>>,
         <<\h3010, "pnf_cell_broadcast_state", unpack_opaque_data_value>>>>)

unpack_system_information_schedule_response ==
  U32(<<"error_code">>) \o Tlvs(<<>>)

unpack_lte_system_information_indication_value ==
  U8(<<"sib_type">>) \o U16(<<"sib_length">>) \o AtMost("sib_length", 256) \o
  Arr(1, "sib", N("sib_length"), 256)

unpack_nb_iot_system_information_indication_value ==
  U8(<<"sib_type">>) \o U16(<<"sib_length">>) \o AtMost("sib_length", 256) \o
  Arr(1, "sib", N("sib_length"), 256)

unpack_system_information_schedule_indication ==
  U32(<<"error_code">>) \o
  Tlvs(<<<<\h3018, "lte_system_information_indication",
           unpack_lte_system_information_indication_value>>,
         <<\h3026, "nb_iot_system_information_indication",
           unpack_nb_iot_system_information_indication_value>>>>)

unpack_lte_system_information_request_value ==
  U16(<<"earfcn", "pci", "downlink_channel_bandwidth">>) \o
  U8(<<"phich_configuration", "number_of_tx_antenna", "number_of_si_periodicity">>) \o
  AtMost("number_of_si_periodicity", 8) \o
  List("si_periodicity", N("number_of_si_periodicity"), NoMax,
       U8(<<"si_periodicity", "si_index">>)) \o U8(<<"si_window_length">>) \o U32(<<"timeout">>)

unpack_utran_system_information_request_value ==
  U16(<<"uarfcn", "psc">>) \o U32(<<"timeout">>)

unpack_geran_system_information_request_value ==
  U16(<<"arfcn">>) \o U8(<<"bsic">>) \o U32(<<"timeout">>)

unpack_nb_iot_system_information_request_value ==
  U16(<<"earfcn">>) \o U8(<<"ro_dl">>) \o U16(<<"pci">>) \o U8(<<"number_of_si_periodicity">>) \o
  AtMost("number_of_si_periodicity", 8) \o
  List("si_periodicity", N("number_of_si_periodicity"), NoMax,
       U8(<<"si_periodicity", "si_repetition_pattern", "si_tb_size", "number_of_si_index">>) \o
       List("si_index", N("number_of_si_index"), NoMax, U8(<<"si_index">>))) \o
  U8(<<"si_window_length">>) \o U32(<<"timeout">>)

unpack_system_information_request ==
  U8(<<"rat_type">>) \o
  Tlvs(<<<<\h3014, "lte_system_information_request",
           unpack_lte_system_information_request_value>>,
         <<\h3015, "utran_system_information_request",
           unpack_utran_system_information_request_value>>,
         <<\h3016, "geran_system_information_request",
           unpack_geran_system_information_request_value>>,
         <<\h3027, "nb_iot_system_information_request",
           unpack_nb_iot_system_information_request_value>>,
         <<\h3010, "pnf_cell_broadcast_state", unpack_opaque_data_value>>>>) \o
  Requires("rat_type",
           <<<<0, "lte_system_information_request">>, <<1, "utran_system_information_request">>,
             <<2, "geran_system_information_request">>>>)

unpack_system_information_response ==
  U32(<<"error_code">>) \o Tlvs(<<>>)

unpack_utran_system_information_indication_value ==
  U16(<<"sib_length">>) \o AtMost("sib_length", 256) \o Arr(1, "sib", N("sib_length"), 256)

unpack_geran_system_information_indication_value ==
  U16(<<"si_length">>) \o AtMost("si_length", 256) \o Arr(1, "si", N("si_length"), 256)

unpack_system_information_indication ==
  U32(<<"error_code">>) \o
  Tlvs(<<<<\h3018, "lte_system_information_indication",
           unpack_lte_system_information_indication_value>>,
         <<\h3019, "utran_system_information_indication",
           unpack_utran_system_information_indication_value>>,
         <<\h301A, "geran_system_information_indication",
           unpack_geran_system_information_indication_value>>,
         <<\h3026, "nb_iot_system_information_indication",
           unpack_nb_iot_system_information_indication_value>>>>)

unpack_nmm_stop_request ==
  Tlvs(<<>>)

unpack_nmm_stop_response ==
  U32(<<"error_code">>) \o Tlvs(<<>>)

check_unpack_length ==
  {512, 513, 514, 515, 516, 517, 518, 519, 520, 521, 522, 523, 524, 525, 526, 527, 528}

nfapi_p4_header ==
  U16(<<"phy_id", "message_id">>) \o Lit(2, 0) \o U16(<<"spare">>)

nfapi_p4_message_pack ==
  Length(0,
         nfapi_p4_header \o
         Switch("message_id",
                <<<<512, pack_rssi_request>>, <<513, pack_rssi_response>>,
                  <<514, pack_rssi_indication>>,
                  <<515, pack_cell_search_request>>,
                  <<516, pack_cell_search_response>>,
                  <<517, pack_cell_search_indication>>,
                  <<518, pack_broadcast_detect_request>>,
                  <<519, pack_broadcast_detect_response>>,
                  <<520, pack_broadcast_detect_indication>>,
                  <<521, pack_system_information_schedule_request>>,
                  <<522, pack_system_information_schedule_response>>,
                  <<523, pack_system_information_schedule_indication>>,
                  <<524, pack_system_information_request>>,
                  <<525, pack_system_information_response>>,
                  <<526, pack_system_information_indication>>,
                  <<527, pack_nmm_stop_request>>,
                  <<528, pack_nmm_stop_response>>>> \o <<<<Default, Fail>>>>))

nfapi_p4_message_unpack ==
  U16(<<"phy_id", "message_id", "message_length", "spare">>) \o
  Switch("message_id",
         Checked(check_unpack_length,
                 <<<<512, unpack_rssi_request>>, <<513, unpack_rssi_response>>,
                   <<514, unpack_rssi_indication>>,
                   <<515, unpack_cell_search_request>>,
                   <<516, unpack_cell_search_response>>,
                   <<517, unpack_cell_search_indication>>,
                   <<518, unpack_broadcast_detect_request>>,
                   <<519, unpack_broadcast_detect_response>>,
                   <<520, unpack_broadcast_detect_indication>>,
                   <<521, unpack_system_information_schedule_request>>,
                   <<522, unpack_system_information_schedule_response>>,
                   <<523, unpack_system_information_schedule_indication>>,
                   <<524, unpack_system_information_request>>,
                   <<525, unpack_system_information_response>>,
                   <<526, unpack_system_information_indication>>,
                   <<527, unpack_nmm_stop_request>>,
                   <<528, unpack_nmm_stop_response>>>>))

==============================================================================
