----------------------------- MODULE DiskRegisters ---------------------------------
(***************************************************************************)
(* The registers of the two disk controllers, as the accessors of          *)
(* drivers/disk use them: nvme_registers.rs, sata_abar.rs and              *)
(* sata_structures.rs.  Some of the SATA and NVMe setters clear a number   *)
(* instead of a mask before they or the new value in; the clears entries   *)
(* below are what they clear.  NVMe doorbells stand at the stride 4.       *)
(***************************************************************************)
EXTENDS RegisterLayout

-----------------------------------------------------------------------------
(* NVMe.                                                                    *)

NVMeCap ==
    Reads([mqes |-> PartIn(0, 0, 16), dstrd |-> PartIn(1, 0, 4),
           css |-> PartIn(1, 5, 8)])

NVMeCC ==
    [Settable([en |-> Bit(0), css |-> Part(4, 3), mps |-> Part(7, 4),
               ams |-> Part(11, 3), shn |-> Part(14, 2),
               iosqes |-> Part(16, 4), iocqes |-> Part(20, 4)],
              {"en", "css", "iosqes", "iocqes"})
     EXCEPT !.clears.iosqes = Bit(18),
            !.clears.iocqes = Bit(22)]

NVMeCsts ==
    Reads([rdy |-> Bit(0), cfs |-> Bit(1), shst |-> Part(2, 2),
           nssro |-> Bit(4), pp |-> Bit(5)])

NVMeAqa ==
    Layout([asqs |-> Part(0, 12), acqs |-> Part(16, 12)])

NVMeBar ==
    Reads([cap |-> Bytes(0, 8), vs |-> Bytes(8, 4), intms |-> Bytes(12, 4),
           intmc |-> Bytes(16, 4), cc |-> Bytes(20, 4),
           csts |-> Bytes(28, 4), aqa |-> Bytes(36, 4),
           asq |-> Bytes(40, 8), acq |-> Bytes(48, 8),
           tdbl0 |-> Bytes(4096, 4), hdbl0 |-> Bytes(4100, 4),
           tdbl1 |-> Bytes(4104, 4)])

-----------------------------------------------------------------------------
(* SATA (AHCI).                                                             *)

SataPortInterruptStatus ==
    [AllRaise([device_to_host_register_fis_interrupt |-> Bit(0),
               pio_setup_fis_interrupt |-> Bit(1),
               dma_setup_fis_interrupt |-> Bit(2),
               __set_device_bits_interrupt |-> Bit(3),
               unkown_fis_interrupt |-> Bit(4),
               descriptor_processed |-> Bit(5),
               port_connect_change_status |-> Bit(6),
               device_mechanical_presence_status |-> Bit(7),
               phyrdy_change_status |-> Bit(22),
               incorrect_port_multiplier_status |-> Bit(23),
               overflow_status |-> Bit(24),
               interface_non_fatal_error_status |-> Bit(26),
               interface_fatal_error_status |-> Bit(27),
               host_bus_data_error_status |-> Bit(28),
               host_bus_fatal_error_status |-> Bit(29),
               task_file_error_status |-> Bit(30),
               cold_port_detect_status |-> Bit(31)])
     EXCEPT !.sets = @ \ {"unkown_fis_interrupt", "descriptor_processed",
                           "port_connect_change_status"}]

SataPortInterruptEnable ==
    OnlySets([device_to_host_register_fis_interrupt_enable |-> Bit(0),
              pio_setup_fis_interrupt_enable |-> Bit(1),
              dma_setup_fis_interrupt_enable |-> Bit(2),
              set_device_bits_fis_interrupt_enable |-> Bit(3),
              unknown_fis_interrupt_enable |-> Bit(4),
              descriptor_processed_interrupt_enable |-> Bit(5),
              port_change_interrupt_enable |-> Bit(7),
              phyrdy_change_interrupt_enable |-> Bit(22),
              incorrect_port_multiplier_enable |-> Bit(23),
              overflow_enable |-> Bit(24),
              interface_non_fatel_error_enable |-> Bit(26),
              interface_fatal_error_enable |-> Bit(27),
              host_bus_data_error_enable |-> Bit(28),
              host_bus_fatal_error_enable |-> Bit(29),
              task_file_error_enable |-> Bit(30),
              cold_presence_detect_enable |-> Bit(31)])

SataPortCommandAndStatus ==
    [Settable([start |-> Bit(0), spin_up_device |-> Bit(1),
               power_on_device |-> Bit(2), command_list_override |-> Bit(3),
               fis_receive_enable |-> Bit(4),
               current_command_slot |-> Part(8, 5),
               mechanical_presence_switch_state |-> Bit(13),
               fis_receive_running |-> Bit(14),
               command_list_running |-> Bit(15),
               cold_presence_state |-> Bit(16),
               port_multiplier_attached |-> Bit(17),
               hot_plug_capable_port |-> Bit(18),
               mechanical_presence_switch_attached_to_port |-> Bit(19),
               cold_presence_detection |-> Bit(20),
               external_sata_port |-> Bit(21),
               fis_based_switchting_capable_port |-> Bit(22),
               automatic_partial_to_slumber_transitions_enabled |-> Bit(23),
               device_is_atapi |-> Bit(24),
               drive_led_on_atapi_enable |-> Bit(25),
               aggressive_link_power_management_enable |-> Bit(26),
               aggressive_slumber_partial |-> Bit(27),
               interface_communication_control |-> Part(28, 4)],
              {"start", "spin_up_device", "power_on_device",
               "command_list_override", "fis_receive_enable",
               "port_multiplier_attached",
               "automatic_partial_to_slumber_transitions_enabled",
               "aggressive_link_power_management_enable",
               "aggressive_slumber_partial", "interface_communication_control"})
     EXCEPT !.ones = {"command_list_override"},
            !.clears.interface_communication_control = Bit(30)]

SataTaskFileData ==
    Reads([status |-> Part(0, 8), error |-> Part(8, 8)])

SerialAtaStatus ==
    Reads([device_detection |-> Part(0, 4),
           current_interface_speed |-> Part(4, 4),
           interface_power_management |-> Part(8, 4)])

SerialAtaControl ==
    [Settable([device_detection_initialization |-> Part(0, 4),
               speed_allowed |-> Part(4, 4),
               interface_power_management_transitions_allowed |-> Part(8, 4),
               select_power_management |-> Part(12, 4),
               port_multiplier_port |-> Part(16, 4)],
              {"device_detection_initialization", "speed_allowed",
               "interface_power_management_transitions_allowed"})
     EXCEPT !.clears.speed_allowed = Bit(6),
            !.clears.interface_power_management_transitions_allowed = Bit(10)]

SerialAtaErrorBits ==
    [error0 |-> Bit(0), error1 |-> Bit(1), error8 |-> Bit(8),
     error9 |-> Bit(9), error10 |-> Bit(10), error11 |-> Bit(11),
     diagnostics0 |-> Bit(16), diagnostics1 |-> Bit(17),
     diagnostics2 |-> Bit(18), diagnostics10 |-> Bit(26)]

SerialAtaError ==
    [AllRaise(SerialAtaErrorBits)
     EXCEPT !.ones = {}, !.zeros = DOMAIN SerialAtaErrorBits,
            !.bulk = {Bulk("clear_all", {}, Part(0, 32))}]

SataFisBasedSwitching ==
    [Settable([enable |-> Bit(0), device_error_clear |-> Bit(1),
               single_device_error |-> Bit(2),
               device_to_issue |-> Part(8, 4),
               active_device_optimization |-> Part(12, 4),
               device_with_error |-> Part(16, 4)],
              {"enable", "device_error_clear", "device_to_issue"})
     EXCEPT !.clears.device_to_issue = Bit(10)]

DeviceSleep ==
    [Settable([aggressive_device_sleep_enable |-> Bit(0),
               device_sleep_present |-> Bit(1),
               device_sleep_exit_timeout |-> Part(2, 8),
               minimum_device_sleep_assertion_time |-> Part(10, 5),
               device_sleep_idle_timeout |-> Part(15, 11),
               dito_multiplier |-> Part(25, 4)],
              {"aggressive_device_sleep_enable", "device_sleep_exit_timeout",
               "minimum_device_sleep_assertion_time",
               "device_sleep_idle_timeout"})
     EXCEPT !.clears.device_sleep_exit_timeout = Bit(5),
            !.clears.minimum_device_sleep_assertion_time = Bit(10) \cup Bit(12),
            !.clears.device_sleep_idle_timeout = Part(15, 2) \cup Bit(18)]

SataPort ==
    Reads([clb |-> Bytes(0, 4), clbu |-> Bytes(4, 4), fb |-> Bytes(8, 4),
           fbu |-> Bytes(12, 4), is |-> Bytes(16, 4), ie |-> Bytes(20, 4),
           cmd |-> Bytes(24, 4), tfd |-> Bytes(32, 4),
           signature |-> Bytes(36, 4), ssts |-> Bytes(40, 4),
           sctl |-> Bytes(44, 4), serr |-> Bytes(48, 4),
           serial_ata_active |-> Bytes(52, 4),
           command_issue |-> Bytes(56, 4),
           serial_ata_notification |-> Bytes(60, 4), fbs |-> Bytes(64, 4),
           devslp |-> Bytes(68, 4)])

SataHBACapabilities ==
    Reads([number_of_ports |-> Part(0, 5),
           supports_external_sata |-> Bit(5),
           enclsoure_management_supported |-> Bit(6),
           command_completion_coalescing_supported |-> Bit(7),
           number_of_command_slots |-> Part(8, 5),
           partial_state_capable |-> Bit(13),
           slumber_state_capable |-> Bit(14),
           pio_multiple_drq_block |-> Bit(15),
           fis_based_switching_supported |-> Bit(16),
           supports_port_multiplier |-> Bit(17),
           supports_ahci_mode_only |-> Bit(18),
           interface_speed_support |-> Part(20, 4),
           supports_command_list_override |-> Bit(24),
           supports_activity_led |-> Bit(25),
           supports_aggressive_link_power_management |-> Bit(26),
           supports_staggered_spin_up |-> Bit(27),
           supports_mechanical_presence_switch |-> Bit(28),
           supports_snotification_register |-> Bit(29),
           supports_nmative_command_queuing |-> Bit(30),
           supports_64bit_addressing |-> Bit(31)])

SataGlobalHBAControl ==
    Settable([hba_reset |-> Bit(0), interrupt_enable |-> Bit(1),
              msi_revert_to_single_message |-> Bit(2),
              ahci_enable |-> Bit(31)],
             {"hba_reset", "interrupt_enable", "ahci_enable"})

SataCoalescing ==
    Settable([enable |-> Bit(0), interrupt |-> Part(3, 5),
              command_completions |-> Part(8, 8),
              timeout_value |-> Part(16, 16)],
      {"enable", "command_completions", "timeout_value"})

SataEnclosureLocation ==
    Reads([buffer_size |-> Part(0, 16), offset |-> Part(16, 16)])

SataEnclosure ==
    [Settable([message_received |-> Bit(0), transmite_message |-> Bit(8),
               reset |-> Bit(9), led_message_types |-> Bit(16),
               saf_te_enclosure_management_messages |-> Bit(17),
               ses_2_enclosure_management_messages |-> Bit(18),
               sgpio_enclosure_managment_messages |-> Bit(19),
               single_messsage_buffer |-> Bit(24), transmit_only |-> Bit(25),
               activity_led_hardware_driven |-> Bit(26),
               port_multiplier_support |-> Bit(27)],
              {"message_received", "transmite_message", "reset"})
     EXCEPT !.ones = {"message_received"},
            !.events = {"message_received"},
            !.reads.led_message_types = {}]

SataCapabilitiesExtended ==
    Reads([bios_os_handoff |-> Bit(0), nvmhci_present |-> Bit(1),
           automatic_partial_to_slumber_transitions |-> Bit(2),
           supports_device_sleep |-> Bit(3),
           supports_aggressive_device_sleep_management |-> Bit(5)])

SataHandoff ==
    [Raises([bios_owned_semaphore |-> Bit(0), os_owned_semaphore |-> Bit(1),
             smi_on_os_ownership_change_enable |-> Bit(2),
             os_ownership_change |-> Bit(3), bios_busy |-> Bit(4)],
       {"os_ownership_change"})
     EXCEPT !.sets = {"os_owned_semaphore", "os_ownership_change",
                      "smi_on_os_ownership_change_enable"},
            !.ones = {"os_ownership_change"}]

Abar ==
    Reads([cap |-> Bytes(0, 4), ghc |-> Bytes(4, 4), is |-> Bytes(8, 4),
           pi |-> Bytes(12, 4), vs |-> Bytes(16, 4),
           ccc_ctl |-> Bytes(20, 4), ccc_ports |-> Bytes(24, 4),
           em_loc |-> Bytes(28, 4), em_ctl |-> Bytes(32, 4),
           cap2 |-> Bytes(36, 4), bohc |-> Bytes(36, 4),
           port0 |-> Bytes(256, 128), port1 |-> Bytes(384, 128)])

SataCommandHeader ==
    [Settable([command_fis_length |-> PartIn(0, 0, 5), atapi |-> BitIn(0, 5),
               write |-> BitIn(0, 6), prefetchable |-> BitIn(0, 7),
               reset |-> BitIn(0, 8), bist |-> BitIn(0, 9),
               busy_upon_r_ok |-> BitIn(0, 10),
               port_multiplier_port |-> PartIn(0, 12, 4),
               table_length |-> PartIn(0, 16, 16),
               byte_count |-> PartIn(1, 0, 32),
               table_base |-> PartIn(2, 7, 25),
               table_base_upper |-> PartIn(3, 0, 32)],
              {"command_fis_length", "atapi", "write", "prefetchable", "reset",
               "bist", "busy_upon_r_ok", "port_multiplier_port", "table_length",
               "table_base", "table_base_upper"})
     EXCEPT !.clears.table_base = PartIn(2, 0, 32),
            !.bulk = {ZeroOut}]

SataPRDTEntry ==
    [Layout([data_base |-> PartIn(0, 1, 31),
             data_base_upper |-> PartIn(1, 0, 32),
             data_byte_count |-> PartIn(3, 0, 22),
             interrupt_on_completion |-> BitIn(3, 31)])
     EXCEPT !.clears.data_base = PartIn(0, 0, 32),
            !.bulk = {ZeroOut}]

DiskTables ==
    {"NVMeCap", "NVMeCC", "NVMeCsts", "NVMeAqa", "NVMeBar",
     "SataPortInterruptStatus", "SataPortInterruptEnable",
     "SataPortCommandAndStatus", "SataTaskFileData", "SerialAtaStatus",
     "SerialAtaControl", "SerialAtaError", "SataFisBasedSwitching",
     "DeviceSleep", "SataPort", "SataHBACapabilities",
     "SataGlobalHBAControl", "SataCoalescing", "SataEnclosureLocation",
     "SataEnclosure", "SataCapabilitiesExtended", "SataHandoff", "Abar",
     "SataCommandHeader", "SataPRDTEntry"}

DiskTable(r) ==
    CASE r = "NVMeCap" -> NVMeCap
      [] r = "NVMeCC" -> NVMeCC
      [] r = "NVMeCsts" -> NVMeCsts
      [] r = "NVMeAqa" -> NVMeAqa
      [] r = "NVMeBar" -> NVMeBar
      [] r = "SataPortInterruptStatus" -> SataPortInterruptStatus
      [] r = "SataPortInterruptEnable" -> SataPortInterruptEnable
      [] r = "SataPortCommandAndStatus" -> SataPortCommandAndStatus
      [] r = "SataTaskFileData" -> SataTaskFileData
      [] r = "SerialAtaStatus" -> SerialAtaStatus
      [] r = "SerialAtaControl" -> SerialAtaControl
      [] r = "SerialAtaError" -> SerialAtaError
      [] r = "SataFisBasedSwitching" -> SataFisBasedSwitching
      [] r = "DeviceSleep" -> DeviceSleep
      [] r = "SataPort" -> SataPort
      [] r = "SataHBACapabilities" -> SataHBACapabilities
      [] r = "SataGlobalHBAControl" -> SataGlobalHBAControl
      [] r = "SataCoalescing" -> SataCoalescing
      [] r = "SataEnclosureLocation" -> SataEnclosureLocation
      [] r = "SataEnclosure" -> SataEnclosure
      [] r = "SataCapabilitiesExtended" -> SataCapabilitiesExtended
      [] r = "SataHandoff" -> SataHandoff
      [] r = "Abar" -> Abar
      [] r = "SataCommandHeader" -> SataCommandHeader
      [] r = "SataPRDTEntry" -> SataPRDTEntry
=============================================================================
