----------------------------- MODULE UsbRegisters ----------------------------------
(***************************************************************************)
(* The registers and the in-memory descriptors of the four USB host        *)
(* controllers, as the accessors of drivers/usb use them: uhci and         *)
(* ohci/data_structures.rs, ohci/structures, ehci/registers.rs and         *)
(* data_structures.rs, xhci/registers.rs and structures.  A field is named *)
(* after its enum member or its accessor.  An argument is taken to fit its *)
(* field (some setters shift it in without a mask), a pointer to be        *)
(* aligned; of an array of equal registers one or two stand for all.  The  *)
(* EHCI capability length is 0x20.                                         *)
(***************************************************************************)
EXTENDS RegisterLayout

-----------------------------------------------------------------------------
(* UHCI.                                                                    *)

UhciUsbCmd ==
    Layout([Rs |-> Bit(0), HcReset |-> Bit(1), GReset |-> Bit(2),
            Egsm |-> Bit(3), Fgr |-> Bit(4), SwDbg |-> Bit(5),
            Cf |-> Bit(6), MaxP |-> Bit(7)])

UhciUsbSts ==
    Raises([UsbInt |-> Bit(0), UsbErrorInterrupt |-> Bit(1),
            ResumeDetect |-> Bit(2), HostSystemError |-> Bit(3),
            HostControllerProcessError |-> Bit(4), HcHalted |-> Bit(5)],
      {"UsbInt", "UsbErrorInterrupt", "ResumeDetect", "HostSystemError",
       "HostControllerProcessError"})

UhciInterruptEnable ==
    Layout([Timeout |-> Bit(0), Resume |-> Bit(1),
            InterruptOnCompletion |-> Bit(2), ShortPacket |-> Bit(3)])

UhciUsbPortStatusControl ==
    [Raises([CurrentConnectStatus |-> Bit(0), ConnectStatusChange |-> Bit(1),
             PortEnabledDisabled |-> Bit(2),
             PortEnabledDisabledChange |-> Bit(3), ResumeDetect |-> Bit(6),
             LowSpeedDeviceAttached |-> Bit(8), PortReset |-> Bit(9),
             Suspend |-> Bit(12), LineStatus |-> Part(4, 2), reserved_1 |-> Bit(7)],
       {"ConnectStatusChange", "PortEnabledDisabledChange"})
     EXCEPT !.sets = @ \ {"reserved_1"}]

UhciBar ==
    Reads([usbcmd |-> Bytes(0, 2), usbsts |-> Bytes(2, 2),
           usbinterruptenable |-> Bytes(4, 2), frame_number |-> Bytes(6, 2),
           frame_list_base_address |-> Bytes(8, 4), sofmod |-> Bytes(12, 1),
           port1 |-> Bytes(16, 2), port2 |-> Bytes(18, 2)])

UhciTransferDescriptor ==
    [Layout([T |-> BitIn(0, 0), Q |-> BitIn(0, 1), Vf |-> BitIn(0, 2),
             Ioc |-> BitIn(1, 24), Ios |-> BitIn(1, 25), Ls |-> BitIn(1, 26),
             Spd |-> BitIn(1, 29), D |-> BitIn(2, 19),
             ActLen |-> PartIn(1, 0, 11), Status |-> PartIn(1, 16, 8),
             CErr |-> PartIn(1, 27, 2), Pid |-> PartIn(2, 0, 8),
             DeviceAddress |-> PartIn(2, 8, 7), EndPt |-> PartIn(2, 15, 4),
             MaxLen |-> PartIn(2, 21, 11), link_pointer |-> PartIn(0, 4, 28),
             buffer_pointer |-> PartIn(3, 0, 32)])
     EXCEPT !.bulk = {ZeroOut}]

UhciQueueHead ==
    [Layout([head_t |-> BitIn(0, 0), head_q |-> BitIn(0, 1),
             head_pointer |-> PartIn(0, 4, 28), element_t |-> BitIn(1, 0),
             element_q |-> BitIn(1, 1), element_r |-> BitIn(1, 2),
             element_pointer |-> PartIn(1, 4, 28)])
     EXCEPT !.reads.element_q = {},
            !.reads.element_r = {},
            !.bulk = {ZeroOut} \cup
                {Bulk("terminate", {<<0, 0>>, <<1, 0>>}, ends) :
                    ends \in SUBSET {<<0, 0>>, <<1, 0>>}}]

-----------------------------------------------------------------------------
(* OHCI.  Most of its setters only set.                                     *)

OhciControl ==
    [Layout([Ple |-> Bit(2), Ie |-> Bit(3), Cle |-> Bit(4), Ble |-> Bit(5),
             Ir |-> Bit(8), Rwc |-> Bit(9), Rwe |-> Bit(10),
             Cbsr |-> Part(0, 2), Hcfs |-> Part(6, 2)])
     EXCEPT !.bulk = {Bulk("disable_all_processing", Part(2, 4), {}),
                      Bulk("enable_all_processing", {},
                           Part(0, 32) \ Part(2, 4)),
                      Bulk("set_all_queues_on", {}, Part(2, 4))}]

OhciCommandStatus ==
    OnlySets([Hcr |-> Bit(0), Clf |-> Bit(1), Blf |-> Bit(2),
              Ocr |-> Bit(3), Soc |-> Part(16, 2)])

OhciInterruptStatus ==
    RaisesOnlySets([So |-> Bit(0), Wdh |-> Bit(1), Sf |-> Bit(2),
                     Rd |-> Bit(3), Ue |-> Bit(4), Fno |-> Bit(5),
                     Rhsc |-> Bit(6), Oc |-> Bit(30), Mie |-> Bit(31)],
      {"So", "Wdh", "Sf", "Rd", "Ue", "Fno", "Rhsc", "Oc"})

OhciInterruptEnable ==
    [OnlySets([So |-> Bit(0), Wdh |-> Bit(1), Sf |-> Bit(2), Rd |-> Bit(3),
               Ue |-> Bit(4), Fno |-> Bit(5), Rhsc |-> Bit(6),
               Oc |-> Bit(30), Mie |-> Bit(31)])
     EXCEPT !.bulk = {Bulk("enable_all_except_sf", Bit(2),
                           Part(0, 2) \cup Part(3, 4) \cup Bit(30))}]

OhciInterruptDisable ==
    RaisesOnlySets(OhciInterruptEnable.fields, DOMAIN OhciInterruptEnable.fields)

OhciFmInterval ==
    OnlySets([Fit |-> Bit(31), Fi |-> Part(0, 14), Fsmps |-> Part(16, 15)])

OhciFmRemaining ==
    OnlySets([Frt |-> Bit(31), Fr |-> Part(0, 14)])

OhciRhDescriptorA ==
    OnlySets([Psm |-> Bit(8), Nps |-> Bit(9), Dt |-> Bit(10),
            Ocpm |-> Bit(11), Nocp |-> Bit(12), Ndp |-> Part(0, 8),
            Potpgt |-> Part(24, 8)])

OhciRhDescriptorB ==
    Layout([Dr |-> Part(0, 16), Ppcm |-> Part(16, 16)])

OhciRhStatus ==
    RaisesOnlySets([Lps |-> Bit(0), Oci |-> Bit(1), Drwe |-> Bit(15),
                    Lpsc |-> Bit(16), Ocic |-> Bit(17), Crwe |-> Bit(31)], {"Ocic"})

OhciRhPortStatus ==
    RaisesOnlySets([Ccs |-> Bit(0), Pes |-> Bit(1), Pss |-> Bit(2),
                    Poci |-> Bit(3), Prs |-> Bit(4), Pps |-> Bit(8),
                    Lsda |-> Bit(9), Csc |-> Bit(16), Pesc |-> Bit(17),
                    Pssc |-> Bit(18), Ocic |-> Bit(19), Prsc |-> Bit(20)],
      {"Csc", "Pesc", "Pssc", "Ocic", "Prsc"})

OhciBar ==
    Reads([hc_revision |-> Bytes(0, 4), hc_control |-> Bytes(4, 4),
           hc_command_status |-> Bytes(8, 4),
           hc_interrupt_status |-> Bytes(12, 4),
           hc_interrupt_enable |-> Bytes(16, 4),
           hc_interrupt_disable |-> Bytes(20, 4), hc_hcca |-> Bytes(24, 4),
           hc_period_current_ed |-> Bytes(28, 4),
           hc_control_head_ed |-> Bytes(32, 4),
           hc_control_current_ed |-> Bytes(36, 4),
           hc_bulk_head_ed |-> Bytes(40, 4),
           hc_bulk_current_ed |-> Bytes(44, 4),
           hc_done_head |-> Bytes(48, 4), hc_fm_interval |-> Bytes(52, 4),
           hc_fm_remaining |-> Bytes(56, 4), hc_fm_number |-> Bytes(60, 4),
           hc_periodic_start |-> Bytes(64, 4),
           hc_ls_threshold |-> Bytes(68, 4),
           hc_rh_descriptor_a |-> Bytes(72, 4),
           hc_rh_descriptor_b |-> Bytes(76, 4),
           hc_rh_status |-> Bytes(80, 4), hc_rh_port_status |-> Bytes(84, 4)])

OhciHcca ==
    Reads([interrupt_list |-> Bytes(0, 128), frame_number |-> Bytes(128, 2),
           pad1 |-> Bytes(130, 2), done_head |-> Bytes(132, 4)])

OhciEndpointDescriptor ==
    [Layout([Fa |-> PartIn(0, 0, 7), En |-> PartIn(0, 7, 4),
             D |-> PartIn(0, 11, 2), Mps |-> PartIn(0, 16, 11),
             S |-> BitIn(0, 13), K |-> BitIn(0, 14), F |-> BitIn(0, 15),
             Con |-> BitIn(0, 27), Dum |-> BitIn(0, 28), H |-> BitIn(2, 0),
             C |-> BitIn(2, 1), tail_p |-> PartIn(1, 0, 32),
             head_p |-> PartIn(2, 4, 28), next_ed |-> PartIn(3, 0, 32)])
     EXCEPT !.clears.head_p = PartIn(2, 2, 30),
            !.bulk = {ZeroOut}]

GeneralTD ==
    [Layout([Dp |-> PartIn(0, 19, 2), Di |-> PartIn(0, 21, 3),
             T |-> PartIn(0, 24, 2), Ec |-> PartIn(0, 26, 2),
             Cc |-> PartIn(0, 28, 4), R |-> BitIn(0, 18),
             cbp |-> PartIn(1, 0, 32), next_td |-> PartIn(2, 4, 28),
             buffer_end |-> PartIn(3, 0, 32)])
     EXCEPT !.clears.next_td = PartIn(2, 0, 32),
            !.bulk = {ZeroOut}]

IsochTD ==
    [Layout([Sf |-> PartIn(0, 0, 16), Di |-> PartIn(0, 21, 3),
             Fc |-> PartIn(0, 24, 3), Cc |-> PartIn(0, 28, 4),
             bp0 |-> PartIn(1, 12, 20), next_td |-> PartIn(2, 4, 28),
             be |-> PartIn(3, 0, 32), psw0 |-> PartIn(4, 0, 16),
             psw1 |-> PartIn(4, 16, 16), psw7 |-> PartIn(7, 16, 16)])
     EXCEPT !.clears.next_td = PartIn(2, 0, 32),
            !.bulk = {ZeroOut}]

-----------------------------------------------------------------------------
(* EHCI.                                                                    *)

HcsParams ==
    Reads([NPorts |-> Part(0, 4), Npcc |-> Part(8, 4), Ncc |-> Part(12, 4),
           DebugPortNumber |-> Part(20, 4), PortPowerControl |-> Bit(4),
           PortRoutingRules |-> Bit(7), PortIndicators |-> Bit(16)])

HccParams ==
    Reads([IsochronousSchedulingThreshold |-> Part(4, 4),
           Eecp |-> Part(8, 8), QwordBitAddressingCapability |-> Bit(0),
           ProgrammableFrameListFlag |-> Bit(1),
           AsynchronousScheduleParkCapability |-> Bit(2)])

EhciUsbCmd ==
    Layout([FrameListSize |-> Part(2, 2),
            AsynchronousScheduleParkModeCount |-> Part(8, 2),
            InterruptThresholdControl |-> Part(16, 8), Rs |-> Bit(0),
            HcReset |-> Bit(1), PeriodicScheduleEnable |-> Bit(4),
            AsynchronousScheduleEnable |-> Bit(5),
            InterruptOnAsyncAdvanceDoorbell |-> Bit(6),
            LightHostControllerReset |-> Bit(7),
            AsynchronousScheduleParkModeEnable |-> Bit(11)])

EhciUsbSts ==
    RaisesOnlySets([UsbInt |-> Bit(0), UsbErrInt |-> Bit(1),
                    PortChangeDetected |-> Bit(2),
                    FrameListRollOver |-> Bit(3),
                    HostSystemError |-> Bit(4),
                    InterruptOnAsyncAdvance |-> Bit(5),
                    HcHalted |-> Bit(12), Reclamation |-> Bit(13),
                    PeriodicScheduleStatus |-> Bit(14),
                    AsynchronousScheduleStatus |-> Bit(15)],
      {"UsbInt", "UsbErrInt", "PortChangeDetected", "FrameListRollOver",
       "HostSystemError", "InterruptOnAsyncAdvance"})

EhciUsbIntr ==
    OnlySets([UsbInterruptEnable |-> Bit(0),
              UsbErrorInterruptEnable |-> Bit(1),
              PortChangeInterruptEnable |-> Bit(2),
              FrameListRolloverEnable |-> Bit(3),
              HostSystemErrorEnable |-> Bit(4),
              InterruptOnAsyncAdvanceEnable |-> Bit(5)])

EhciPointers ==
    [Layout([frame_index |-> PartIn(0, 3, 11),
             periodic_base |-> PartIn(1, 0, 32),
             async_address |-> PartIn(2, 0, 32), cf |-> BitIn(3, 0)])
     EXCEPT !.clears.frame_index = PartIn(0, 0, 32),
            !.clears.cf = PartIn(3, 0, 32)]

EhciPortSc ==
    Raises([LineStatus |-> Part(10, 2),
            PortIndicatorControl |-> Part(14, 2),
            PortTestControl |-> Part(16, 4),
            CurrentConnectStatus |-> Bit(0), ConnectStatusChange |-> Bit(1),
            PortEnabledDisabled |-> Bit(2),
            PortEnabledDisabledChanged |-> Bit(3),
            OverCurrentActive |-> Bit(4), OverCurrentChange |-> Bit(5),
            ForcePortResume |-> Bit(6), Suspend |-> Bit(7),
            PortReset |-> Bit(8), PortPower |-> Bit(12),
            PortOwner |-> Bit(13), WakeOnConnectEnable |-> Bit(20),
            WakeOnDisconnectEnable |-> Bit(21),
            WakeOnOverCurrentEnable |-> Bit(22)],
      {"ConnectStatusChange", "PortEnabledDisabledChanged", "OverCurrentChange"})

EhciUsbBase ==
    Reads([caplength |-> Bytes(0, 1), hciversion |-> Bytes(2, 2),
           hcsparams |-> Bytes(4, 4), hccparams |-> Bytes(8, 4),
           hcsp_portroute |-> Bytes(12, 8), usbcmd |-> Bytes(32, 4),
           usbsts |-> Bytes(36, 4), usbintr |-> Bytes(40, 4),
           frindex |-> Bytes(44, 4), ctrldssegment |-> Bytes(48, 4),
           periodiclistbase |-> Bytes(52, 4),
           asynclistaddr |-> Bytes(56, 4), configflag |-> Bytes(96, 4),
           portsc0 |-> Bytes(100, 4), portsc1 |-> Bytes(104, 4)])

QueueHead ==
    [Layout([Type |-> PartIn(0, 1, 2), DeviceAddress |-> PartIn(1, 0, 6),
             Endpt |-> PartIn(1, 8, 4), Eps |-> PartIn(1, 12, 2),
             MaximumPacketLength |-> PartIn(1, 16, 11),
             Nak |-> PartIn(1, 28, 4), MikroFrameSMask |-> PartIn(2, 0, 8),
             MikroFrameCMask |-> PartIn(2, 8, 8),
             HubAddr |-> PartIn(2, 16, 7), PortNumber |-> PartIn(2, 23, 7),
             Mult |-> PartIn(2, 30, 2), Status |-> PartIn(6, 0, 8),
             PidCode |-> PartIn(6, 8, 2), ErrorCounter |-> PartIn(6, 10, 2),
             CurrentPage |-> PartIn(6, 12, 3),
             TotalBytesToTransfer |-> PartIn(6, 16, 19), T |-> BitIn(0, 0),
             I |-> BitIn(1, 7), Dtc |-> BitIn(1, 14), H |-> BitIn(1, 15),
             C |-> BitIn(1, 27), Ioc |-> BitIn(6, 15), Dt |-> BitIn(6, 31)])
     EXCEPT !.bulk = {Bulk("reset", AllBits, {<<0, 0>>, <<4, 0>>, <<5, 0>>}),
                      Bulk("set_status_bit", {}, BitIn(6, 7)),
                      Bulk("clear_status_bit", BitIn(6, 7), {})}]

QueueHeadBuffer ==
    Reads([alternate_terminate |-> BitIn(5, 0), nak_counter |-> PartIn(5, 1, 4),
           current_offset |-> PartIn(7, 0, 13),
           buffer_pointer0 |-> PartIn(7, 12, 20),
           c_prog_mask |-> PartIn(8, 0, 8),
           buffer_pointer1 |-> PartIn(8, 12, 20),
           frame_tag |-> PartIn(9, 0, 5), s_bytes |-> PartIn(9, 5, 7),
           buffer_pointer2 |-> PartIn(9, 12, 20)])

QueueHeadNext ==
    Settable([horizontal_link_pointer |-> PartIn(0, 5, 27),
              current_qtd_pointer |-> PartIn(3, 5, 27),
              next_terminate |-> BitIn(4, 0),
              next_qtd_pointer |-> PartIn(4, 5, 27)],
             {"horizontal_link_pointer", "next_terminate", "next_qtd_pointer"})

qTDPointer ==
    Layout([terminate |-> Bit(0), transfer_element_pointer |-> Part(5, 27)])

IsochronousBuffer ==
    Layout([device_address |-> PartIn(0, 0, 7),
            endpoint_number |-> PartIn(0, 8, 4),
            buffer_pointer0 |-> PartIn(0, 12, 20),
            maximum_packet_size |-> PartIn(1, 0, 11),
            direction |-> BitIn(1, 11),
            buffer_pointer1 |-> PartIn(1, 12, 20),
            mult |-> PartIn(2, 0, 2),
            buffer_pointer2 |-> PartIn(2, 12, 20)])

IsochronousTransaction ==
    [Layout([transaction_offset |-> PartIn(0, 0, 12),
             page_select |-> PartIn(0, 12, 2),
             interrupt_on_complete |-> BitIn(0, 15),
             transaction_length |-> PartIn(0, 16, 12),
             status |-> PartIn(0, 28, 4)])
     EXCEPT !.sets = @ \ {"status"},
            !.bulk = {ZeroOut, Bulk("clear_status", Part(28, 4), {}),
                      Bulk("set_status", Part(28, 4), Bit(31))}]

IsochronousWords ==
    [Reads([next_link |-> PartIn(0, 0, 32),
            transaction0 |-> PartIn(1, 0, 32),
            transaction1 |-> PartIn(2, 0, 32),
            transaction2 |-> PartIn(3, 0, 32),
            transaction3 |-> PartIn(4, 0, 32),
            transaction4 |-> PartIn(5, 0, 32),
            transaction5 |-> PartIn(6, 0, 32),
            transaction6 |-> PartIn(7, 0, 32),
            transaction7 |-> PartIn(8, 0, 32),
            buffer_pointer0 |-> PartIn(6, 0, 32),
            buffer_pointer1 |-> PartIn(7, 0, 32),
            buffer_pointer2 |-> PartIn(8, 0, 32),
            buffer_pointer3 |-> PartIn(9, 0, 32),
            buffer_pointer4 |-> PartIn(10, 0, 32),
            buffer_pointer5 |-> PartIn(11, 0, 32),
            buffer_pointer6 |-> PartIn(12, 0, 32)])
     EXCEPT !.bulk = {ZeroOut}]

SplitTransaction ==
    [Reads([terminate |-> BitIn(0, 0), type |-> PartIn(0, 1, 2),
            next_link_pointer |-> PartIn(0, 5, 27),
            device_address |-> PartIn(1, 0, 7),
            endpoint_number |-> PartIn(1, 8, 4),
            hub_address |-> PartIn(1, 16, 7),
            port_number |-> PartIn(1, 24, 7), direction |-> BitIn(1, 31),
            frame_s_mask |-> PartIn(2, 0, 8),
            frame_c_mask |-> PartIn(2, 8, 8), status |-> PartIn(3, 0, 8),
            frame_c_prog_mask |-> PartIn(3, 8, 8),
            total_bytes_to_transfer |-> PartIn(3, 16, 10),
            page_select |-> BitIn(3, 30),
            interrupt_on_complete |-> BitIn(3, 31),
            current_offset |-> PartIn(4, 0, 12),
            buffer_pointer0 |-> PartIn(4, 12, 20),
            transaction_count |-> PartIn(5, 0, 3),
            transaction_position |-> PartIn(5, 3, 2),
            buffer_pointer1 |-> PartIn(5, 12, 20),
            back_terminate |-> BitIn(6, 0), back_pointer |-> PartIn(6, 5, 27)])
     EXCEPT !.bulk = {ZeroOut}]

QueueElement ==
    [Settable([next_terminate |-> BitIn(0, 0),
               next_pointer |-> PartIn(0, 5, 27),
               alternate_terminate |-> BitIn(1, 0),
               alternate_pointer |-> PartIn(1, 5, 27),
               status |-> PartIn(2, 0, 8), pid_code |-> PartIn(2, 8, 2),
               c_page |-> PartIn(2, 8, 3),
               error_counter |-> PartIn(2, 10, 2),
               current_page |-> PartIn(2, 12, 3),
               interrupt_on_complete |-> BitIn(2, 15),
               total_bytes_to_transfer |-> PartIn(2, 16, 15),
               data_toggle |-> BitIn(2, 31)],
              {"next_terminate", "next_pointer", "alternate_terminate",
               "alternate_pointer", "pid_code", "c_page",
               "interrupt_on_complete", "total_bytes_to_transfer",
               "data_toggle"})
     EXCEPT !.bulk = {Bulk("reset", AllBits, {<<0, 0>>, <<1, 0>>, <<2, 10>>, <<2, 11>>}),
                      Bulk("set_status_bit", {}, BitIn(2, 7)),
                      Bulk("clear_status_bit", BitIn(2, 7), {})}]

QueueElementBuffers ==
    Layout([current_offset |-> PartIn(3, 0, 12),
            buffer_pointer0 |-> PartIn(3, 12, 20),
            buffer_pointer1 |-> PartIn(4, 12, 20),
            buffer_pointer2 |-> PartIn(5, 12, 20),
            buffer_pointer3 |-> PartIn(6, 12, 20),
            buffer_pointer4 |-> PartIn(7, 12, 20)])

PathLinks ==
    Layout([normal_terminate |-> BitIn(0, 0),
            normal_type |-> PartIn(0, 1, 2),
            normal_pointer |-> PartIn(0, 5, 27),
            back_terminate |-> BitIn(1, 0), back_type |-> PartIn(1, 1, 2),
            back_pointer |-> PartIn(1, 5, 27)])

-----------------------------------------------------------------------------
(* xHCI.                                                                    *)

XhciHcsParams1 ==
    Reads([MaxSlots |-> Part(0, 8), MaxIntrs |-> Part(8, 11),
           MaxPorts |-> Part(24, 8)])

XhciHcsParams2 ==
    Reads([Ist |-> Part(0, 4), ErstMax |-> Part(4, 4),
           max_scratchpad_hi |-> PartIn(0, 21, 5), spr |-> BitIn(0, 26),
           max_scratchpad_lo |-> PartIn(0, 27, 5)])

XhciHcsParams3 ==
    Reads([U1DeviceExitLatency |-> Part(0, 8),
           U2DeviceExitLatency |-> Part(16, 16)])

XhciHccParams1 ==
    Reads([MaxPSASize |-> Part(12, 4), XEcp |-> Part(16, 16),
           Ac64 |-> Bit(0), Bnc |-> Bit(1), Csz |-> Bit(2), Ppc |-> Bit(3),
           Pind |-> Bit(4), Lhrc |-> Bit(5), Ltc |-> Bit(6), Nss |-> Bit(7),
           Pae |-> Bit(8), Spc |-> Bit(9), Sec |-> Bit(10), Cfc |-> Bit(11)])

XhciHccParams2 ==
    Reads([U3c |-> Bit(0), Cmc |-> Bit(1), Fsc |-> Bit(2), Ctc |-> Bit(3),
           Lec |-> Bit(4), Cic |-> Bit(5), Etc |-> Bit(6), Tsc |-> Bit(7),
           Gsc |-> Bit(8), Vtc |-> Bit(9)])

XhciUsbCmd ==
    Layout([Rs |-> Bit(0), HcRst |-> Bit(1), Inte |-> Bit(2),
            Hsee |-> Bit(3), LhcRst |-> Bit(7), Css |-> Bit(8),
            Crs |-> Bit(9), Ewe |-> Bit(10), Eu3s |-> Bit(11),
            Cme |-> Bit(13), Ete |-> Bit(14), TscEn |-> Bit(15),
            VtioEn |-> Bit(16)])

XhciUsbSts ==
    Raises([HcH |-> Bit(0), Hse |-> Bit(2), Eint |-> Bit(3), Pcd |-> Bit(4),
            Sss |-> Bit(8), Rss |-> Bit(9), Sre |-> Bit(10),
            Cnr |-> Bit(11), Hce |-> Bit(12)], {"Hse", "Eint", "Pcd", "Sre"})

XhciCrCr ==
    Layout([Rcs |-> Bit(0), Cs |-> Bit(1), Ca |-> Bit(2), Crr |-> Bit(3),
            pointer_lo |-> PartIn(0, 6, 26), pointer_hi |-> PartIn(1, 0, 32)])

XhciConfig ==
    Layout([U3e |-> Bit(8), Cie |-> Bit(9), max_slots_en |-> PartIn(0, 0, 8)])

XhciPortSc ==
    Raises([Ccs |-> Bit(0), Ped |-> Bit(1), Oca |-> Bit(3), Pr |-> Bit(4),
            Pp |-> Bit(9), Lws |-> Bit(16), Csc |-> Bit(17),
            Pec |-> Bit(18), Wrc |-> Bit(19), Occ |-> Bit(20),
            Prc |-> Bit(21), Plc |-> Bit(22), Cec |-> Bit(23),
            Cas |-> Bit(24), Wce |-> Bit(25), Wde |-> Bit(26),
            Woe |-> Bit(27), Dr |-> Bit(30), Wpr |-> Bit(31),
            Pls |-> Part(5, 4), PortSpeed |-> Part(10, 4),
            Pic |-> Part(14, 2)],
      {"Ped", "Csc", "Pec", "Wrc", "Occ", "Prc", "Plc", "Cec"})

XhciPortPmscUsb3 ==
    Layout([U1Timeout |-> Part(0, 8), U2Timeout |-> Part(8, 8),
            fla |-> BitIn(0, 16)])

XhciPortPmscUsb2 ==
    Layout([Rwe |-> Bit(3), Hle |-> Bit(16), L1S |-> Part(0, 3),
            Besl |-> Part(4, 4), L1DeviceSlot |-> Part(8, 8),
            TestMode |-> Part(28, 4)])

XhciPortLiUsb3 ==
    Reads([LinkErrorCount |-> Part(0, 16), Rlc |-> Part(16, 4),
           Tlc |-> Part(20, 4)])

XhciPortHlpMcUsb2 ==
    Layout([Hirdm |-> Part(0, 2), L1Timeout |-> Part(2, 8),
            Besld |-> Part(10, 4)])

XhciInterruptRegisterSet ==
    [Raises([ImodI |-> PartIn(1, 0, 16), ImodC |-> PartIn(1, 16, 16),
             EventRingSegmentTableSize |-> PartIn(2, 0, 16),
             Desi |-> PartIn(6, 0, 3), Ip |-> BitIn(0, 0),
             Ie |-> BitIn(0, 1), Ehb |-> BitIn(6, 3),
             table_lo |-> PartIn(4, 5, 27), table_hi |-> PartIn(5, 0, 32),
             dequeue_lo |-> PartIn(6, 4, 28), dequeue_hi |-> PartIn(7, 0, 32)], {"Ip", "Ehb"})
     EXCEPT !.clears.table_lo = PartIn(4, 0, 32)]

XhciCapability ==
    Reads([caplength |-> Bytes(0, 1), hciversion |-> Bytes(1, 2),
           hcsparams1 |-> Bytes(4, 4), hcsparams2 |-> Bytes(8, 4),
           hcsparams3 |-> Bytes(12, 4), hccparams1 |-> Bytes(16, 4),
           dboff |-> Bytes(20, 4), rtsoff |-> Bytes(24, 4),
           hccparams2 |-> Bytes(28, 4), vtiosoff |-> Bytes(32, 4)])

XhciOperational ==
    Reads([usbcmd |-> Bytes(0, 4), usbsts |-> Bytes(4, 4),
           page_size |-> Bytes(8, 4), dnctrl |-> Bytes(20, 4),
           crcr |-> Bytes(24, 8), dcbaap |-> Bytes(48, 8),
           config |-> Bytes(56, 4), portsc |-> Bytes(1024, 4),
           portpmsc |-> Bytes(1028, 4), portli |-> Bytes(1032, 4),
           porthlpmc |-> Bytes(1036, 4), portsc2 |-> Bytes(1040, 4)])

XhciSlotContext ==
    Layout([Speed |-> PartIn(0, 20, 4), ContextEntries |-> PartIn(0, 27, 5),
            RootHubPortNumber |-> PartIn(1, 16, 8),
            MaxExitLatency |-> PartIn(1, 0, 16),
            NumberOfPorts |-> PartIn(1, 24, 8),
            TTHubSlotId |-> PartIn(2, 0, 8),
            TTPortNumber |-> PartIn(2, 8, 8), TTT |-> PartIn(2, 16, 2),
            InterrupterTarget |-> PartIn(2, 22, 11),
            UsbDeviceAddress |-> PartIn(3, 0, 8),
            SlotState |-> PartIn(3, 27, 5), Mtt |-> BitIn(0, 25),
            Hub |-> BitIn(0, 26), route_string |-> PartIn(0, 0, 20)])

XhciEndpointContext ==
    Layout([EpState |-> PartIn(0, 0, 3), Mult |-> PartIn(0, 8, 2),
            MaxPStreams |-> PartIn(0, 10, 5), Interval |-> PartIn(0, 16, 8),
            CErr |-> PartIn(1, 1, 2), EpType |-> PartIn(1, 3, 3),
            MaxBurstSize |-> PartIn(1, 8, 8),
            MaxPacketSize |-> PartIn(1, 16, 16),
            AverageTrbLength |-> PartIn(4, 0, 16), Lsa |-> BitIn(0, 15),
            Hid |-> BitIn(1, 7), Dcs |-> BitIn(2, 0),
            esit_payload_hi |-> PartIn(0, 24, 8),
            esit_payload_lo |-> PartIn(4, 16, 16),
            tr_dequeue_lo |-> PartIn(2, 1, 31),
            tr_dequeue_hi |-> PartIn(3, 0, 32)])

XhciLinkTrb ==
    [Layout([InterrupterTarget |-> PartIn(2, 22, 10),
             TrbType |-> PartIn(3, 10, 6), Ioc |-> BitIn(3, 5),
             Ch |-> BitIn(3, 4), Tc |-> BitIn(3, 1), C |-> BitIn(3, 0),
             segment_lo |-> PartIn(0, 4, 28), segment_hi |-> PartIn(1, 0, 32)])
     EXCEPT !.clears.segment_lo = PartIn(0, 0, 32),
            !.bulk = {ZeroOut}]

XhciCommandCompletion ==
    [Settable([CompletionCode |-> PartIn(2, 24, 8),
             SlotId |-> PartIn(3, 24, 8), VfId |-> PartIn(3, 16, 8),
             TrbType |-> PartIn(3, 10, 6), parameter |-> PartIn(2, 0, 24),
             cycle |-> BitIn(3, 0),
             command_trb_pointer |-> PartIn(0, 0, 32)],
             {"CompletionCode", "SlotId", "VfId", "TrbType"})
     EXCEPT !.bulk = {ZeroOut}]

XhciSetupStageTrb ==
    [Layout([trb_transfer_length |-> PartIn(2, 0, 17),
             interrupter_target |-> PartIn(2, 22, 10), c |-> BitIn(3, 0),
             ioc |-> BitIn(3, 5), idt |-> BitIn(3, 6),
             type |-> PartIn(3, 10, 6), trt |-> PartIn(3, 16, 2)])
     EXCEPT !.sets = @ \ {"type", "trb_transfer_length"},
            !.bulk = {Bulk("set_type", PartIn(3, 10, 6), BitIn(3, 11)),
                      Bulk("set_trb_transfer_length", PartIn(2, 0, 17),
                           BitIn(2, 3))}]

XhciDataStageTrb ==
    [Layout([C |-> BitIn(3, 0), Ent |-> BitIn(3, 1), Isp |-> BitIn(3, 2),
             Ns |-> BitIn(3, 3), Ch |-> BitIn(3, 4), Ioc |-> BitIn(3, 5),
             Idt |-> BitIn(3, 6), Dir |-> BitIn(3, 16),
             type |-> PartIn(3, 10, 6),
             trb_transfer_length |-> PartIn(2, 0, 17),
             td_size |-> PartIn(2, 17, 5),
             interrupter_target |-> PartIn(2, 22, 10)])
     EXCEPT !.sets = @ \ {"type"},
            !.bulk = {Bulk("set_type", PartIn(3, 10, 6), PartIn(3, 10, 2))}]

XhciStatusStageTrb ==
    [Layout([C |-> BitIn(3, 0), Ent |-> BitIn(3, 1), Ch |-> BitIn(3, 4),
             Ioc |-> BitIn(3, 5), Dir |-> BitIn(3, 16),
             type |-> PartIn(3, 10, 6),
             interrupter_target |-> PartIn(2, 22, 10)])
     EXCEPT !.sets = @ \ {"type"},
            !.bulk = {Bulk("set_type", PartIn(3, 10, 6), BitIn(3, 12))}]

XhciNormalTrb ==
    [Layout([Bei |-> BitIn(3, 9), Idt |-> BitIn(3, 6), Ioc |-> BitIn(3, 5),
             Ch |-> BitIn(3, 4), Ns |-> BitIn(3, 3), Isp |-> BitIn(3, 2),
             Ent |-> BitIn(3, 1), C |-> BitIn(3, 0),
             type |-> PartIn(3, 10, 6),
             trb_transfer_length |-> PartIn(2, 0, 17),
             td_size |-> PartIn(2, 17, 5),
             interrupter_target |-> PartIn(2, 22, 10)])
     EXCEPT !.sets = @ \ {"type"},
            !.bulk = {Bulk("set_type", PartIn(3, 10, 6), BitIn(3, 10))}]

XhciTransferEvent ==
    Reads([completion_code |-> PartIn(2, 24, 8),
           endpoint_id |-> PartIn(3, 16, 5), slot_id |-> PartIn(3, 24, 8),
           trb_pointer |-> PartIn(0, 0, 32)])

XhciProtocol ==
    Reads([Psiv |-> Part(0, 4), Psie |-> Part(4, 2), Plt |-> Part(6, 2),
           Lp |-> Part(14, 2), Psim |-> Part(16, 16), pfd |-> BitIn(0, 8)])

UsbTables ==
    {"UhciUsbCmd", "UhciUsbSts", "UhciInterruptEnable",
     "UhciUsbPortStatusControl", "UhciBar", "UhciTransferDescriptor",
     "UhciQueueHead", "OhciControl", "OhciCommandStatus",
     "OhciInterruptStatus", "OhciInterruptEnable", "OhciInterruptDisable",
     "OhciFmInterval", "OhciFmRemaining", "OhciRhDescriptorA",
     "OhciRhDescriptorB", "OhciRhStatus", "OhciRhPortStatus", "OhciBar",
     "OhciHcca", "OhciEndpointDescriptor", "GeneralTD", "IsochTD",
     "HcsParams", "HccParams", "EhciUsbCmd", "EhciUsbSts", "EhciUsbIntr",
     "EhciPointers", "EhciPortSc", "EhciUsbBase", "QueueHead",
     "QueueHeadBuffer", "QueueHeadNext", "qTDPointer",
     "IsochronousBuffer", "IsochronousTransaction", "IsochronousWords",
     "SplitTransaction", "QueueElement", "QueueElementBuffers",
     "PathLinks", "XhciHcsParams1", "XhciHcsParams2", "XhciHcsParams3",
     "XhciHccParams1", "XhciHccParams2", "XhciUsbCmd", "XhciUsbSts",
     "XhciCrCr", "XhciConfig", "XhciPortSc", "XhciPortPmscUsb3",
     "XhciPortPmscUsb2", "XhciPortLiUsb3", "XhciPortHlpMcUsb2",
     "XhciInterruptRegisterSet", "XhciCapability", "XhciOperational",
     "XhciSlotContext", "XhciEndpointContext", "XhciLinkTrb",
     "XhciCommandCompletion", "XhciSetupStageTrb", "XhciDataStageTrb",
     "XhciStatusStageTrb", "XhciNormalTrb", "XhciTransferEvent",
     "XhciProtocol"}

UsbTable(r) ==
    CASE r = "UhciUsbCmd" -> UhciUsbCmd
      [] r = "UhciUsbSts" -> UhciUsbSts
      [] r = "UhciInterruptEnable" -> UhciInterruptEnable
      [] r = "UhciUsbPortStatusControl" -> UhciUsbPortStatusControl
      [] r = "UhciBar" -> UhciBar
      [] r = "UhciTransferDescriptor" -> UhciTransferDescriptor
      [] r = "UhciQueueHead" -> UhciQueueHead
      [] r = "OhciControl" -> OhciControl
      [] r = "OhciCommandStatus" -> OhciCommandStatus
      [] r = "OhciInterruptStatus" -> OhciInterruptStatus
      [] r = "OhciInterruptEnable" -> OhciInterruptEnable
      [] r = "OhciInterruptDisable" -> OhciInterruptDisable
      [] r = "OhciFmInterval" -> OhciFmInterval
      [] r = "OhciFmRemaining" -> OhciFmRemaining
      [] r = "OhciRhDescriptorA" -> OhciRhDescriptorA
      [] r = "OhciRhDescriptorB" -> OhciRhDescriptorB
      [] r = "OhciRhStatus" -> OhciRhStatus
      [] r = "OhciRhPortStatus" -> OhciRhPortStatus
      [] r = "OhciBar" -> OhciBar
      [] r = "OhciHcca" -> OhciHcca
      [] r = "OhciEndpointDescriptor" -> OhciEndpointDescriptor
      [] r = "GeneralTD" -> GeneralTD
      [] r = "IsochTD" -> IsochTD
      [] r = "HcsParams" -> HcsParams
      [] r = "HccParams" -> HccParams
      [] r = "EhciUsbCmd" -> EhciUsbCmd
      [] r = "EhciUsbSts" -> EhciUsbSts
      [] r = "EhciUsbIntr" -> EhciUsbIntr
      [] r = "EhciPointers" -> EhciPointers
      [] r = "EhciPortSc" -> EhciPortSc
      [] r = "EhciUsbBase" -> EhciUsbBase
      [] r = "QueueHead" -> QueueHead
      [] r = "QueueHeadBuffer" -> QueueHeadBuffer
      [] r = "QueueHeadNext" -> QueueHeadNext
      [] r = "qTDPointer" -> qTDPointer
      [] r = "IsochronousBuffer" -> IsochronousBuffer
      [] r = "IsochronousTransaction" -> IsochronousTransaction
      [] r = "IsochronousWords" -> IsochronousWords
      [] r = "SplitTransaction" -> SplitTransaction
      [] r = "QueueElement" -> QueueElement
      [] r = "QueueElementBuffers" -> QueueElementBuffers
      [] r = "PathLinks" -> PathLinks
      [] r = "XhciHcsParams1" -> XhciHcsParams1
      [] r = "XhciHcsParams2" -> XhciHcsParams2
      [] r = "XhciHcsParams3" -> XhciHcsParams3
      [] r = "XhciHccParams1" -> XhciHccParams1
      [] r = "XhciHccParams2" -> XhciHccParams2
      [] r = "XhciUsbCmd" -> XhciUsbCmd
      [] r = "XhciUsbSts" -> XhciUsbSts
      [] r = "XhciCrCr" -> XhciCrCr
      [] r = "XhciConfig" -> XhciConfig
      [] r = "XhciPortSc" -> XhciPortSc
      [] r = "XhciPortPmscUsb3" -> XhciPortPmscUsb3
      [] r = "XhciPortPmscUsb2" -> XhciPortPmscUsb2
      [] r = "XhciPortLiUsb3" -> XhciPortLiUsb3
      [] r = "XhciPortHlpMcUsb2" -> XhciPortHlpMcUsb2
      [] r = "XhciInterruptRegisterSet" -> XhciInterruptRegisterSet
      [] r = "XhciCapability" -> XhciCapability
      [] r = "XhciOperational" -> XhciOperational
      [] r = "XhciSlotContext" -> XhciSlotContext
      [] r = "XhciEndpointContext" -> XhciEndpointContext
      [] r = "XhciLinkTrb" -> XhciLinkTrb
      [] r = "XhciCommandCompletion" -> XhciCommandCompletion
      [] r = "XhciSetupStageTrb" -> XhciSetupStageTrb
      [] r = "XhciDataStageTrb" -> XhciDataStageTrb
      [] r = "XhciStatusStageTrb" -> XhciStatusStageTrb
      [] r = "XhciNormalTrb" -> XhciNormalTrb
      [] r = "XhciTransferEvent" -> XhciTransferEvent
      [] r = "XhciProtocol" -> XhciProtocol
=============================================================================
