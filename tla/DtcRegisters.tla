---------------------------- MODULE DtcRegisters ----------------------------
(***************************************************************************)
(* The registers of a DTC, one row for each accessor of DTC_Registers.cpp, *)
(* in the order of that file.                                              *)
(***************************************************************************)
EXTENDS CoreRegisters

----------------------------------------------------------------------------
(* Design status, control and DMA length.                                  *)

DesignStatus ==
    Inverted(Setting("DDRInterfaceReset", "DesignStatus", {1}), {1})
    \cup Status("DDRAutoCalibrationDone", "DesignStatus", {0})

\* EnableCFOLoopback clears bit 28, DisableCFOLoopback sets it, and the getter
\* does not complement it.
CFOEmulationControl ==
    Flag("CFOEmulationEnabled", "Control", 30)
    \cup {Getter("CFOLoopback", "Control", {28}),
          [Setter("CFOLoopback", "Control", {28}) EXCEPT !.inverts = {28}],
          Getter("ResetDDRWriteAddress", "Control", {27}),
          Pulse("ResetDDRWriteAddress", "Control", {27}),
          Getter("ResetDDRReadAddress", "Control", {26}),
          Pulse("ResetDDRReadAddress", "Control", {26}),
          Getter("ResetDDR", "Control", {25}), Pulse("ResetDDR", "Control", {25})}

\* EnableSoftwareDRP is DisableAutogenDRP.
DataRequestControl ==
    Flag("CFOEmulatorDRP", "Control", 24) \cup Flag("AutogenDRP", "Control", 23)
    \cup {Getter("SoftwareDRP", "Control", {22}), Getter("ResetPCIe", "Control", {21}),
          Pulse("ResetPCIe", "Control", {21, 20, 11, 7})}

LEDControl ==
    {[GroupSetter("LEDs", "Control", 16 .. 20)
        EXCEPT !.writes = {<<{}>>, <<16 .. 20>>, <<{}, 16 .. 20, {}>>}]}
    \cup Flag("DownLED0State", "Control", 19) \cup Flag("UpLED1State", "Control", 18)
    \cup Flag("UpLED0State", "Control", 17) \cup Flag("LED6State", "Control", 16)

\* ROCInterfaceSoftReset pulses bit 12, its getter reads bit 11.
EmulationModes ==
    Flag("CFOEmulationMode", "Control", 15) \cup Flag("DataFilterEnable", "Control", 13)
    \cup Flag("DRPPrefetchEnable", "Control", 12)
    \cup {StalePulse("ROCInterfaceSoftReset", "Control", {12}),
          Getter("ROCInterfaceSoftReset", "Control", {11})}
    \cup Flag("DropDataToEmulateEventBuilding", "Control", 10)
    \cup Flag("PunchEnable", "Control", 9)

\* The setter complements bit 6 of the edge mode, the getter does not.
ClockControl ==
    {[Setter("ExternalCFOSampleEdgeMode", "Control", {5, 6})
        EXCEPT !.inverts = {6}],
     Getter("ExternalCFOSampleEdgeMode", "Control", {5, 6})}
    \cup Flag("FanoutClockInput", "Control", 4) \cup Flag("DCSReception", "Control", 2)

DTCControlDump ==
    Dump(ControlResets \cup CFOEmulationControl \cup DataRequestControl
         \cup LEDControl \cup EmulationModes \cup ClockControl,
         {"SoftReset", "CFOEmulationEnabled", "CFOLoopback", "AutogenDRP",
          "DownLED0State", "UpLED1State", "UpLED0State", "LED6State",
          "CFOEmulationMode", "DRPPrefetchEnable",
          "DropDataToEmulateEventBuilding", "PunchEnable", "ResetSERDES",
          "FanoutClockInput", "DCSReception", "HardReset"}, "Control")

DMATransferLength ==
    Setting("TriggerDMATransferLength", "DMATransferLength", Bits(16, 16))
    \cup Setting("MinDMATransferLength", "DMATransferLength", Bits(0, 16))

----------------------------------------------------------------------------
(* Serial links: modes, enables, resets and their status.                  *)

LoopbackAndOscillators ==
    PerLink(CardLinks,
        LAMBDA l : Setting("SERDESLoopback", "SERDES_LoopbackEnable", Bits(3 * l, 3)))
    \cup Status("SERDESOscillatorIICError", "ClockOscillatorStatus", {2})
    \cup Status("DDROscillatorIICError", "ClockOscillatorStatus", {18})

\* One emulator of each type for each ROC, switched on and off one link at a
\* time or all at once, or all types together by a mask.
ROCEmulation ==
    LET R == "ROCEmulationEnable"
        Emulator(n, type) ==
            PerLink(ROCLinks, LAMBDA l : Setting(n, R, {l + 6 * type}))
            \cup {GroupSetter("AllROCEmulators", R, Bits(6 * type, 6))} IN
    Emulator("ROCInternalEmulator", 0) \cup Emulator("ROCFiberLoopbackEmulator", 1)
    \cup Emulator("ROCExternalEmulator", 2)
    \cup {Getter("ROCEmulatorMask", R, Word), Replacer("ROCEmulatorMask", R, Word)}

\* A link is enabled for transmission (bit l) and reception (bit l + 8).
\* EnableLink sets both to what it is given, DisableLink clears those it is
\* given, and the CFO link has accessors of its own for each.
LinkEnable ==
    LET R == "LinkEnable" IN
    PerLink(CardLinks, LAMBDA l :
        Status("LinkEnabled", R, {l, l + 8})
        \cup {SetterTo("LinkEnabled", R, {l, l + 8}, SUBSET {l, l + 8}),
              SetterTo("LinkEnabled", R, {l}, {{}}),
              SetterTo("LinkEnabled", R, {l + 8}, {{}})})
    \cup PerLink({CFOLink}, LAMBDA l :
            {Setter("LinkEnabled", R, {14}), Setter("LinkEnabled", R, {6})})

\* A reset asserts its bit, or those of all links, reads the register again
\* and releases; then it waits until the link reports that it is done.
SERDESDirectionResets ==
    LET R == "SERDES_Reset"
        Reset(n, first) ==
            PerLink(CardLinks, LAMBDA l :
                {Pulse(n, R, {first + l}), Getter(n, R, {first + l})})
            \cup {[Pulse("AllSERDESResets", R, Bits(first, 8)) EXCEPT !.group = TRUE]} IN
    Reset("ResetSERDESTX", 24) \cup Reset("ResetSERDESRX", 16)

SERDESLinkResets ==
    LET R == "SERDES_Reset" IN
    PerLink(CardLinks, LAMBDA l :
        {Pulse("ResetSERDESPLL", R, {8 + l}), Getter("ResetSERDESPLL", R, {8 + l}),
         Pulse("ResetSERDES", R, {l})})
    \cup {[Pulse("AllSERDESResets", R, Bits(0, 8)) EXCEPT !.group = TRUE]}

\* The dump of a diagnostic queue reads its register a hundred times.
DiagFifos ==
    EachLink(CFOAndROCLinks,
        {Shown("RXDiagFifo", "RXDataDiagnosticFIFO", Word),
         Shown("TXDiagFifo", "TXDataDiagnosticFIFO", Word)})

SERDESResetDump ==
    LET PerLinkResets == PerLink(CardLinks, LAMBDA l : {Getter("ResetSERDES", "SERDES_Reset", {l})}) IN
    PerLinkResets
    \cup Dump(PerLinkResets \cup SERDESDirectionResets \cup SERDESLinkResets,
              {"ResetSERDES", "ResetSERDESTX", "ResetSERDESRX", "ResetSERDESPLL"},
              "SERDES_Reset")

SERDESErrors ==
    PerLink(CFOAndROCLinks, LAMBDA l :
        Status("SERDESRXDisparityError", "SERDES_RXDisparityError", Bits(2 * l, 2))
        \cup Status("SERDESRXCharacterNotInTableError",
                    "SERDES_RXCharacterNotInTableError", Bits(2 * l, 2)))
    \cup PerLink(CardLinks, LAMBDA l :
            Status("SERDESCDRUnlockError", "SERDES_UnlockError", {16 + l})
            \cup Status("SERDESPLLUnlockError", "SERDES_UnlockError", {l}))

\* EnableSERDESPLL clears the power down bit, DisableSERDESPLL sets it.
SERDESPLL ==
    PerLink(CardLinks, LAMBDA l :
        Status("SERDESPLLLocked", "SERDES_PLLLocked", {l})
        \cup Setting("SERDESPLLPowerDown", "SERDES_PLLPowerDown", {l}))
    \cup PerLink(CFOAndROCLinks, LAMBDA l :
            Status("SERDESRXStatus", "SERDES_RXStatus", Bits(3 * l, 3)))

SERDESDone ==
    LET R == "SERDES_ResetDone" IN
    PerLink(CardLinks, LAMBDA l :
        Status("ResetRXFSMSERDESDone", R, {l + 24}) \cup Status("ResetRXSERDESDone", R, {l + 16})
        \cup Status("ResetTXFSMSERDESDone", R, {l + 8}) \cup Status("ResetTXSERDESDone", R, {l})
        \cup Status("SERDESRXCDRLock", "SERDES_RXCDRLockStatus", {l}))

----------------------------------------------------------------------------
(* Timeouts, event building, oscillator frequencies.                       *)

\* Clearing the error of a link writes a word with only its bit.
Timeouts ==
    WordSetting("DMATimeoutPreset", "DMATimeoutPreset")
    \cup WordSetting("ROCTimeoutPreset", "ROCReplyTimeout")
    \cup PerLink(ROCLinks, LAMBDA l :
            Status("ROCTimeoutError", "ROCReplyTimeoutError", {l})
            \cup {AckAlone("ROCTimeoutError", "ROCReplyTimeoutError", {l})})

\* The getter of the partition masks the bits it wants away.
EVBPartition ==
    LET R == "EVBPartitionID" IN
    {Replacer("EVBInfo", R, Bits(24, 8) \cup Bits(16, 8) \cup Bits(8, 2) \cup Bits(0, 6)),
     Setter("EVBLocalParitionID", R, Bits(8, 2)),
     Getter("EVBLocalParitionID", R, {}), Shown("EVBLocalParitionID", R, {})}
    \cup Setting("DTCID", R, Bits(24, 8)) \cup Setting("EVBMode", R, Bits(16, 8))
    \cup Setting("EVBLocalMACAddress", R, Bits(0, 6))

EVBConfiguration ==
    LET R == "EVBConfiguration" IN
    {Replacer("EVBBufferInfo", R, Bits(16, 8) \cup Bits(8, 6) \cup Bits(0, 6))}
    \cup Setting("EVBNumberInputBuffers", R, Bits(16, 8))
    \cup Setting("EVBStartNode", R, Bits(8, 6))
    \cup Setting("EVBNumberOfDestinationNodes", R, Bits(0, 6))

\* The device says which of the two oscillators is meant.
OscillatorFrequency ==
    LET Reference(n, r) == {Getter(n, r, Word), Overwriter(n, r, Word)} IN
    Reference("TimingOscillatorReferenceFrequency", "SERDESTimingCardOscillatorFrequency")
    \cup Reference("SERDESOscillatorReferenceFrequency", "SERDESReferenceClockFrequency")

OscillatorFrequencyDump ==
    Dump(OscillatorFrequency, {"TimingOscillatorReferenceFrequency"},
         "SERDESTimingCardOscillatorFrequency")
    \cup Dump(OscillatorFrequency, {"SERDESOscillatorReferenceFrequency"},
              "SERDESReferenceClockFrequency")

DDROscillatorFrequency ==
    {Getter("DDROscillatorReferenceFrequency", "DDRReferenceClockFrequency", Word),
     Overwriter("DDROscillatorReferenceFrequency", "DDRReferenceClockFrequency", Word)}

DDROscillatorFrequencyDump ==
    Dump(DDROscillatorFrequency, {"DDROscillatorReferenceFrequency"},
         "DDRReferenceClockFrequency")

DataPendingTimer == WordSetting("DataPendingTimer", "DataPendingTimer")

----------------------------------------------------------------------------
(* Error flags of the queues and of the packets received.                  *)

\* The flags of a link are spread over three registers, four, four and one to
\* each.  Clearing them writes the flags of the link that were found set.
FIFOFullFlags ==
    LET Flags(n, bits) ==
            {Getter(n, n, bits), [AckAlone(n, n, bits) EXCEPT !.writes = Once({{}, bits})]} IN
    PerLink(CardLinks, LAMBDA l :
        Flags("FIFOFullErrorFlag0", {l, l + 8, l + 16, l + 24})
        \cup Flags("FIFOFullErrorFlag1", {l, l + 8, l + 16, l + 24})
        \cup Flags("FIFOFullErrorFlag2", {l})
        \cup {Shown("FIFOFullErrorFlag1", "FIFOFullErrorFlag1", {l, l + 8, l + 16, l + 24}),
              Shown("FIFOFullErrorFlag2", "FIFOFullErrorFlag2", {l})})
    \cup PerLink(ROCLinks, LAMBDA l :
            {Shown("FIFOFullErrorFlag0", "FIFOFullErrorFlag0", {l, l + 8, l + 16, l + 24})})

\* These flags are cleared by writing 0.
PacketErrors ==
    LET R == "ReceivePacketError" IN
    PerLink(CardLinks, LAMBDA l :
        Status("PacketError", R, {l + 8}) \cup {SetterTo("PacketError", R, {l + 8}, {{}})}
        \cup Status("PacketCRCError", R, {l}) \cup {SetterTo("PacketCRCError", R, {l}, {{}})})

----------------------------------------------------------------------------
(* The CFO emulator and the detector emulator.                             *)

\* The event window tag is written, and read, in two registers.
EmulatedTimestamp ==
    WordSetting("CFOEmulationTimestampLow", "CFOEmulation_TimestampLow")
    \cup Status("CFOEmulationTimestampHigh", "CFOEmulation_TimestampHigh", Bits(0, 16))
    \cup {Overwriter("CFOEmulationTimestampHigh", "CFOEmulation_TimestampHigh", Bits(0, 16))}

\* The dump of the loopback delay calls the getter of the interval.
EmulatedHeartbeats ==
    {Getter("CFOEmulationLoopbackDelayMeasure", "CFOEmulation_LoopbackDelayMeasure", Bits(0, 31)),
     Shown("CFOEmulationLoopbackDelayMeasure", "CFOEmulation_LoopbackDelayMeasure", Word)}
    \cup WordSetting("CFOEmulationEventWindowInterval", "CFOEmulation_HeartbeatInterval")
    \cup WordSetting("CFOEmulationNumHeartbeats", "CFOEmulation_NumHeartbeats")

\* Two links share a register, an even link has its lower half.  The setter
\* writes 11 bits and zeroes above them, the getter returns the half.
ROCEmulationNumPackets ==
    LET R(l) == IF l \in {0, 1} THEN "ROCEmulation_NumPacketsLinks10"
                ELSE IF l \in {2, 3} THEN "ROCEmulation_NumPacketsLinks32"
                ELSE "ROCEmulation_NumPacketsLinks54"
        Half(l) == Bits(16 * (l % 2), 16) IN
    PerLink(ROCLinks, LAMBDA l :
        Status("ROCEmulationNumPackets", R(l), Half(l))
        \cup {SetterTo("ROCEmulationNumPackets", R(l), Half(l),
                       AnyOf(Bits(16 * (l % 2), 11)))})

EmulatedEventMode ==
    WordSetting("CFOEmulationNumNullHeartbeats", "CFOEmulation_NumNullHeartbeats")
    \cup {Getter("CFOEmulationEventMode1", "CFOEmulation_EventMode1", Word),
          Replacer("CFOEmulationEventMode1", "CFOEmulation_EventMode1", Word),
          Getter("CFOEmulationEventMode2", "CFOEmulation_EventMode2", Word),
          Replacer("CFOEmulationEventMode2", "CFOEmulation_EventMode2", Word)}

\* Mode bytes 0 to 3 share a register, and 4 and 5 the next.
ModeBytes ==
    PerLink(0 .. 3, LAMBDA b :
        Setting("CFOEmulationModeByte", "CFOEmulation_EventMode1", Bits(8 * b, 8)))
    \cup PerLink(4 .. 5, LAMBDA b :
            Setting("CFOEmulationModeByte", "CFOEmulation_EventMode2", Bits(8 * (b - 4), 8)))

\* The setter of the type writes the mode bit that it has read; the getter of
\* the type applies its mask to a truth value and so returns the whole word.
DebugPacket ==
    LET R == "DebugPacketType" IN
    Setting("DebugPacketMode", R, {16})
    \cup Status("CFOEmulationDebugType", R, Word)
    \cup {[Setter("CFOEmulationDebugType", R, Word \ {16})
             EXCEPT !.writes = Once(AnyOf(Bits(0, 4)))]}

\* One link is cleared by a word with its bit, all by the word that was read.
RXPacketCountErrors ==
    LET R == "RXPacketCountErrorFlags" IN
    PerLink(CardLinks, LAMBDA l :
        Status("RXPacketCountErrorFlags", R, {l})
        \cup {AckAlone("RXPacketCountErrorFlags", R, {l})})
    \cup {Ack("AllRXPacketCountErrorFlags", R, {})}

DetectorEmulationCounts ==
    WordSetting("DetectorEmulationDMACount", "DetEmulation_DMACount")
    \cup WordSetting("DetectorEmulationDMADelayCount", "DetEmulation_DelayCount")

\* The emulator is switched on in one register and off in another, by a bit
\* the card takes back.
DetectorControl ==
    Setting("DetectorEmulatorMode", "DetEmulation_Control0", {0})
    \cup Status("DetectorEmulatorEnable", "DetEmulation_Control0", {1})
    \cup {SetterTo("DetectorEmulatorEnable", "DetEmulation_Control0", {1}, {{1}})}
    \cup Status("DetectorEmulatorEnableClear", "DetEmulation_Control1", {1})
    \cup {Ack("DetectorEmulatorEnableClear", "DetEmulation_Control1", {1})}

DDRDataAddresses ==
    WordSetting("DDRDataLocalStartAddress", "DetEmulation_DataStartAddress")
    \cup WordSetting("DDRDataLocalEndAddress", "DetEmulation_DataEndAddress")

\* The payload size is at most 1492, eleven bits.
EmulatorDelay ==
    Status("CFOEmulatorInterpacketDelay", "CFOEmulation_DataRequestDelay", Word)
    \cup Status("EthernetPayloadSize", "EthernetFramePayloadSize", Word)
    \cup {[Overwriter("EthernetPayloadSize", "EthernetFramePayloadSize", Word)
             EXCEPT !.writes = Once(AnyOf({2, 4, 6, 7, 8, 10}))]}

\* The dump of the marker enables reads the loopback register.
ClockMarkers ==
    WordSetting("CFOEmulation40MHzMarkerInterval", "CFOEmulation_40MHzClockMarkerInterval")
    \cup PerLink(ROCLinks, LAMBDA l :
            Flag("CFO40MHzClockMarkerEnable", "CFOMarkerEnables", l)
            \cup {Shown("CFO40MHzClockMarkerEnable", "SERDES_LoopbackEnable", {l})})
    \cup {GroupSetter("AllCFO40MHzClockMarkerEnables", "CFOMarkerEnables", Bits(0, 8))}
    \cup Setting("ROCCommaLimit", "ROCFinishThreshold", Bits(0, 8))

----------------------------------------------------------------------------
(* Counters of the links.                                                  *)

ReceiveCounts ==
    EachLink(CFOAndROCLinks,
        Cleared("ReceiveByteCount", "ReceiveByteCount", {})
        \cup Cleared("ReceivePacketCount", "ReceivePacketCount", {}))

TransmitCounts ==
    EachLink(CFOAndROCLinks,
        Cleared("TransmitByteCount", "TransmitByteCount", {})
        \cup Cleared("TransmitPacketCount", "TransmitPacketCount", {}))

ReceiveByteCountDump == LinkDump(ReceiveCounts, "ReceiveByteCount")
ReceivePacketCountDump == LinkDump(ReceiveCounts, "ReceivePacketCount")
TransmitByteCountDump == LinkDump(TransmitCounts, "TransmitByteCount")
TransmitPacketCountDump == LinkDump(TransmitCounts, "TransmitPacketCount")

\* The mode of link l is three bits from bit l, so those of neighbours overlap.
PRBS ==
    PerLink(CFOAndROCLinks, LAMBDA l :
        Setting("TXPRBSForceError", "TXPRBSControl", {l + 24})
        \cup Setting("TXPRBSMode", "TXPRBSControl", Bits(l, 3))
        \cup Status("RXPRBSError", "RXPRBSControl", {l + 24})
        \cup Setting("RXPRBSMode", "RXPRBSControl", Bits(l, 3)))

\* Selecting the byte clears the upper half of the register.
EventModeTable ==
    LET R == "EventModeLookupTableControl" IN
    Setting("EventModeTableEnable", R, {16})
    \cup Status("EventModeLookupByteSelect", R, Bits(0, 3))
    \cup {[Setter("EventModeLookupByteSelect", R, Bits(0, 3) \cup Bits(16, 16))
             EXCEPT !.writes = Once(AnyOf(Bits(0, 3)))]}
    \cup Status("DDRMemoryTestComplete", "DD3TestRegister", {8})
    \cup Status("DDRMemoryTestError", "DD3TestRegister", {0})
    \cup {AckAlone("DDRMemoryTestError", "DD3TestRegister", {0})}

Inversion ==
    LET R == "SERDESTXRXInvertEnable"
        Invert(l) == Field("InvertSERDESRXInput", R, {l + 8})
                     \cup Field("InvertSERDESTXOutput", R, {l})
        Inverts == PerLink(CardLinks, LAMBDA l : Invert(l)) IN
    Inverts \cup {g \in Dump(Inverts, {"InvertSERDESRXInput", "InvertSERDESTXOutput"}, R) :
                  g.link \in CFOAndROCLinks}

JitterAttenuatorCSR == JitterAttenuator("JitterAttenuatorCSR")

----------------------------------------------------------------------------
(* Retransmission, dropped fragments and the event builder.                *)

\* These counters are cleared by writing 1.
RetransmitRequestCount ==
    EachLink(ROCLinks, Counter("RetransmitRequestCount", "RetransmitRequestCount", {0}))

MissedCFOPacketCount ==
    EachLink(ROCLinks, Counter("MissedCFOPacketCount", "MissedCFOPacketCount", {0}))

LocalFragmentDropCount ==
    Counter("LocalFragmentDropCount", "LocalFragmentDropCount", {0})
    \cup WordSetting("EVBSubEventReceiveTimer", "EVBSubEventReceiveTimerPreset")

\* The setters of the pattern selections keep only the low byte of what they
\* compute, which holds no part of the selection.  Both toggles flip bit 0.
EVBSERDESPRBS ==
    LET R == "EVBSERDESPRBSControlStatus"
        Selection(n, bits) ==
            Status(n, R, bits) \cup {SetterTo(n, R, Bits(8, 24), {{}})} IN
    Status("EVBSERDESPRBSErrorFlag", R, {31})
    \cup Selection("EVBSERDESTXPRBSSEL", Bits(12, 3))
    \cup Selection("EVBSERDESRXPRBSSEL", Bits(8, 3))
    \cup Setting("EVBSERDESPRBSForceError", R, {1})
    \cup {Setter("EVBSERDESPRBSForceError", R, {0})}
    \cup Setting("EVBSERDESPRBSReset", R, {0})

EventBuilderErrors ==
    LET Error(n, bit) == Status(n, "EventBuilderErrorFlags", {bit}) IN
    Error("EventBuilder_SubEventReceiverFlagsBufferError", 24)
    \cup Error("EventBuilder_EthernetInputFIFOFull", 16)
    \cup Error("EventBuilder_LinkError", 9) \cup Error("EventBuilder_TXPacketError", 8)
    \cup Error("EventBuilder_LocalDataPointerFIFOQueueError", 1)
    \cup Error("EventBuilder_TransmitDMAByteCountFIFOFull", 0)

SERDESVFIFOErrors ==
    LET Error(n, bit) == Status(n, "InputBufferErrorFlags", {bit}) IN
    Error("SERDESVFIFO_EgressFIFOFull", 10) \cup Error("SERDESVFIFO_IngressFIFOFull", 9)
    \cup Error("SERDESVFIFO_EventByteCountTotalError", 8)
    \cup Error("SERDESVFIFO_LastWordWrittenTimeoutError", 2)
    \cup Error("SERDESVFIFO_FragmentCountError", 1) \cup Error("SERDESVFIFO_DDRFullError", 0)

PCIVFIFOErrors ==
    LET Error(n, bit) == Status(n, "OutputBufferErrorFlags", {bit}) IN
    Error("PCIVFIFO_DDRFull", 12) \cup Error("PCIVFIFO_MemoryMappedWriteCompleteFIFOFull", 11)
    \cup Error("PCIVFIFO_PCIWriteEventFIFOFull", 10)
    \cup Error("PCIVFIFO_LocalDataPointerFIFOFull", 9) \cup Error("PCIVFIFO_EgressFIFOFull", 8)
    \cup Error("PCIVFIFO_RXBufferSelectFIFOFull", 2) \cup Error("PCIVFIFO_IngressFIFOFull", 1)
    \cup Error("PCIVFIFO_EventByteCountTotalError", 0)

ROCLinkErrors ==
    EachLink(ROCLinks,
        {Getter("ROCLink_ROCDataRequestSyncError", "LinkErrorFlags", {5}),
         Getter("ROCLink_RXPacketCountError", "LinkErrorFlags", {4}),
         Getter("ROCLink_RXPacketError", "LinkErrorFlags", {3}),
         Getter("ROCLink_RXPacketCRCError", "LinkErrorFlags", {2})})

ROCLinkDataErrors ==
    EachLink(ROCLinks,
        {Getter("ROCLink_DataPendingTimeoutError", "LinkErrorFlags", {1}),
         Getter("ROCLink_ReceiveDataPacketCountError", "LinkErrorFlags", {0})})

ROCLinkErrorDump ==
    {[g EXCEPT !.kind = "show"] : g \in ROCLinkErrors \cup ROCLinkDataErrors}

LinkFlags ==
    {Shown("CFOLinkErrorFlags", "CFOLinkErrorFlags", Word),
     Shown("CFOEventStartMarkerTXError", "CFOLinkErrorFlags", {9}),
     Shown("CFOClockMarkerTXError", "CFOLinkErrorFlags", {10})}
    \cup Status("DCSMuxDecodeError", "LinkMuxErrorFlags", {1})
    \cup Status("DataMuxDecodeError", "LinkMuxErrorFlags", {0})

SFP ==
    LET R == "SFPControlStatus" IN
    Status("SFPPresent", R, {31}) \cup Status("SFPLOS", R, {17})
    \cup Status("SFPTXFault", R, {16}) \cup Setting("SFPRateSelect", R, {1})
    \cup Setting("SFPTXDisable", R, {0})

RXCDRUnlockCount ==
    EachLink(CFOAndROCLinks, Counter("RXCDRUnlockCount", "RXCDRUnlockCount", {}))

LossCounters ==
    Counter("JitterAttenuatorUnlockCount", "JitterAttenuatorLossOfLockCount", {0})
    \cup Counter("RXCFOLinkEventStartCharacterErrorCount", "CFOLinkEventStartErrorCount", {})
    \cup Counter("RXCFOLink40MHzCharacterErrorCount", "CFOLink40MHzErrorCount", {})
    \cup Counter("InputBufferFragmentDumpCount", "InputBufferDropCount", {})
    \cup Counter("OutputBufferFragmentDumpCount", "OutputBufferDropCount", {})
    \cup WordSetting("ROCDCSResponseTimer", "ROCDCSTimerPreset")

\* The requested event window, high word first, and the configuration PROM.
SoftwareDataRequest ==
    Status("SoftwareDataRequestHigh", "DataRequest_High", Bits(0, 16))
    \cup {Overwriter("SoftwareDataRequestHigh", "DataRequest_High", Bits(0, 16))}
    \cup WordSetting("SoftwareDataRequestLow", "DataRequest_Low")
    \cup Status("FPGAPROMProgramFIFOFull", "FPGAPROMProgramStatus", {1})
    \cup Status("FPGAPROMReady", "FPGAPROMProgramStatus", {0})

FPGACoreAccess ==
    Status("FPGACoreAccessFIFOFull", "FPGACoreAccess", {1})
    \cup Status("FPGACoreAccessFIFOEmpty", "FPGACoreAccess", {0})

DtcTable ==
    CoreRegisters \cup DesignStatus \cup CFOEmulationControl
    \cup DataRequestControl \cup LEDControl \cup EmulationModes
    \cup ClockControl \cup DTCControlDump \cup DMATransferLength
    \cup LoopbackAndOscillators \cup ROCEmulation \cup LinkEnable
    \cup SERDESDirectionResets \cup SERDESLinkResets \cup DiagFifos
    \cup SERDESResetDump \cup SERDESErrors \cup SERDESPLL \cup SERDESDone
    \cup Timeouts \cup EVBPartition \cup EVBConfiguration
    \cup OscillatorFrequency \cup OscillatorFrequencyDump
    \cup DDROscillatorFrequency \cup DDROscillatorFrequencyDump
    \cup DataPendingTimer \cup FIFOFullFlags \cup PacketErrors
    \cup EmulatedTimestamp \cup EmulatedHeartbeats
    \cup ROCEmulationNumPackets \cup EmulatedEventMode \cup ModeBytes
    \cup DebugPacket \cup RXPacketCountErrors \cup DetectorEmulationCounts
    \cup DetectorControl \cup DDRDataAddresses \cup EmulatorDelay
    \cup ClockMarkers \cup ReceiveCounts \cup TransmitCounts
    \cup ReceiveByteCountDump \cup ReceivePacketCountDump
    \cup TransmitByteCountDump \cup TransmitPacketCountDump \cup PRBS
    \cup EventModeTable \cup Inversion \cup JitterAttenuatorCSR
    \cup RetransmitRequestCount \cup MissedCFOPacketCount
    \cup LocalFragmentDropCount \cup EVBSERDESPRBS \cup EventBuilderErrors
    \cup SERDESVFIFOErrors \cup PCIVFIFOErrors \cup ROCLinkErrors
    \cup ROCLinkDataErrors \cup ROCLinkErrorDump \cup LinkFlags \cup SFP
    \cup RXCDRUnlockCount \cup LossCounters \cup SoftwareDataRequest
    \cup FPGACoreAccess
=============================================================================
