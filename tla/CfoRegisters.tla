---------------------------- MODULE CfoRegisters ----------------------------
(***************************************************************************)
(* The registers of a CFO, one row for each accessor of CFO_Registers.cpp, *)
(* in the order of that file.  A CFO has eight links to chains of DTCs.    *)
(***************************************************************************)
EXTENDS CoreRegisters

\* One bit of a register for each link: its getter and its dump.
LinkStatus(n, r, first) == PerLink(CardLinks, LAMBDA l : Status(n, r, {first + l}))

DesignStatus ==
    Status("DDRFIFOEmpty", "DesignStatus", {2})
    \cup Status("DDRClockCalibrationDone", "DesignStatus", {0})

CFOControl ==
    Setting("LED7State", "Control", {23}) \cup Setting("AcceleratorRF0Enable", "Control", {2})
    \cup Setting("EmbeddedClockMarkerEnable", "Control", {1})
    \cup Dump(ControlResets, {"SoftReset", "ResetSERDES", "HardReset"}, "Control")

DMATransferLength ==
    Setting("TriggerDMATransferLength", "DMATransferLength", Bits(16, 16))
    \cup Setting("MinDMATransferLength", "DMATransferLength", Bits(0, 16))

----------------------------------------------------------------------------
(* Serial links.                                                           *)

\* A link is enabled and disabled as on a DTC; enabling it also sets the
\* number of its DTCs (LinkDTCCount).
LoopbackAndLinkEnable ==
    PerLink(CardLinks, LAMBDA l :
        Setting("SERDESLoopback", "SERDES_LoopbackEnable", Bits(3 * l, 3))
        \cup Status("LinkEnabled", "LinkEnable", {l, l + 8})
        \cup {SetterTo("LinkEnabled", "LinkEnable", {l, l + 8}, SUBSET {l, l + 8}),
              SetterTo("LinkEnabled", "LinkEnable", {l}, {{}}),
              SetterTo("LinkEnabled", "LinkEnable", {l + 8}, {{}})})
    \cup {GroupSetter("AllLinksEnabled", "LinkEnable", Bits(0, 16))}
    \cup Status("SERDESOscillatorIICError", "ClockOscillatorStatus", {2})
    \cup Status("SERDESOscillatorInitializationComplete", "ClockOscillatorStatus", {1})
    \cup Status("TimingClockPLLLocked", "ClockOscillatorStatus", {0})

SERDESResets ==
    LET R == "SERDES_Reset" IN
    PerLink(CardLinks, LAMBDA l :
        Status("ResetSERDES", R, {l}) \cup {Pulse("ResetSERDES", R, {l})})
    \cup {[Pulse("AllSERDESResets", R, Bits(0, 8)) EXCEPT !.group = TRUE],
          WriteWords("AllSERDESPlls", R, <<Bits(8, 8), {}>>),
          WriteWords("AllSERDESTx", R, <<Bits(16, 8), {}>>)}

SERDESStatus ==
    PerLink(CardLinks, LAMBDA l :
        Status("SERDESRXDisparityError", "SERDES_RXDisparityError", Bits(2 * l, 2))
        \cup Status("SERDESRXCharacterNotInTableError",
                    "SERDES_RXCharacterNotInTableError", Bits(2 * l, 2))
        \cup Status("SERDESRXStatus", "SERDES_RXStatus", Bits(3 * l, 3)))
    \cup LinkStatus("SERDESUnlockError", "SERDES_UnlockError", 0)
    \cup LinkStatus("SERDESPLLLocked", "SERDES_PLLLocked", 0)
    \cup LinkStatus("ResetSERDESDone", "SERDES_ResetDone", 0)
    \cup LinkStatus("SERDESRXCDRLock", "SFPSERDESStatus", 0)

----------------------------------------------------------------------------
(* Beam modes, clock markers, oscillator and time stamps.                  *)

\* The link that the beam mode accessors are given is not used.
BeamModes ==
    WordSetting("BeamOnTimerPreset", "BeamOnTimerPreset")
    \cup Setting("BeamOnMode", "EnableBeamOnMode", {0})
    \cup Setting("BeamOffMode", "EnableBeamOffMode", {0})
    \cup WordSetting("ClockMarkerIntervalCount", "ClockMarkerIntervalCount")

OscillatorFrequency ==
    {Getter("SERDESOscillatorFrequency", "SERDESOscillatorFrequency", Word),
     Overwriter("SERDESOscillatorFrequency", "SERDESOscillatorFrequency", Word)}

JitterAttenuatorCSR == JitterAttenuator("JitterAttenuatorCSR")

OscillatorFrequencyDump ==
    Dump(OscillatorFrequency, {"SERDESOscillatorFrequency"}, "SERDESOscillatorFrequency")

TimestampPreset ==
    WordSetting("TimestampPresetLow", "TimestampPreset0")
    \cup Status("TimestampPresetHigh", "TimestampPreset1", Bits(0, 16))
    \cup {Overwriter("TimestampPresetHigh", "TimestampPreset1", Bits(0, 16))}

\* The number of DTCs on a link, four bits each, one link or all.
NUMDTCs ==
    PerLink(CardLinks, LAMBDA l : Setting("LinkDTCCount", "NUMDTCs", Bits(4 * l, 4)))
    \cup {GroupSetter("AllLinkDTCCounts", "NUMDTCs", Word)}

\* Clearing the flag of a link writes a word with what was read of it.
FIFOFullFlags ==
    PerLink(CardLinks, LAMBDA l :
        Status("FIFOFullErrorFlags", "FIFOFullErrorFlag0", {l})
        \cup {[AckAlone("FIFOFullErrorFlags", "FIFOFullErrorFlag0", {l})
                 EXCEPT !.writes = Once({{}, {l}})]})

\* These flags are cleared by writing 0.
PacketErrors ==
    LET R == "ReceivePacketError"
        Error(n, bit) == Status(n, R, {bit}) \cup {SetterTo(n, R, {bit}, {{}})} IN
    PerLink(CardLinks, LAMBDA l :
        Error("RXElasticBufferUnderrun", l + 24) \cup Error("RXElasticBufferOverrun", l + 16)
        \cup Error("PacketError", l + 8) \cup Error("PacketCRCError", l))

\* The accessors of the emulated interval only throw.
EventWindow ==
    WordSetting("EventWindowHoldoffTime", "EventWindowHoldoffTime")
    \cup PerLink(CardLinks, LAMBDA l :
            Status("EventWindowTimeoutError", "EventWindowTimeoutError", {l})
            \cup {Ack("EventWindowTimeoutError", "EventWindowTimeoutError", {l})})
    \cup WordSetting("EventWindowTimeoutInterval", "EventWindowTimeoutValue")

----------------------------------------------------------------------------
(* Counters of the links.                                                  *)

ReceiveByteCount == EachLink(CardLinks, Cleared("ReceiveByteCount", "ReceiveByteCountDataLink", {}))
ReceivePacketCount ==
    EachLink(CardLinks, Cleared("ReceivePacketCount", "ReceivePacketCountDataLink", {}))
TransmitByteCount ==
    EachLink(CardLinks, Cleared("TransmitByteCount", "TransmitByteCountDataLink", {}))
TransmitPacketCount ==
    EachLink(CardLinks, Cleared("TransmitPacketCount", "TransmitPacketCountDataLink", {}))

ReceiveCountDump ==
    LinkDump(ReceiveByteCount, "ReceiveByteCount")
    \cup LinkDump(ReceivePacketCount, "ReceivePacketCount")

TransmitCountDump ==
    LinkDump(TransmitByteCount, "TransmitByteCount")
    \cup LinkDump(TransmitPacketCount, "TransmitPacketCount")

----------------------------------------------------------------------------
(* DMA addresses and the run plan.                                         *)

\* The dumps of the read address and of the byte count read the write address.
DMAAddresses ==
    LET W == "DDRMemoryDMAWriteStartAddress"
        Address(n, r) == {Getter(n, r, Word), Overwriter(n, r, Word), Shown(n, W, Word)} IN
    Address("DMAWriteStartAddress", W)
    \cup Address("DMAReadStartAddress", "DDRMemoryDMAReadStartAddress")
    \cup Address("DMAReadByteCount", "DDRMemoryDMAReadByteCount")

RunPlanAddresses ==
    WordSetting("RunPlanBeamOnBaseAddress", "RunPlanBeamOnBaseAddress")
    \cup WordSetting("RunPlanBeamOffBaseAddress", "RunPlanBeamOffBaseAddress")

----------------------------------------------------------------------------
(* Transceivers, pattern generators, cable delay, configuration.           *)

FireflyCSR ==
    LET R == "FireflyCSRRegister" IN
    Status("FireflyTXRXPresent", R, {26}) \cup Status("FireflyRXPresent", R, {25})
    \cup Status("FireflyTXPresent", R, {24}) \cup Status("FireflyTXRXInterrupt", R, {18})
    \cup Status("FireflyRXInterrupt", R, {17}) \cup Status("FireflyTXInterrupt", R, {16})
    \cup Setting("FireflyTXRXSelect", R, {10}) \cup Setting("FireflyRXSelect", R, {9})
    \cup Setting("FireflyTXSelect", R, {8}) \cup Setting("FireflyTXRXReset", R, {2})
    \cup Setting("FireflyRXReset", R, {1}) \cup Setting("FireflyTXReset", R, {0})

\* The setters of the selections write the byte they are given as the word.
PRBSTransmitSelect ==
    LET R == "SERDESPRBSControlLink" IN
    EachLink(CardLinks,
        {Getter("SERDESPRBSErrorFlag", R, {31}),
         Getter("SERDESTXPRBSSEL", R, Bits(12, 4)),
         Overwriter("SERDESTXPRBSSEL", R, Bits(0, 8))})

PRBSReceiveSelect ==
    LET R == "SERDESPRBSControlLink" IN
    EachLink(CardLinks,
        {Getter("SERDESRXPRBSSEL", R, Bits(8, 4)), Overwriter("SERDESRXPRBSSEL", R, Bits(0, 8))})

\* Each flag is read, set and flipped.
PRBSForceError == EachLink(CardLinks, Flag("SERDESTXPRBSForceError", "SERDESPRBSControlLink", 1))
PRBSCountReset == EachLink(CardLinks, Flag("SERDESRXPRBSCountReset", "SERDESPRBSControlLink", 0))

PRBSDump ==
    {[g EXCEPT !.kind = "show"] :
        g \in {g \in PRBSTransmitSelect \cup PRBSReceiveSelect \cup PRBSForceError
                     \cup PRBSCountReset : g.kind = "read"}}

CableDelay ==
    Field("CableDelayMeasureExponentialCount", "CableDelayControlStatus", Bits(16, 4))

FPGAPROM ==
    Status("FPGAPROMProgramFIFOFull", "FPGAPROMProgramStatus", {1})
    \cup Status("FPGAPROMReady", "FPGAPROMProgramStatus", {0})

FPGACoreAccess ==
    Status("FPGACoreAccessFIFOFull", "FPGACoreAccess", {1})
    \cup Status("FPGACoreAccessFIFOEmpty", "FPGACoreAccess", {0})

\* DisableLinks and DisableAllOutputs switch everything off.
DisableAllOutputs ==
    {WriteWords("DisableLinks", "LinkEnable", <<{}>>),
     WriteWords("DisableControl", "Control", <<{}>>),
     WriteWords("DisableClockMarkers", "ClockMarkerIntervalCount", <<{}>>)}

CfoTable ==
    CoreRegisters \cup DesignStatus \cup CFOControl \cup DMATransferLength
    \cup LoopbackAndLinkEnable \cup SERDESResets \cup SERDESStatus \cup BeamModes
    \cup OscillatorFrequency \cup JitterAttenuatorCSR \cup OscillatorFrequencyDump
    \cup TimestampPreset \cup NUMDTCs \cup FIFOFullFlags \cup PacketErrors \cup EventWindow
    \cup ReceiveByteCount \cup ReceivePacketCount \cup TransmitByteCount
    \cup TransmitPacketCount \cup ReceiveCountDump \cup TransmitCountDump \cup DMAAddresses
    \cup RunPlanAddresses \cup FireflyCSR \cup PRBSTransmitSelect
    \cup PRBSReceiveSelect \cup PRBSForceError \cup PRBSCountReset \cup PRBSDump
    \cup CableDelay \cup FPGAPROM \cup FPGACoreAccess \cup DisableAllOutputs
=============================================================================
