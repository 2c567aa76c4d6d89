----------------------- MODULE DtcDiagnosticRegisters -----------------------
(***************************************************************************)
(* The registers of a DTC that serve diagnosis: induced errors, buffer     *)
(* flags, emulated faults of ROCs, error and packet counts.  One row for   *)
(* each accessor of the last part of DTC_Registers.cpp, in its order.      *)
(***************************************************************************)
EXTENDS CoreRegisters

\* Lost synchronisation of slow optical links and SMA inputs, with latches
\* that are cleared by writing 1.  The dump reads the SFP register.
SlowOptical ==
    LET R == "SlowOpticalLinksDiag"
        Read(n, bit) == {Getter(n, R, {bit}), Shown(n, "SFPControlStatus", {bit})}
        Latched(n, bit) == Read(n, bit) \cup {Ack(n, R, {bit})} IN
    Latched("LatchedSpareSMAInputOKError", 5)
    \cup Latched("LatchedEventMarkerSMAInputOKError", 4)
    \cup PerLink(0 .. 3, LAMBDA l : Read("RXOKErrorSlowOpticalLink", 6 + l)
                                    \cup Latched("LatchedRXOKErrorSlowOpticalLink", l))

\* The dump of the enables reads the inversion register.
InducedErrors ==
    PerLink(ROCLinks, LAMBDA l :
        Flag("SERDESInduceErrorEnable", "DiagSERDESErrorEnable", l)
        \cup {Shown("SERDESInduceErrorEnable", "SERDESTXRXInvertEnable", {l})})
    \cup EachLink(ROCLinks, WordSetting("SERDESInduceErrorSequenceNumber", "DiagSERDESPacket"))

\* The flags of 128 buffers are in four registers of 32.
DDRFlags ==
    EachLink(0 .. 3,
        {Getter("DDRLinkBufferFullFlags", "DDR3LinkBufferFullFlags", Word),
         Getter("DDRLinkBufferEmptyFlags", "DDR3LinkBufferEmptyFlags", Word),
         Getter("DDRLinkBufferHalfFullFlags", "DDR3LinkBufferHalfFullFlags", Word),
         Getter("DDREventBuilderBufferFullFlags", "DDR3EVBBufferFullFlags", Word),
         Getter("DDREventBuilderBufferEmptyFlags", "DDR3EVBBufferEmptyFlags", Word),
         Getter("DDREventBuilderBufferHalfFullFlags", "DDR3EVBBufferHalfFullFlags", Word)})

\* The dump of the full flags reads the empty flags.
DDRLinkBufferDump ==
    EachLink(0 .. 3,
        {Shown("DDRLinkBufferEmptyFlags", "DDR3LinkBufferEmptyFlags", Word),
         Shown("DDRLinkBufferHalfFullFlags", "DDR3LinkBufferHalfFullFlags", Word),
         Shown("DDRLinkBufferFullFlags", "DDR3LinkBufferEmptyFlags", Word)})

\* Two of the dumps of the event builder's flags read those of the links.
DDREventBuilderBufferDump ==
    EachLink(0 .. 3,
        {Shown("DDREventBuilderBufferEmptyFlags", "DDR3EVBBufferEmptyFlags", Word),
         Shown("DDREventBuilderBufferHalfFullFlags", "DDR3LinkBufferHalfFullFlags", Word),
         Shown("DDREventBuilderBufferFullFlags", "DDR3LinkBufferFullFlags", Word)})

DataPendingDiagnosticTimer ==
    EachLink(ROCLinks, Counter("DataPendingDiagnosticTimer", "DataPendingDiagTimer", {}))

----------------------------------------------------------------------------
(* Faults that a ROC emulator makes on purpose: two enables and, in the    *)
(* same register, the time stamp, whose setter writes the whole word.      *)

PeriodicTimeoutError ==
    EachLink(ROCLinks,
        Flag("ROCEmulatorPeriodicTimeoutError", "ROCEmulator_InduceTimeoutError", 31))

PartialDataTimeoutError ==
    EachLink(ROCLinks,
        Flag("ROCEmulatorTimeoutErrorOutputPartialData", "ROCEmulator_InduceTimeoutError", 30))

TimeoutErrorTimestamp ==
    LET R == "ROCEmulator_InduceTimeoutError" IN
    EachLink(ROCLinks,
        {Getter("ROCEmulatorTimeoutErrorTimestamp", R, Bits(0, 30)),
         Overwriter("ROCEmulatorTimeoutErrorTimestamp", R, Bits(0, 30))})

ROCEmulatorTimeoutErrorDump ==
    {[g EXCEPT !.kind = "show"] :
        g \in {g \in PeriodicTimeoutError \cup PartialDataTimeoutError
                     \cup TimeoutErrorTimestamp : g.kind = "read"}}

ExtraWordError ==
    EachLink(ROCLinks,
        Flag("ROCEmulatorExtraWordError", "ROCEmulator_InduceExtraWordError", 31))

ExtraWordErrorTimestamp ==
    LET R == "ROCEmulator_InduceExtraWordError"
        Timestamp == EachLink(ROCLinks,
            {Getter("ROCEmulatorExtraWordErrorTimestamp", R, Bits(0, 31)),
             Overwriter("ROCEmulatorExtraWordErrorTimestamp", R, Bits(0, 31))}) IN
    Timestamp \cup LinkDump(Timestamp, "ROCEmulatorExtraWordErrorTimestamp")
    \cup LinkDump(ExtraWordError, "ROCEmulatorExtraWordError")

----------------------------------------------------------------------------
(* Error counts.                                                           *)

\* One counter for each link that has a receiver, cleared by writing 1.
CharacterNotInTableErrorCount ==
    EachLink(CFOAndROCLinks,
        Counter("SERDESCharacterNotInTableErrorCount",
                "SERDES_CharacterNotInTableErrorCount", {0}))

RXDisparityErrorCount ==
    EachLink(CFOAndROCLinks,
        Counter("SERDESRXDisparityErrorCount", "SERDES_RXDisparityErrorCount", {0}))

RXPRBSErrorCount ==
    EachLink(CFOAndROCLinks,
        Counter("SERDESRXPRBSErrorCount", "SERDES_RXPRBSErrorCount", {0}))

RXCRCErrorCount ==
    EachLink(CFOAndROCLinks,
        Counter("SERDESRXCRCErrorCount", "SERDES_RXCRCErrorCount", {0}))

\* The dump of the enables reads the inversion register.
InducedCRCErrors ==
    PerLink(CFOAndROCLinks, LAMBDA l :
        Flag("InduceSERDESRXCRCError", "SERDES_RXCRCErrorControl", l)
        \cup {Shown("InduceSERDESRXCRCError", "SERDESTXRXInvertEnable", {l})})
    \cup Counter("EVBSERDESRXPacketErrorCounter", "EBVSERDES_RXPacketErrorCount", {0})
    \cup Counter("JitterAttenuatorRecoveredClockLOSCount",
                 "JitterAttenuator_SERDES_RXRecoveredClockLOSCount", {0})
    \cup Counter("JitterAttenuatorExternalClockLOSCount",
                 "JitterAttenuator_SERDES_RXExternalClockLOSCount", {0})

----------------------------------------------------------------------------
(* Packet counts and delays of the links.                                  *)

ROCEmulatorInterpacketDelay ==
    EachLink(ROCLinks, WordSetting("ROCEmulatorInterpacketDelay", "ROCEmulator_InterpacketDelay"))

TXEventWindowMarkerCount ==
    EachLink(CFOAndROCLinks,
        Status("TXEventWindowMarkerCount", "TXEventWindowMarkerCount", Word))

TXDataRequestPacketCount ==
    EachLink(ROCLinks, Counter("TXDataRequestPacketCount", "TXDataRequestPacketCount", {}))
    \cup Status("CFOTXClockMarkerCountLink6", "CFOTXClockMarkerCount_Link6", Word)

TXHeartbeatPacketCount ==
    EachLink(CFOAndROCLinks, Status("TXHeartbeatPacketCount", "TXHeartbeatPacketCount", Word))

RXDataHeaderPacketCount ==
    EachLink(ROCLinks, Counter("RXDataHeaderPacketCount", "RXDataHeaderPacketCount", {}))

\* The diagnostic queue of the event builder is read in two words and cleared
\* by writing its low one.
RXDataPacketCount ==
    EachLink(ROCLinks, Counter("RXDataPacketCount", "RXDataPacketCount", {}))
    \cup {Getter("EVBDiagnosticFIFOHigh", "EVBDiagnosticRXPacket_High", Word),
          Getter("EVBDiagnosticFIFOLow", "EVBDiagnosticRXPacket_Low", Word),
          Clear("EVBDiagnosticFIFOLow", "EVBDiagnosticRXPacket_Low", {})}

\* The event mode table has a register for each entry (two are modelled); they are
\* written, one or all, and read, without a readback.
EventModeWords ==
    EachLink({0, 1},
        {Getter("EventModeWord", "EventModeLookupTable", Word),
         Overwriter("EventModeWord", "EventModeLookupTable", Word)})

DtcDiagnosticTable ==
    SlowOptical \cup InducedErrors \cup DDRFlags \cup DDRLinkBufferDump
    \cup DDREventBuilderBufferDump \cup DataPendingDiagnosticTimer
    \cup PeriodicTimeoutError \cup PartialDataTimeoutError
    \cup TimeoutErrorTimestamp \cup ROCEmulatorTimeoutErrorDump
    \cup ExtraWordError \cup ExtraWordErrorTimestamp
    \cup CharacterNotInTableErrorCount \cup RXDisparityErrorCount
    \cup RXPRBSErrorCount \cup RXCRCErrorCount \cup InducedCRCErrors
    \cup ROCEmulatorInterpacketDelay \cup TXEventWindowMarkerCount
    \cup TXDataRequestPacketCount \cup TXHeartbeatPacketCount
    \cup RXDataHeaderPacketCount \cup RXDataPacketCount \cup EventModeWords
=============================================================================
