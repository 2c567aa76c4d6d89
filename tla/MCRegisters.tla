----------------------------- MODULE MCRegisters -----------------------------
(***************************************************************************)
(* All links of both cards.  The settings below have accessors that do not *)
(* agree with each other whatever the other caller does: README.md says    *)
(* how.  Registers leaves them out and checks all others.                  *)
(***************************************************************************)
EXTENDS RegisterAccessInv

\* The setter writes other bits than the getter returns.
SetterDiffers ==
    {"ROCInterfaceSoftReset", "ExternalCFOSampleEdgeMode", "CFOLoopback", "ResetPCIe",
     "EVBLocalParitionID", "CFOEmulationDebugType", "EVBSERDESTXPRBSSEL",
     "EVBSERDESRXPRBSSEL", "EVBSERDESPRBSForceError", "EventModeLookupByteSelect",
     "DetectorEmulatorEnable", "TXRXFireflySelect", "SERDESTXPRBSSEL", "SERDESRXPRBSSEL",
     "ROCEmulatorTimeoutErrorTimestamp", "ROCEmulatorExtraWordErrorTimestamp"}

\* The dump reads another register, or other bits, than the getter.
DumpDiffers ==
    {"CFOEmulationLoopbackDelayMeasure", "CFO40MHzClockMarkerEnable",
     "RXOKErrorSlowOpticalLink", "LatchedSpareSMAInputOKError",
     "LatchedEventMarkerSMAInputOKError", "LatchedRXOKErrorSlowOpticalLink",
     "SERDESInduceErrorEnable", "InduceSERDESRXCRCError", "DDRLinkBufferFullFlags",
     "DDREventBuilderBufferHalfFullFlags", "DDREventBuilderBufferFullFlags",
     "TXFireflyPresent", "RXFireflyPresent", "TXFireflyInterrupt", "RXFireflyInterrupt",
     "DMAReadStartAddress", "DMAReadByteCount"}

\* The fields of neighbouring links overlap.
FieldsOverlap == {"TXPRBSMode", "RXPRBSMode"}

Disagreeing == SetterDiffers \cup DumpDiffers \cup FieldsOverlap
=============================================================================
