--------------------------- MODULE CoreRegisters ---------------------------
(***************************************************************************)
(* The registers that CFO and DTC cards have in common, one row for each   *)
(* accessor of CFOandDTC_Registers.cpp, in the order of that file.         *)
(***************************************************************************)
EXTENDS RegisterFields

\* Design date and flavour, version number, link speeds and design type, and
\* the version of the tool chain.
DesignVersion ==
    Status("DesignDate", "DesignDate", Word)
    \cup {Getter("DesignFlavour", "DesignDate", Bits(28, 4))}
    \cup Status("DesignVersionNumber", "DesignVersion", Bits(0, 16))
    \cup Status("DesignLinkSpeed", "DesignVersion", Bits(24, 8))
    \cup Status("DesignType", "DesignVersion", Bits(16, 4))
    \cup Status("VivadoVersionNumber", "VivadoVersion", Word)

\* The resets and the cable delay test of the control register.  The soft
\* reset reads the register again before it releases bit 31, the SERDES reset
\* and the loopback test write back the word they wrote.
ControlResets ==
    {Pulse("SoftReset", "Control", {31}),
     Getter("SoftReset", "Control", {31}),
     StalePulse("ResetSERDES", "Control", {8}),
     Getter("ResetSERDES", "Control", {8}),
     [StalePulse("CableDelayLoopbackTest", "Control", {3})
        EXCEPT !.writes = {<<{}, {3}>>}],
     SetterTo("HardReset", "Control", {0}, {{0}}),
     Getter("HardReset", "Control", {0}),
     WriteWords("ClearControlRegister", "Control", <<{}>>)}

\* Temperature and supply voltages of the FPGA.
FPGAMonitors ==
    Status("FPGATemperature", "FPGA_Temperature", Word)
    \cup Status("FPGAVCCINTVoltage", "FPGA_VCCINT", Word)
    \cup Status("FPGAVCCAUXVoltage", "FPGA_VCCAUX", Word)
    \cup Status("FPGAVCCBRAMVoltage", "FPGA_VCCBRAM", Word)

\* The alarms: each has a getter, a line of the dump, and a reset that reads
\* all of them and writes them back with its own bit set.
Alarm(n, bit) ==
    Status(n, "FPGA_MonitorAlarm", {bit})
    \cup {Ack(n, "FPGA_MonitorAlarm", {bit})}

FPGAAlarms ==
    Alarm("FPGADieTemperatureAlarm", 8) \cup Alarm("FPGAAlarms", 7)
    \cup Alarm("VCCBRAMAlarm", 3) \cup Alarm("VCCAUXAlarm", 2)
    \cup Alarm("VCCINTAlarm", 1) \cup Alarm("FPGAUserTemperatureAlarm", 0)

\* The jitter attenuator, at the address r that the card gives.  Selecting a
\* source may reset the attenuator with the same word.
JitterAttenuator(r) ==
    Setting("JitterAttenuatorSelect", r, {4, 5})
    \cup {[GroupSetter("JitterAttenuatorSelect", r, {0, 4, 5})
             EXCEPT !.writes = {<<v, v \cup {0}, v>> : v \in AnyOf({4, 5})},
                    !.rereads = FALSE],
          StalePulse("JitterAttenuatorReset", r, {0})}
    \cup Status("JitterAttenuatorReset", r, {0})
    \cup Inverted(Status("JitterAttenuatorLocked", r, {8}), {8})

\* Presence, interrupt and select lines of the optical transceivers.
FireflyLines ==
    LET R == "FireFlyControlStatus" IN
    {Getter("TXRXFireflyPresent", R, {26}), Getter("RXFireflyPresent", R, {25}),
     Getter("TXFireflyPresent", R, {24}),
     Getter("TXRXFireflyInterrupt", R, {18}),
     Getter("RXFireflyInterrupt", R, {17}), Getter("TXFireflyInterrupt", R, {16}),
     Getter("TXRXFireflySelect", R, {10}),
     [Overwriter("TXRXFireflySelect", R, {9}) EXCEPT !.writes = Once({{}, {9}})]}
    \cup Flag("TXFireflySelect", R, 9) \cup Flag("RXFireflySelect", R, 8)

FireflyResets ==
    LET R == "FireFlyControlStatus" IN
    {StalePulse("ResetTXRXFirefly", R, {2}), StalePulse("ResetTXFirefly", R, {1}),
     StalePulse("ResetRXFirefly", R, {0})}
    \cup Dump(FireflyLines,
              {"TXRXFireflyPresent", "RXFireflyPresent", "TXFireflyPresent",
               "TXRXFireflyInterrupt", "RXFireflyInterrupt",
               "TXFireflyInterrupt", "TXRXFireflySelect", "TXFireflySelect",
               "RXFireflySelect"}, R)
    \cup Status("ResetTXRXFirefly", R, {2}) \cup Status("ResetTXFirefly", R, {1})
    \cup Status("ResetRXFirefly", R, {0})

CoreRegisters ==
    DesignVersion \cup ControlResets \cup FPGAMonitors \cup FPGAAlarms
    \cup FireflyLines \cup FireflyResets
=============================================================================
