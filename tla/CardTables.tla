----------------------------- MODULE CardTables -----------------------------
(***************************************************************************)
(* The register tables of both cards, without the settings and the links   *)
(* that an instance leaves out.                                            *)
(***************************************************************************)
EXTENDS RegisterFields

CONSTANTS
    Links,     \* the links that are modelled, NoLink for the shared registers
    Skipped    \* the settings that are not watched and not written

ASSUME LinksAssumption == Links \subseteq CardLinks \cup {NoLink}

Dtc == INSTANCE DtcRegisters
Diagnostic == INSTANCE DtcDiagnosticRegisters
Cfo == INSTANCE CfoRegisters

Cards == {"DTC", "CFO"}

Table(card) ==
    {w \in IF card = "DTC" THEN Dtc!DtcTable \cup Diagnostic!DtcDiagnosticTable
                           ELSE Cfo!CfoTable :
        w.link \in Links /\ w.does \notin Skipped}
=============================================================================
