--------------------------- MODULE MCExportHistory ---------------------------
(***************************************************************************)
(* Model checking of ServiceExport with its history variables.             *)
(***************************************************************************)
EXTENDS MCServiceExport, ExportHistory

SettledH == Settled /\ overlooked = {} /\ dropped = FALSE /\ outdated = FALSE
FairSpecSettledH == SettledH /\ [][NextH]_varsH /\ Fairness
=============================================================================
