------------------------------ MODULE MCTarati ------------------------------
(***************************************************************************)
(* The remote Tcl workbench for TLC.                                       *)
(***************************************************************************)
EXTENDS Tarati, TLC

CONSTANTS c1, c2

(* One client and all the reports; a second client after the first, for    *)
(* the last report.                                                        *)
RemoteInit ==
    \/ TaratiInitWith(c1 :> "off" @@ c2 :> "gone", 0)
    \/ TaratiInitWith(c1 :> "off" @@ c2 :> "later", MaxReports - 1)

RemoteSpec == RemoteInit /\ [][TaratiNext]_taratiVars /\ TaratiFairness
=============================================================================
