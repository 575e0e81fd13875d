---------------------------- MODULE MCScanControl ----------------------------
(* The constants of ScanControl's runs.                                    *)
EXTENDS ScanControl, TLC

CONSTANTS f1, f2, g1, g2

\* What users ask for: everything again, or one folder.
MCRequests == {<<TRUE, {}>>, <<FALSE, {f1}>>}

NoUpgrade == <<FALSE, FALSE>>
Migrated == <<TRUE, FALSE>>
Reconfigured == <<FALSE, TRUE>>
MCStarts == {NoUpgrade, Migrated}
MCUpgrades == {Migrated, Reconfigured}
===============================================================================
