-------------------------- MODULE MCLedgerArchive --------------------------
(* An instance of LedgerArchive for TLC: one cell, and either an operator  *)
(* who refreshes the archive or changes, faults and a ZIP request.         *)
EXTENDS LedgerArchive
CONSTANTS c1, z1, k1, k2, w1

OneCell  == <<c1>>

\* The operator starts before anything else has happened, and then nothing else does.
OneAtATime ==
    /\ (cli' # cli => changes = 0 /\ faults = 0 /\ zip[z1].status = "none")
    /\ ((\E k \in Clis : cli[k] # None) => UNCHANGED <<changes, faults, zip>>)

LedgerSpec == Init /\ [][Next /\ OneAtATime]_vars /\ Fairness
=============================================================================
