----------------------------- MODULE MCServiceJobs -----------------------------
EXTENDS MCServicePlaces

\* The scripts of all routes obey: what ServiceRunsProofs shows holds of them.
ASSUME ScriptsObey == Obeyed(AllRoutes, MCPlaces)
================================================================================
