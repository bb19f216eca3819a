---------------------------- MODULE MCPendingTray ---------------------------
(* PendingTray with three messages and room for two, for TLC.              *)
EXTENDS PendingTray
=============================================================================
