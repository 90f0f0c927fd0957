---------------------------- MODULE MCPanelStream ----------------------------
(***************************************************************************)
(* Small instances of PanelStream alone: one chat and the account.         *)
(***************************************************************************)
EXTENDS PanelStream

CONSTANTS thread, account

=============================================================================
