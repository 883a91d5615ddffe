----------------------------- MODULE MCAccounts -----------------------------
(* An instance of Accounts for TLC; its constants are set by the cfg.      *)
EXTENDS Accounts
=============================================================================
