--------------------------- MODULE MCAutomations ---------------------------
(* An instance of Automations for TLC.                                     *)
EXTENDS Automations

\* One job runs every minute, with or without a tool for its kind.  The other's
\* cron matches every minute or no date at all.
MCSettings == [j \in Jobs |->
    IF j = "weekly"
    THEN {[cron |-> 1, wired |-> TRUE], [cron |-> 1, wired |-> FALSE]}
    ELSE {[cron |-> Never, wired |-> TRUE], [cron |-> 1, wired |-> TRUE]}]
=============================================================================
