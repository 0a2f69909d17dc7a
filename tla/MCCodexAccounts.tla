-------------------------- MODULE MCCodexAccounts --------------------------
(* The turns of an owner and of a reviewer that share two accounts.        *)
EXTENDS CodexAccounts
CONSTANTS owner, reviewer
MCRuns == {owner, reviewer}
MCReadonlyRuns == {reviewer}
=============================================================================
